------------------------ MODULE AddonInstaller_proofs ------------------------
(***************************************************************************)
(* The installer of AddonInstaller.tla keeps what the next start falls     *)
(* back to, loads what the lock names and settles every update, for any    *)
(* releases, ranges, stops, failures, damages, edits and Updates.          *)
(***************************************************************************)
EXTENDS AddonInstaller, TLAPS

(* Where the process is in each part of a start, and in an Update. *)
UndoPcs == {"undoAside", "undoRename", "undoTarball", "undoLock"}
SwitchPcs == {"switch", "swClear", "swMove", "swUnpack", "swLock", "swBack", "discard", "discardLock"}
VerifyPcs == {"verify", "reClear", "reMove"}
InstallPcs == {"inTarball", "inClear", "inMove", "inLock"}
StagePcs == {"stTarball", "stLock", "stClean"}
Pcs == UndoPcs \cup SwitchPcs \cup VerifyPcs \cup InstallPcs \cup StagePcs
       \cup {"down", "answer", "inClean", "load", "loadNew", "confirm", "confirmClean", "up"}

(* Its tarball was stored, and not removed by the installer since. *)
Stored(v) == v \in tarballs \cup damaged

-----------------------------------------------------------------------------
(* What each part counts on. *)

(* There is a release to go back to. *)
UndoInv == pc \in UndoPcs => lock.previous # None

(* A release is staged; from the first folder on it is in the range and    *)
(* stored, and its folder is there before the lock says so.                *)
SwitchInv ==
  /\ pc \in SwitchPcs => lockAnswers /\ lock.pending # None
  /\ pc \in {"swClear", "swMove", "swUnpack", "swLock"} => lock.pending \in range /\ Stored(lock.pending)
  /\ pc = "swLock" => dir = lock.pending

(* The entry answers, and no switch is under way. *)
VerifyInv == pc \in VerifyPcs => lockAnswers /\ lock.previous = None

(* The tarball is stored before the folder is touched, the folder is there *)
(* before the lock says so, and the lock names none of what then goes.     *)
InstallInv ==
  /\ pc \in InstallPcs \cup {"answer"} => lock.previous = None
  /\ pc \in InstallPcs => target \in range
  /\ pc \in {"inClear", "inMove", "inLock"} => Stored(target)
  /\ pc = "inLock" => dir = target
  /\ pc = "inClean" => /\ dir = lock.version /\ lockAnswers /\ lock.previous = None
                       /\ lock.version \notin olds

(* What is loaded is unpacked and pinned; a switch waits for its load, and *)
(* is confirmed only after it.                                             *)
LoadInv ==
  /\ pc \in {"load", "loadNew"} => dir = lock.version /\ lockAnswers
  /\ pc = "load" => lock.previous = None
  /\ pc \in {"loadNew", "confirm"} => lock.previous # None /\ Stored(lock.version)
  /\ pc = "confirm" => tried \in {"loaded", "off"}
  /\ pc = "confirmClean" => /\ tried \in {"loaded", "off"} /\ lock.previous = None
                            /\ lock.version \notin olds

(* An Update runs beside no switch, and drops nothing the lock names. *)
StageInv ==
  /\ pc \in StagePcs => lock.version # None /\ lock.previous = None
  /\ pc \in {"stTarball", "stLock"} => target \in Releases /\ target # lock.version
  /\ pc = "stClean" => lock.version \notin olds

(* What of a start is history: nothing is loaded before the load pass, a   *)
(* start that ends without one has an excuse.                              *)
HistoryInv ==
  /\ settling => tried = "failed" /\ pc \in UndoPcs \cup StagePcs \cup {"up"}
  /\ running # None => running = lock.version /\ pc \in StagePcs \cup {"confirm", "confirmClean", "up"}
  /\ pc \in StagePcs \cup {"up"} => excuse \/ tried # "no"

(* The inductive invariant. *)
InstallerInv == /\ InstallerTypeOK /\ pc \in Pcs /\ FallbackKept
                /\ UndoInv /\ SwitchInv /\ VerifyInv /\ InstallInv /\ LoadInv /\ StageInv /\ HistoryInv

USE ReleasesAssumption, RangesAssumption DEF None, Torn, Foreign

(* At first nothing is installed and nothing under way. *)
LEMMA InitInv == InstallerInit => InstallerInv
<1> SUFFICES ASSUME InstallerInit PROVE InstallerInv
  OBVIOUS
<1>1. InstallerTypeOK /\ FallbackKept
  BY DEF InstallerInit, InstallerTypeOK, NoLock, Entry, Folder, FallbackKept
<1>2. pc = "down" /\ settling = FALSE /\ running = None
  BY DEF InstallerInit
<1>. QED
  BY <1>1, <1>2 DEF InstallerInv, UndoInv, SwitchInv, VerifyInv, InstallInv, LoadInv, StageInv, HistoryInv,
                    Pcs, UndoPcs, SwitchPcs, VerifyPcs, InstallPcs, StagePcs

(* Undoing a switch: the entry keeps naming what to go back to until the last
   write, and that write makes it what is installed. *)
LEMMA UndoKeepsInv ==
  ASSUME InstallerInv, Undo
  PROVE  InstallerInv'
<1> USE DEF InstallerInv
<1>1. ASSUME UndoAside PROVE InstallerInv'
  <2>1. InstallerTypeOK'
    BY <1>1 DEF UndoAside, InstallerTypeOK, Folder, Quiet, rest
  <2>2. pc' \in Pcs
    BY <1>1 DEF UndoAside, Pcs, UndoPcs, Move
  <2>3. FallbackKept'
    BY <1>1 DEF UndoAside, FallbackKept, Kept, Quiet, rest
  <2>4. UndoInv' /\ SwitchInv' /\ VerifyInv'
    BY <1>1 DEF UndoAside, UndoInv, SwitchInv, VerifyInv, UndoPcs, SwitchPcs, VerifyPcs, Move
  <2>5. InstallInv' /\ LoadInv'
    BY <1>1 DEF UndoAside, InstallInv, LoadInv, InstallPcs, Move
  <2>6. StageInv' /\ HistoryInv'
    BY <1>1 DEF UndoAside, StageInv, HistoryInv, UndoPcs, StagePcs, Move, Quiet
  <2>. QED BY <2>1, <2>2, <2>3, <2>4, <2>5, <2>6
<1>2. ASSUME UndoRename PROVE InstallerInv'
  <2>1. InstallerTypeOK'
    BY <1>2 DEF UndoRename, InstallerTypeOK, Folder, Quiet, rest
  <2>2. pc' \in Pcs
    BY <1>2 DEF UndoRename, Pcs, UndoPcs, Move
  <2>3. FallbackKept'
    BY <1>2 DEF UndoRename, FallbackKept, Kept, Quiet, rest
  <2>4. UndoInv' /\ SwitchInv' /\ VerifyInv'
    BY <1>2 DEF UndoRename, UndoInv, SwitchInv, VerifyInv, UndoPcs, SwitchPcs, VerifyPcs, Move
  <2>5. InstallInv' /\ LoadInv'
    BY <1>2 DEF UndoRename, InstallInv, LoadInv, InstallPcs, Move
  <2>6. StageInv' /\ HistoryInv'
    BY <1>2 DEF UndoRename, StageInv, HistoryInv, UndoPcs, StagePcs, Move, Quiet
  <2>. QED BY <2>1, <2>2, <2>3, <2>4, <2>5, <2>6
<1>3. ASSUME UndoTarball PROVE InstallerInv'
  <2>1. InstallerTypeOK'
    BY <1>3 DEF UndoTarball, InstallerTypeOK, Quiet, rest
  <2>2. pc' \in Pcs
    BY <1>3 DEF UndoTarball, Pcs, UndoPcs, Move
  <2>3. FallbackKept'
    BY <1>3 DEF UndoTarball, FallbackKept, Kept, UndoInv, UndoPcs, Move, Quiet, rest
  <2>4. UndoInv' /\ SwitchInv' /\ VerifyInv'
    BY <1>3 DEF UndoTarball, UndoInv, SwitchInv, VerifyInv, UndoPcs, SwitchPcs, VerifyPcs, Move
  <2>5. InstallInv' /\ LoadInv'
    BY <1>3 DEF UndoTarball, InstallInv, LoadInv, InstallPcs, Move
  <2>6. StageInv' /\ HistoryInv'
    BY <1>3 DEF UndoTarball, StageInv, HistoryInv, UndoPcs, StagePcs, Move, Quiet
  <2>. QED BY <2>1, <2>2, <2>3, <2>4, <2>5, <2>6
<1>4. ASSUME UndoLock PROVE InstallerInv'
  <2>1. InstallerTypeOK'
    BY <1>4 DEF UndoLock, InstallerTypeOK, Entry, NoLock, Quiet, rest
  <2>2. pc' \in Pcs
    BY <1>4 DEF UndoLock, Pcs, Move
  <2>3. FallbackKept'
    BY <1>4 DEF UndoLock, InstallerTypeOK, NoLock, FallbackKept, Kept, Quiet, rest
  <2>4. UndoInv' /\ SwitchInv' /\ VerifyInv'
    BY <1>4 DEF UndoLock, UndoInv, SwitchInv, VerifyInv, UndoPcs, SwitchPcs, VerifyPcs, Move
  <2>5. InstallInv' /\ LoadInv'
    BY <1>4 DEF UndoLock, InstallInv, LoadInv, InstallPcs, Move
  <2>6. StageInv' /\ HistoryInv'
    BY <1>4 DEF UndoLock, StageInv, HistoryInv, StagePcs, Move, Quiet
  <2>. QED BY <2>1, <2>2, <2>3, <2>4, <2>5, <2>6
<1>. QED BY <1>1, <1>2, <1>3, <1>4 DEF Undo

(* Switching: what is staged is stored until the lock names it or drops it, and
   the folder is unpacked before. *)
LEMMA SwitchKeepsInv ==
  ASSUME InstallerInv, SwitchSteps
  PROVE  InstallerInv'
<1> USE DEF InstallerInv
<1>1. ASSUME Switch PROVE InstallerInv'
  <2>1. InstallerTypeOK'
    BY <1>1 DEF Switch, InstallerTypeOK, Quiet, rest, disk
  <2>2. pc' \in Pcs
    BY <1>1 DEF Switch, Pcs, SwitchPcs
  <2>3. FallbackKept'
    BY <1>1 DEF Switch, FallbackKept, Kept, Quiet, rest, disk
  <2>4. UndoInv' /\ SwitchInv' /\ VerifyInv'
    BY <1>1 DEF Switch, UndoInv, SwitchInv, VerifyInv, lockAnswers, Stored, UndoPcs, SwitchPcs,
        VerifyPcs, Quiet, rest, disk
  <2>5. InstallInv' /\ LoadInv'
    BY <1>1 DEF Switch, InstallInv, LoadInv, InstallPcs
  <2>6. StageInv' /\ HistoryInv'
    BY <1>1 DEF Switch, StageInv, HistoryInv, UndoPcs, StagePcs, Quiet
  <2>. QED BY <2>1, <2>2, <2>3, <2>4, <2>5, <2>6
<1>2. ASSUME SwitchClear PROVE InstallerInv'
  <2>1. InstallerTypeOK'
    BY <1>2 DEF SwitchClear, InstallerTypeOK, Folder, Quiet, rest
  <2>2. pc' \in Pcs
    BY <1>2 DEF SwitchClear, Pcs, SwitchPcs, Move
  <2>3. FallbackKept'
    BY <1>2 DEF SwitchClear, FallbackKept, Kept, Quiet, rest
  <2>4. UndoInv' /\ SwitchInv' /\ VerifyInv'
    BY <1>2 DEF SwitchClear, UndoInv, SwitchInv, VerifyInv, lockAnswers, Stored, UndoPcs, SwitchPcs,
        VerifyPcs, Move, Quiet, rest
  <2>5. InstallInv' /\ LoadInv'
    BY <1>2 DEF SwitchClear, InstallInv, LoadInv, InstallPcs, Move
  <2>6. StageInv' /\ HistoryInv'
    BY <1>2 DEF SwitchClear, StageInv, HistoryInv, UndoPcs, StagePcs, Move, Quiet
  <2>. QED BY <2>1, <2>2, <2>3, <2>4, <2>5, <2>6
<1>3. ASSUME SwitchMove PROVE InstallerInv'
  <2>1. InstallerTypeOK'
    BY <1>3 DEF SwitchMove, InstallerTypeOK, Folder, Quiet, rest
  <2>2. pc' \in Pcs
    BY <1>3 DEF SwitchMove, Pcs, SwitchPcs, Move
  <2>3. FallbackKept'
    BY <1>3 DEF SwitchMove, FallbackKept, Kept, Quiet, rest
  <2>4. UndoInv' /\ SwitchInv' /\ VerifyInv'
    BY <1>3 DEF SwitchMove, UndoInv, SwitchInv, VerifyInv, lockAnswers, Stored, UndoPcs, SwitchPcs,
        VerifyPcs, Move, Quiet, rest
  <2>5. InstallInv' /\ LoadInv'
    BY <1>3 DEF SwitchMove, InstallInv, LoadInv, InstallPcs, Move
  <2>6. StageInv' /\ HistoryInv'
    BY <1>3 DEF SwitchMove, StageInv, HistoryInv, UndoPcs, StagePcs, Move, Quiet
  <2>. QED BY <2>1, <2>2, <2>3, <2>4, <2>5, <2>6
<1>4. ASSUME SwitchUnpack PROVE InstallerInv'
  <2>1. InstallerTypeOK'
    BY <1>4 DEF SwitchUnpack, InstallerTypeOK, Entry, Folder, Quiet, rest
  <2>2. pc' \in Pcs
    BY <1>4 DEF SwitchUnpack, Pcs, SwitchPcs, Move
  <2>3. FallbackKept'
    BY <1>4 DEF SwitchUnpack, FallbackKept, Kept, Quiet, rest
  <2>4. UndoInv' /\ SwitchInv' /\ VerifyInv'
    BY <1>4 DEF SwitchUnpack, UndoInv, SwitchInv, VerifyInv, lockAnswers, Stored, UndoPcs,
        SwitchPcs, VerifyPcs, Move, Quiet, rest
  <2>5. InstallInv' /\ LoadInv'
    BY <1>4 DEF SwitchUnpack, InstallInv, LoadInv, InstallPcs, Move
  <2>6. StageInv' /\ HistoryInv'
    BY <1>4 DEF SwitchUnpack, StageInv, HistoryInv, UndoPcs, StagePcs, Move, Quiet
  <2>. QED BY <2>1, <2>2, <2>3, <2>4, <2>5, <2>6
<1>5. ASSUME SwitchLock PROVE InstallerInv'
  <2>1. InstallerTypeOK'
    BY <1>5 DEF SwitchLock, InstallerTypeOK, Entry, SwitchInv, Move, Quiet, rest
  <2>2. pc' \in Pcs
    BY <1>5 DEF SwitchLock, Pcs, Move
  <2>3. FallbackKept'
    BY <1>5 DEF SwitchLock, InstallerTypeOK, FallbackKept, Kept, SwitchInv, Stored, Move, Quiet,
        rest
  <2>4. UndoInv' /\ SwitchInv' /\ VerifyInv'
    BY <1>5 DEF SwitchLock, UndoInv, SwitchInv, VerifyInv, UndoPcs, SwitchPcs, VerifyPcs, Move
  <2>5. InstallInv' /\ LoadInv'
    BY <1>5 DEF SwitchLock, SwitchInv, InstallInv, LoadInv, lockAnswers, Stored, SwitchPcs,
        InstallPcs, Move, Quiet, rest
  <2>6. StageInv' /\ HistoryInv'
    BY <1>5 DEF SwitchLock, StageInv, HistoryInv, UndoPcs, StagePcs, Move, Quiet
  <2>. QED BY <2>1, <2>2, <2>3, <2>4, <2>5, <2>6
<1>6. ASSUME SwitchBack PROVE InstallerInv'
  <2>1. InstallerTypeOK'
    BY <1>6 DEF SwitchBack, InstallerTypeOK, Quiet, rest
  <2>2. pc' \in Pcs
    BY <1>6 DEF SwitchBack, Pcs, SwitchPcs, Move
  <2>3. FallbackKept'
    BY <1>6 DEF SwitchBack, FallbackKept, Kept, Quiet, rest
  <2>4. UndoInv' /\ SwitchInv' /\ VerifyInv'
    BY <1>6 DEF SwitchBack, UndoInv, SwitchInv, VerifyInv, lockAnswers, UndoPcs, SwitchPcs,
        VerifyPcs, Move, Quiet, rest
  <2>5. InstallInv' /\ LoadInv'
    BY <1>6 DEF SwitchBack, InstallInv, LoadInv, InstallPcs, Move
  <2>6. StageInv' /\ HistoryInv'
    BY <1>6 DEF SwitchBack, StageInv, HistoryInv, UndoPcs, StagePcs, Move, Quiet
  <2>. QED BY <2>1, <2>2, <2>3, <2>4, <2>5, <2>6
<1>7. ASSUME Discard PROVE InstallerInv'
  <2>1. InstallerTypeOK'
    BY <1>7 DEF Discard, InstallerTypeOK, Quiet, rest
  <2>2. pc' \in Pcs
    BY <1>7 DEF Discard, Pcs, SwitchPcs, Move
  <2>3. FallbackKept'
    BY <1>7 DEF Discard, InstallerTypeOK, FallbackKept, Kept, Quiet, rest
  <2>4. UndoInv' /\ SwitchInv' /\ VerifyInv'
    BY <1>7 DEF Discard, UndoInv, SwitchInv, VerifyInv, lockAnswers, UndoPcs, SwitchPcs, VerifyPcs,
        Move, Quiet, rest
  <2>5. InstallInv' /\ LoadInv'
    BY <1>7 DEF Discard, InstallInv, LoadInv, InstallPcs, Move
  <2>6. StageInv' /\ HistoryInv'
    BY <1>7 DEF Discard, StageInv, HistoryInv, UndoPcs, StagePcs, Move, Quiet
  <2>. QED BY <2>1, <2>2, <2>3, <2>4, <2>5, <2>6
<1>8. ASSUME DiscardLock PROVE InstallerInv'
  <2>1. InstallerTypeOK'
    BY <1>8 DEF DiscardLock, InstallerTypeOK, Entry, NoLock, Quiet, rest
  <2>2. pc' \in Pcs
    BY <1>8 DEF DiscardLock, Pcs, VerifyPcs, Move
  <2>3. FallbackKept'
    BY <1>8 DEF DiscardLock, FallbackKept, Kept, Quiet, rest
  <2>4. UndoInv' /\ SwitchInv' /\ VerifyInv'
    BY <1>8 DEF DiscardLock, InstallerTypeOK, UndoInv, SwitchInv, VerifyInv, lockAnswers, UndoPcs,
        SwitchPcs, Move, Quiet, rest
  <2>5. InstallInv' /\ LoadInv'
    BY <1>8 DEF DiscardLock, InstallInv, LoadInv, InstallPcs, Move
  <2>6. StageInv' /\ HistoryInv'
    BY <1>8 DEF DiscardLock, StageInv, HistoryInv, UndoPcs, StagePcs, Move, Quiet
  <2>. QED BY <2>1, <2>2, <2>3, <2>4, <2>5, <2>6
<1>. QED BY <1>1, <1>2, <1>3, <1>4, <1>5, <1>6, <1>7, <1>8 DEF SwitchSteps

(* What is installed is looked at, checked and repaired under an entry that
   answers. *)
LEMMA InstalledKeepsInv ==
  ASSUME InstallerInv, Installed
  PROVE  InstallerInv'
<1> USE DEF InstallerInv
<1>1. ASSUME Answer PROVE InstallerInv'
  <2>1. range \subseteq Releases
    BY DEF InstallerTypeOK
  <2>2. /\ UNCHANGED <<lock, tarballs, dir, prev, damaged, range, settling, olds, tried, running>>
         /\ target' \in {target} \cup range /\ excuse' \in BOOLEAN
    BY <1>1, <2>1 DEF Answer, Quiet, rest, disk, InstallerTypeOK
  <2>3. InstallerTypeOK'
    BY <1>1, <2>1, <2>2 DEF InstallerTypeOK
  <2>4. pc' \in Pcs
    BY <1>1, <2>1, <2>2 DEF Answer, Pcs, SwitchPcs, VerifyPcs, InstallPcs
  <2>5. FallbackKept'
    BY <1>1, <2>1, <2>2 DEF Answer, FallbackKept, Kept
  <2>6. UndoInv' /\ SwitchInv' /\ VerifyInv'
    BY <1>1, <2>1, <2>2 DEF Answer, UndoInv, SwitchInv, VerifyInv, InstallInv, lockAnswers, UndoPcs,
        SwitchPcs, VerifyPcs
  <2>7. InstallInv' /\ LoadInv'
    BY <1>1, <2>1, <2>2 DEF Answer, InstallInv, LoadInv, InstallPcs
  <2>8. StageInv' /\ HistoryInv'
    BY <1>1, <2>1, <2>2 DEF Answer, StageInv, HistoryInv, UndoPcs, StagePcs
  <2>. QED BY <2>3, <2>4, <2>5, <2>6, <2>7, <2>8
<1>2. ASSUME Verify PROVE InstallerInv'
  <2>1. /\ UNCHANGED <<lock, tarballs, prev, damaged, range, settling, target, olds, tried, running>>
         /\ dir' \in {dir, None} /\ excuse' \in BOOLEAN
    BY <1>2 DEF Verify, Quiet, rest, InstallerTypeOK
  <2>2. InstallerTypeOK'
    BY <1>2, <2>1 DEF InstallerTypeOK, Folder
  <2>3. pc' \in Pcs
    BY <1>2 DEF Verify, Pcs, VerifyPcs
  <2>4. FallbackKept'
    BY <1>2 DEF Verify, FallbackKept, Kept, Quiet, rest
  <2>5. UndoInv' /\ SwitchInv' /\ VerifyInv'
    BY <1>2 DEF Verify, UndoInv, SwitchInv, VerifyInv, lockAnswers, UndoPcs, SwitchPcs, VerifyPcs,
        Quiet, rest
  <2>6. InstallInv' /\ LoadInv'
    BY <1>2 DEF Verify, VerifyInv, InstallInv, LoadInv, lockAnswers, VerifyPcs, InstallPcs, Quiet,
        rest
  <2>7. StageInv' /\ HistoryInv'
    BY <1>2 DEF Verify, VerifyInv, FallbackKept, Kept, lockAnswers, StageInv, HistoryInv, UndoPcs,
        VerifyPcs, StagePcs, Quiet
  <2>. QED BY <2>2, <2>3, <2>4, <2>5, <2>6, <2>7
<1>3. ASSUME RepairClear PROVE InstallerInv'
  <2>1. InstallerTypeOK'
    BY <1>3 DEF RepairClear, InstallerTypeOK, Folder, Quiet, rest
  <2>2. pc' \in Pcs
    BY <1>3 DEF RepairClear, Pcs, VerifyPcs, Move
  <2>3. FallbackKept'
    BY <1>3 DEF RepairClear, FallbackKept, Kept, Quiet, rest
  <2>4. UndoInv' /\ SwitchInv' /\ VerifyInv'
    BY <1>3 DEF RepairClear, UndoInv, SwitchInv, VerifyInv, lockAnswers, UndoPcs, SwitchPcs,
        VerifyPcs, Move, Quiet, rest
  <2>5. InstallInv' /\ LoadInv'
    BY <1>3 DEF RepairClear, InstallInv, LoadInv, InstallPcs, Move
  <2>6. StageInv' /\ HistoryInv'
    BY <1>3 DEF RepairClear, StageInv, HistoryInv, UndoPcs, StagePcs, Move, Quiet
  <2>. QED BY <2>1, <2>2, <2>3, <2>4, <2>5, <2>6
<1>4. ASSUME RepairMove PROVE InstallerInv'
  <2>1. InstallerTypeOK'
    BY <1>4 DEF RepairMove, InstallerTypeOK, Entry, Folder, Quiet, rest
  <2>2. pc' \in Pcs
    BY <1>4 DEF RepairMove, Pcs, Move
  <2>3. FallbackKept'
    BY <1>4 DEF RepairMove, FallbackKept, Kept, Quiet, rest
  <2>4. UndoInv' /\ SwitchInv' /\ VerifyInv'
    BY <1>4 DEF RepairMove, UndoInv, SwitchInv, VerifyInv, UndoPcs, SwitchPcs, VerifyPcs, Move
  <2>5. InstallInv' /\ LoadInv'
    BY <1>4 DEF RepairMove, VerifyInv, InstallInv, LoadInv, lockAnswers, VerifyPcs, InstallPcs,
        Move, Quiet, rest
  <2>6. StageInv' /\ HistoryInv'
    BY <1>4 DEF RepairMove, StageInv, HistoryInv, UndoPcs, StagePcs, Move, Quiet
  <2>. QED BY <2>1, <2>2, <2>3, <2>4, <2>5, <2>6
<1>. QED BY <1>1, <1>2, <1>3, <1>4 DEF Installed

(* Installing: the tarball, the folder and the lock, in this order, and then
   only what the lock no longer names goes. *)
LEMMA InstallKeepsInv ==
  ASSUME InstallerInv, Install
  PROVE  InstallerInv'
<1> USE DEF InstallerInv
<1>1. ASSUME InstallTarball PROVE InstallerInv'
  <2>1. InstallerTypeOK'
    BY <1>1 DEF InstallTarball, InstallerTypeOK, InstallInv, InstallPcs, Move
  <2>2. pc' \in Pcs
    BY <1>1 DEF InstallTarball, Pcs, InstallPcs, Move
  <2>3. FallbackKept'
    BY <1>1 DEF InstallTarball, FallbackKept, Kept
  <2>4. UndoInv' /\ SwitchInv' /\ VerifyInv'
    BY <1>1 DEF InstallTarball, UndoInv, SwitchInv, VerifyInv, UndoPcs, SwitchPcs, VerifyPcs, Move
  <2>5. InstallInv' /\ LoadInv'
    BY <1>1 DEF InstallTarball, InstallInv, LoadInv, Stored, InstallPcs, Move
  <2>6. StageInv' /\ HistoryInv'
    BY <1>1 DEF InstallTarball, StageInv, HistoryInv, UndoPcs, StagePcs, Move
  <2>. QED BY <2>1, <2>2, <2>3, <2>4, <2>5, <2>6
<1>2. ASSUME InstallClear PROVE InstallerInv'
  <2>1. InstallerTypeOK'
    BY <1>2 DEF InstallClear, InstallerTypeOK, Folder, Quiet, rest
  <2>2. pc' \in Pcs
    BY <1>2 DEF InstallClear, Pcs, InstallPcs, Move
  <2>3. FallbackKept'
    BY <1>2 DEF InstallClear, FallbackKept, Kept, Quiet, rest
  <2>4. UndoInv' /\ SwitchInv' /\ VerifyInv'
    BY <1>2 DEF InstallClear, UndoInv, SwitchInv, VerifyInv, UndoPcs, SwitchPcs, VerifyPcs, Move
  <2>5. InstallInv' /\ LoadInv'
    BY <1>2 DEF InstallClear, InstallInv, LoadInv, Stored, InstallPcs, Move, Quiet, rest
  <2>6. StageInv' /\ HistoryInv'
    BY <1>2 DEF InstallClear, StageInv, HistoryInv, UndoPcs, StagePcs, Move, Quiet
  <2>. QED BY <2>1, <2>2, <2>3, <2>4, <2>5, <2>6
<1>3. ASSUME InstallMove PROVE InstallerInv'
  <2>1. InstallerTypeOK'
    BY <1>3 DEF InstallMove, InstallerTypeOK, Folder, Quiet, rest
  <2>2. pc' \in Pcs
    BY <1>3 DEF InstallMove, Pcs, InstallPcs, Move
  <2>3. FallbackKept'
    BY <1>3 DEF InstallMove, FallbackKept, Kept, Quiet, rest
  <2>4. UndoInv' /\ SwitchInv' /\ VerifyInv'
    BY <1>3 DEF InstallMove, UndoInv, SwitchInv, VerifyInv, UndoPcs, SwitchPcs, VerifyPcs, Move
  <2>5. InstallInv' /\ LoadInv'
    BY <1>3 DEF InstallMove, InstallInv, LoadInv, Stored, InstallPcs, Move, Quiet, rest
  <2>6. StageInv' /\ HistoryInv'
    BY <1>3 DEF InstallMove, StageInv, HistoryInv, UndoPcs, StagePcs, Move, Quiet
  <2>. QED BY <2>1, <2>2, <2>3, <2>4, <2>5, <2>6
<1>4. ASSUME InstallLock PROVE InstallerInv'
  <2>1. InstallerTypeOK'
    BY <1>4 DEF InstallLock, InstallerTypeOK, Entry, NoLock, Quiet, rest
  <2>2. pc' \in Pcs
    BY <1>4 DEF InstallLock, Pcs, Move
  <2>3. FallbackKept'
    BY <1>4 DEF InstallLock, FallbackKept, Kept, InstallInv, Stored, Move, Quiet, rest
  <2>4. UndoInv' /\ SwitchInv' /\ VerifyInv'
    BY <1>4 DEF InstallLock, UndoInv, SwitchInv, VerifyInv, UndoPcs, SwitchPcs, VerifyPcs, Move
  <2>5. InstallInv' /\ LoadInv'
    BY <1>4 DEF InstallLock, InstallerTypeOK, NoLock, InstallInv, LoadInv, lockAnswers, InstallPcs,
        Move, Quiet, rest
  <2>6. StageInv' /\ HistoryInv'
    BY <1>4 DEF InstallLock, StageInv, HistoryInv, UndoPcs, StagePcs, Move, Quiet
  <2>. QED BY <2>1, <2>2, <2>3, <2>4, <2>5, <2>6
<1>5. ASSUME InstallClean PROVE InstallerInv'
  <2>1. \E gone : gone \subseteq olds /\ tarballs' = tarballs \ gone
    BY <1>5 DEF InstallClean
  <2>2. InstallerTypeOK'
    BY <1>5, <2>1 DEF InstallClean, InstallerTypeOK, Quiet, rest
  <2>3. pc' \in Pcs
    BY <1>5 DEF InstallClean, Pcs, Move
  <2>4. FallbackKept'
    BY <1>5, <2>1 DEF InstallClean, FallbackKept, Kept, InstallInv, Move, Quiet, rest
  <2>5. UndoInv' /\ SwitchInv' /\ VerifyInv'
    BY <1>5 DEF InstallClean, UndoInv, SwitchInv, VerifyInv, UndoPcs, SwitchPcs, VerifyPcs, Move
  <2>6. InstallInv' /\ LoadInv'
    BY <1>5 DEF InstallClean, InstallInv, LoadInv, lockAnswers, InstallPcs, Move, Quiet, rest
  <2>7. StageInv' /\ HistoryInv'
    BY <1>5 DEF InstallClean, StageInv, HistoryInv, UndoPcs, StagePcs, Move, Quiet
  <2>. QED BY <2>2, <2>3, <2>4, <2>5, <2>6, <2>7
<1>. QED BY <1>1, <1>2, <1>3, <1>4, <1>5 DEF Install

(* The load pass runs what the lock names, and a switch is confirmed only after
   a load, and cleaned up only after it is confirmed. *)
LEMMA SettleKeepsInv ==
  ASSUME InstallerInv, Settle
  PROVE  InstallerInv'
<1> USE DEF InstallerInv
<1>1. ASSUME Load PROVE InstallerInv'
  <2>1. /\ UNCHANGED <<lock, tarballs, prev, damaged, range, target, olds, dir, excuse>>
         /\ running' \in {dir, None} /\ settling' \in BOOLEAN /\ tried' \in {"loaded", "failed", "off"}
    BY <1>1 DEF Load, rest, disk, InstallerTypeOK
  <2>2. InstallerTypeOK'
    BY <1>1, <2>1 DEF InstallerTypeOK, Folder
  <2>3. pc' \in Pcs
    BY <1>1 DEF Load, Pcs, UndoPcs
  <2>4. FallbackKept'
    BY <1>1 DEF Load, FallbackKept, Kept, rest, disk
  <2>5. UndoInv' /\ SwitchInv' /\ VerifyInv'
    BY <1>1 DEF Load, UndoInv, SwitchInv, VerifyInv, LoadInv, UndoPcs, SwitchPcs, VerifyPcs, disk
  <2>6. InstallInv' /\ LoadInv'
    BY <1>1 DEF Load, InstallInv, LoadInv, Stored, InstallPcs, rest, disk
  <2>7. StageInv' /\ HistoryInv'
    BY <1>1 DEF Load, LoadInv, StageInv, HistoryInv, UndoPcs, StagePcs, disk
  <2>. QED BY <2>2, <2>3, <2>4, <2>5, <2>6, <2>7
<1>2. ASSUME ConfirmLock PROVE InstallerInv'
  <2>1. InstallerTypeOK'
    BY <1>2 DEF ConfirmLock, InstallerTypeOK, Entry, NoLock, LoadInv, Move, Quiet, rest
  <2>2. pc' \in Pcs
    BY <1>2 DEF ConfirmLock, Pcs, Move
  <2>3. FallbackKept'
    BY <1>2 DEF ConfirmLock, InstallerTypeOK, FallbackKept, Kept, LoadInv, Stored, Move, Quiet, rest
  <2>4. UndoInv' /\ SwitchInv' /\ VerifyInv'
    BY <1>2 DEF ConfirmLock, UndoInv, SwitchInv, VerifyInv, UndoPcs, SwitchPcs, VerifyPcs, Move
  <2>5. InstallInv' /\ LoadInv'
    BY <1>2 DEF ConfirmLock, InstallInv, LoadInv, InstallPcs, Move, Quiet
  <2>6. StageInv' /\ HistoryInv'
    BY <1>2 DEF ConfirmLock, StageInv, HistoryInv, UndoPcs, StagePcs, Move, Quiet
  <2>. QED BY <2>1, <2>2, <2>3, <2>4, <2>5, <2>6
<1>3. ASSUME ConfirmClean PROVE InstallerInv'
  <2>1. \E gone : gone \subseteq olds /\ tarballs' = tarballs \ gone
    BY <1>3 DEF ConfirmClean
  <2>2. InstallerTypeOK'
    BY <1>3, <2>1 DEF ConfirmClean, InstallerTypeOK, Folder, Quiet, rest
  <2>3. pc' \in Pcs
    BY <1>3 DEF ConfirmClean, Pcs, Move
  <2>4. FallbackKept'
    BY <1>3, <2>1 DEF ConfirmClean, FallbackKept, Kept, LoadInv, Move, Quiet, rest
  <2>5. UndoInv' /\ SwitchInv' /\ VerifyInv'
    BY <1>3 DEF ConfirmClean, UndoInv, SwitchInv, VerifyInv, UndoPcs, SwitchPcs, VerifyPcs, Move
  <2>6. InstallInv' /\ LoadInv'
    BY <1>3 DEF ConfirmClean, InstallInv, LoadInv, InstallPcs, Move
  <2>7. StageInv' /\ HistoryInv'
    BY <1>3 DEF ConfirmClean, LoadInv, StageInv, HistoryInv, StagePcs, Move, Quiet
  <2>. QED BY <2>2, <2>3, <2>4, <2>5, <2>6, <2>7
<1>. QED BY <1>1, <1>2, <1>3 DEF Settle

(* An Update stages beside what runs, and drops only what it replaces. *)
LEMMA StageKeepsInv ==
  ASSUME InstallerInv, Stage
  PROVE  InstallerInv'
<1> USE DEF InstallerInv
<1>1. ASSUME Update PROVE InstallerInv'
  <2>1. InstallerTypeOK'
    BY <1>1 DEF Update, InstallerTypeOK, disk
  <2>2. pc' \in Pcs
    BY <1>1 DEF Update, Pcs, StagePcs, Move
  <2>3. FallbackKept'
    BY <1>1 DEF Update, FallbackKept, Kept, disk
  <2>4. UndoInv' /\ SwitchInv' /\ VerifyInv'
    BY <1>1 DEF Update, UndoInv, SwitchInv, VerifyInv, UndoPcs, SwitchPcs, VerifyPcs, Move
  <2>5. InstallInv' /\ LoadInv'
    BY <1>1 DEF Update, InstallInv, LoadInv, Move, disk
  <2>6. StageInv' /\ HistoryInv'
    BY <1>1 DEF Update, InstallerTypeOK, StageInv, HistoryInv, lockAnswers, StagePcs, Move, disk
  <2>. QED BY <2>1, <2>2, <2>3, <2>4, <2>5, <2>6
<1>2. ASSUME StageTarball PROVE InstallerInv'
  <2>1. InstallerTypeOK'
    BY <1>2 DEF StageTarball, InstallerTypeOK, StageInv, Move
  <2>2. pc' \in Pcs
    BY <1>2 DEF StageTarball, Pcs, StagePcs, Move
  <2>3. FallbackKept'
    BY <1>2 DEF StageTarball, FallbackKept, Kept
  <2>4. UndoInv' /\ SwitchInv' /\ VerifyInv'
    BY <1>2 DEF StageTarball, UndoInv, SwitchInv, VerifyInv, UndoPcs, SwitchPcs, VerifyPcs, Move
  <2>5. InstallInv' /\ LoadInv'
    BY <1>2 DEF StageTarball, InstallInv, LoadInv, InstallPcs, Move
  <2>6. StageInv' /\ HistoryInv'
    BY <1>2 DEF StageTarball, StageInv, HistoryInv, StagePcs, Move
  <2>. QED BY <2>1, <2>2, <2>3, <2>4, <2>5, <2>6
<1>3. ASSUME StageLock PROVE InstallerInv'
  <2>1. InstallerTypeOK'
    BY <1>3 DEF StageLock, InstallerTypeOK, Entry, StageInv, StagePcs, Move, Quiet, rest
  <2>2. pc' \in Pcs
    BY <1>3 DEF StageLock, Pcs, StagePcs, Move
  <2>3. FallbackKept'
    BY <1>3 DEF StageLock, FallbackKept, Kept, Quiet, rest
  <2>4. UndoInv' /\ SwitchInv' /\ VerifyInv'
    BY <1>3 DEF StageLock, UndoInv, SwitchInv, VerifyInv, UndoPcs, SwitchPcs, VerifyPcs, Move
  <2>5. InstallInv' /\ LoadInv'
    BY <1>3 DEF StageLock, InstallInv, LoadInv, InstallPcs, Move
  <2>6. StageInv' /\ HistoryInv'
    BY <1>3 DEF StageLock, StageInv, HistoryInv, StagePcs, Move, Quiet
  <2>. QED BY <2>1, <2>2, <2>3, <2>4, <2>5, <2>6
<1>4. ASSUME StageClean PROVE InstallerInv'
  <2>1. \E gone : gone \subseteq olds /\ tarballs' = tarballs \ gone
    BY <1>4 DEF StageClean
  <2>2. InstallerTypeOK'
    BY <1>4, <2>1 DEF StageClean, InstallerTypeOK, Quiet, rest
  <2>3. pc' \in Pcs
    BY <1>4 DEF StageClean, Pcs, Move
  <2>4. FallbackKept'
    BY <1>4, <2>1 DEF StageClean, FallbackKept, Kept, StageInv, StagePcs, Move, Quiet, rest
  <2>5. UndoInv' /\ SwitchInv' /\ VerifyInv'
    BY <1>4 DEF StageClean, UndoInv, SwitchInv, VerifyInv, UndoPcs, SwitchPcs, VerifyPcs, Move
  <2>6. InstallInv' /\ LoadInv'
    BY <1>4 DEF StageClean, InstallInv, LoadInv, InstallPcs, Move
  <2>7. StageInv' /\ HistoryInv'
    BY <1>4 DEF StageClean, StageInv, HistoryInv, StagePcs, Move, Quiet
  <2>. QED BY <2>2, <2>3, <2>4, <2>5, <2>6, <2>7
<1>. QED BY <1>1, <1>2, <1>3, <1>4 DEF Stage

(* Whatever fails, stops, is damaged or edited leaves what the next step or the
   next start counts on. *)
LEMMA FaultsKeepInv ==
  ASSUME InstallerInv, Tear \/ StepFails \/ Crash \/ Damage \/ Configure
  PROVE  InstallerInv'
<1> USE DEF InstallerInv
<1>1. ASSUME Tear PROVE InstallerInv'
  <2>1. InstallerTypeOK'
    BY <1>1 DEF Tear, InstallerTypeOK, Folder, Quiet, rest
  <2>2. pc' \in Pcs
    BY <1>1 DEF Tear
  <2>3. FallbackKept'
    BY <1>1 DEF Tear, FallbackKept, Kept, Quiet, rest
  <2>4. UndoInv' /\ SwitchInv' /\ VerifyInv'
    BY <1>1 DEF Tear, UndoInv, SwitchInv, VerifyInv, lockAnswers, Stored, Quiet, rest
  <2>5. InstallInv' /\ LoadInv'
    BY <1>1 DEF Tear, InstallInv, LoadInv, Stored, Quiet, rest
  <2>6. StageInv' /\ HistoryInv'
    BY <1>1 DEF Tear, StageInv, HistoryInv, Quiet
  <2>. QED BY <2>1, <2>2, <2>3, <2>4, <2>5, <2>6
<1>2. ASSUME StepFails PROVE InstallerInv'
  <2>1. /\ UNCHANGED <<lock, tarballs, prev, damaged, range, settling, tried, running>>
         /\ target' = None /\ olds' = {} /\ dir' \in {dir, None} /\ excuse' \in BOOLEAN
    BY <1>2 DEF StepFails, InstallerTypeOK
  <2>2. InstallerTypeOK'
    BY <1>2, <2>1 DEF InstallerTypeOK, Folder
  <2>3. pc' \in Pcs
    BY <1>2 DEF StepFails, Pcs, SwitchPcs
  <2>4. FallbackKept'
    BY <1>2, <2>1 DEF StepFails, FallbackKept, Kept
  <2>5. UndoInv' /\ SwitchInv' /\ VerifyInv'
    BY <1>2 DEF StepFails, UndoInv, SwitchInv, VerifyInv, lockAnswers, UndoPcs, SwitchPcs, VerifyPcs
  <2>6. InstallInv' /\ LoadInv'
    BY <1>2 DEF StepFails, InstallInv, LoadInv, InstallPcs
  <2>7. StageInv' /\ HistoryInv'
    BY <1>2 DEF StepFails, StageInv, HistoryInv, UndoPcs, StagePcs
  <2>. QED BY <2>2, <2>3, <2>4, <2>5, <2>6, <2>7
<1>3. ASSUME Crash PROVE InstallerInv'
  <2>1. InstallerTypeOK'
    BY <1>3 DEF Crash, InstallerTypeOK, Folder, disk
  <2>2. pc' \in Pcs
    BY <1>3 DEF Crash, Pcs
  <2>3. FallbackKept'
    BY <1>3 DEF Crash, FallbackKept, Kept, disk
  <2>4. UndoInv' /\ SwitchInv' /\ VerifyInv'
    BY <1>3 DEF Crash, UndoInv, SwitchInv, VerifyInv, UndoPcs, SwitchPcs, VerifyPcs
  <2>5. InstallInv' /\ LoadInv'
    BY <1>3 DEF Crash, InstallInv, LoadInv, InstallPcs
  <2>6. StageInv' /\ HistoryInv'
    BY <1>3 DEF Crash, StageInv, HistoryInv, StagePcs
  <2>. QED BY <2>1, <2>2, <2>3, <2>4, <2>5, <2>6
<1>4. ASSUME Damage PROVE InstallerInv'
  <2>1. InstallerTypeOK'
    BY <1>4 DEF Damage, InstallerTypeOK
  <2>2. pc' \in Pcs
    BY <1>4 DEF Damage
  <2>3. FallbackKept'
    BY <1>4 DEF Damage, FallbackKept, Kept
  <2>4. UndoInv' /\ SwitchInv' /\ VerifyInv'
    BY <1>4 DEF Damage, UndoInv, SwitchInv, VerifyInv, lockAnswers
  <2>5. InstallInv' /\ LoadInv'
    BY <1>4 DEF Damage, InstallInv, LoadInv
  <2>6. StageInv' /\ HistoryInv'
    BY <1>4 DEF Damage, StageInv, HistoryInv
  <2>. QED BY <2>1, <2>2, <2>3, <2>4, <2>5, <2>6
<1>5. ASSUME Configure PROVE InstallerInv'
  <2>1. InstallerTypeOK'
    BY <1>5 DEF Configure, InstallerTypeOK, disk
  <2>2. pc' \in Pcs
    BY <1>5 DEF Configure
  <2>3. FallbackKept'
    BY <1>5 DEF Configure, FallbackKept, Kept, disk
  <2>4. UndoInv' /\ SwitchInv' /\ VerifyInv'
    BY <1>5 DEF Configure, UndoInv, SwitchInv, VerifyInv, UndoPcs, SwitchPcs, VerifyPcs
  <2>5. InstallInv' /\ LoadInv'
    BY <1>5 DEF Configure, InstallInv, LoadInv, InstallPcs
  <2>6. StageInv' /\ HistoryInv'
    BY <1>5 DEF Configure, StageInv, HistoryInv, disk
  <2>. QED BY <2>1, <2>2, <2>3, <2>4, <2>5, <2>6
<1>. QED BY <1>1, <1>2, <1>3, <1>4, <1>5

(* A start goes back first when the last switch was not confirmed. *)
LEMMA StartKeepsInv == ASSUME InstallerInv, Start PROVE InstallerInv'
<1> USE DEF InstallerInv
<1>1. ASSUME Start PROVE InstallerInv'
  <2>1. InstallerTypeOK'
    BY <1>1 DEF Start, InstallerTypeOK, Quiet, rest, disk
  <2>2. pc' \in Pcs
    BY <1>1 DEF Start, Pcs, UndoPcs, Move
  <2>3. FallbackKept'
    BY <1>1 DEF Start, FallbackKept, Kept, Quiet, rest, disk
  <2>4. UndoInv' /\ SwitchInv' /\ VerifyInv'
    BY <1>1 DEF Start, UndoInv, SwitchInv, VerifyInv, UndoPcs, SwitchPcs, VerifyPcs, Move, disk
  <2>5. InstallInv' /\ LoadInv'
    BY <1>1 DEF Start, InstallInv, LoadInv, InstallPcs, Move, disk
  <2>6. StageInv' /\ HistoryInv'
    BY <1>1 DEF Start, StageInv, HistoryInv, UndoPcs, StagePcs, Move, Quiet
  <2>. QED BY <2>1, <2>2, <2>3, <2>4, <2>5, <2>6
<1>. QED BY <1>1

(* Every step, and a stutter, keeps it. *)
LEMMA StepsKeepInv == InstallerInv /\ [InstallerNext]_installerVars => InstallerInv'
<1>1. ASSUME InstallerInv, UNCHANGED installerVars PROVE InstallerInv'
  BY <1>1 DEF installerVars, disk, rest, InstallerInv, InstallerTypeOK, FallbackKept, Kept, Stored, lockAnswers,
              UndoInv, SwitchInv, VerifyInv, InstallInv, LoadInv, StageInv, HistoryInv
<1>. QED
  BY <1>1, StartKeepsInv, UndoKeepsInv, SwitchKeepsInv, InstalledKeepsInv, InstallKeepsInv, SettleKeepsInv,
     StageKeepsInv, FaultsKeepInv DEF InstallerNext

(* Why a start and an Update may stop anywhere: whatever the installer is  *)
(* doing, what its next step and the next start count on is there.         *)
THEOREM InstallerInvariant == InstallerSpec => []InstallerInv
BY InitInv, StepsKeepInv, PTL DEF InstallerSpec

(* The lock, the tarballs, the folders and the step in hand keep their     *)
(* types, and no entry names one release in two roles.                     *)
THEOREM InstallerTypesCorrect == InstallerSpec => []InstallerTypeOK
<1>1. InstallerInv => InstallerTypeOK
  BY DEF InstallerInv
<1>. QED BY <1>1, InstallerInvariant, PTL

(* Wherever the installer stops, the release the next start falls back to  *)
(* still has its tarball, unless that was damaged.                         *)
THEOREM FallbackStaysKept == InstallerSpec => []FallbackKept
<1>1. InstallerInv => FallbackKept
  BY DEF InstallerInv
<1>. QED BY <1>1, InstallerInvariant, PTL

(* What is offered to the load pass is what the lock names, unpacked in   *)
(* full and in the configured range, and what was loaded is the one the   *)
(* lock names as long as it runs.                                          *)
THEOREM LoadsWhatIsPinned == InstallerSpec => []LoadedIsPinned
<1>1. InstallerInv => LoadedIsPinned
  BY DEF InstallerInv, LoadInv, HistoryInv, LoadedIsPinned, lockAnswers
<1>. QED BY <1>1, InstallerInvariant, PTL

(* A start in which nothing throws gets to the load pass with the add-on,  *)
(* whatever the starts before it were stopped in the middle of, unless the *)
(* registry was needed and did not help, a folder stood in the way (as the *)
(* one of a first install that was stopped does), or the stored tarball    *)
(* was damaged.                                                            *)
THEOREM CrashesCostNothing == InstallerSpec => []CrashCostsNothing
<1>1. InstallerInv => CrashCostsNothing
  BY DEF InstallerInv, HistoryInv, CrashCostsNothing
<1>. QED BY <1>1, InstallerInvariant, PTL

(* An unconfirmed update ends with the release it replaced restored, or    *)
(* with the new one loaded in this very start, or off.                     *)
THEOREM UpdatesSettle == InstallerSpec => UpdateSettled
<1> DEFINE settled == \/ lock' = [version |-> lock.previous, pending |-> None, previous |-> None]
                      \/ lock' = [lock EXCEPT !.previous = None] /\ tried \in {"loaded", "off"}
<1>1. ASSUME InstallerInv, [InstallerNext]_installerVars, lock.previous # None, lock'.previous # lock.previous
      PROVE  settled
  <2>1. CASE UndoLock
    BY <2>1 DEF UndoLock
  <2>2. CASE ConfirmLock
    BY <1>1, <2>2 DEF InstallerInv, LoadInv, ConfirmLock, Move
  <2>3. CASE SwitchLock
    BY <1>1, <2>3 DEF InstallerInv, InstallerTypeOK, SwitchInv, SwitchPcs, SwitchLock, Move
  <2>4. CASE InstallLock
    BY <1>1, <2>4 DEF InstallerInv, InstallInv, InstallPcs, InstallLock, Move
  <2>5. CASE DiscardLock \/ StageLock
    BY <1>1, <2>5 DEF InstallerInv, InstallerTypeOK, Entry, DiscardLock, StageLock
  <2>6. CASE UNCHANGED lock
    BY <1>1, <2>6
  <2>7. UndoLock \/ ConfirmLock \/ SwitchLock \/ InstallLock \/ DiscardLock \/ StageLock \/ UNCHANGED lock
    BY <1>1 DEF InstallerNext, Undo, SwitchSteps, Installed, Install, Settle, Stage, installerVars, disk, Start,
                UndoAside, UndoRename, UndoTarball, Answer, Switch, SwitchClear, SwitchMove, SwitchUnpack, SwitchBack,
                Discard, Verify, RepairClear, RepairMove, InstallTarball, InstallClear, InstallMove, InstallClean,
                Load, ConfirmClean, Update, StageTarball, StageClean, Tear, StepFails, Crash, Damage, Configure
  <2>. QED BY <2>1, <2>2, <2>3, <2>4, <2>5, <2>6, <2>7
<1>2. InstallerInv /\ [InstallerNext]_installerVars =>
        [lock.previous # None /\ lock'.previous # lock.previous => settled]_installerVars
  BY <1>1
<1>. QED BY <1>2, InstallerInvariant, PTL DEF InstallerSpec, UpdateSettled
=============================================================================
