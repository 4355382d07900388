------------------------- MODULE SiteRestore_proofs -------------------------
(***************************************************************************)
(* What a start puts in place was committed, a refused restore is never    *)
(* applied, and a start leaves no part waiting: for any number of parts,   *)
(* paths, restores and stops, whichever managers start.  The parts go in   *)
(* together or not at all, and what they replace is kept beside them.      *)
(***************************************************************************)
EXTENDS SiteRestore, TLAPS

(* The parts of a path, so that no proof takes a pair apart again. *)
LEMMA PathsAreOfTheirPart ==
  /\ \A p \in Path : p[1] \in Part /\ p \in PathsOf(p[1])
  /\ \A m \in Part : PathsOf(m) \subseteq Path /\ \A p \in PathsOf(m) : p[1] = m
BY DEF Path, PathsOf

-----------------------------------------------------------------------------
(* Types. *)

(* The disk, the parts in hand and what is remembered keep their types. *)
THEOREM RestoreTypeCorrect == Spec => []RestoreTypeOK
<1> USE DEF RestoreTypeOK, Absent, Before, Partial, Remnant
<1>1. Init => RestoreTypeOK
  <2>1. NoJob \in Job /\ NoBoot \in Boot /\ NoRecord \in Record
    BY DEF NoJob, Job, NoBoot, Boot, NoRecord, Record
  <2>2. ASSUME Init PROVE live \in [Path -> Nat] /\ staged \in [Path -> Nat] /\ kept \in [Path -> Nat]
    BY <2>2 DEF Init
  <2>3. ASSUME Init PROVE before = live /\ record = NoRecord /\ boot = NoBoot /\ job = NoJob
    BY <2>3 DEF Init
  <2>4. ASSUME Init
        PROVE  /\ mode = "serving" /\ todo = {} /\ serial = 3 /\ stops = 0 /\ committed = {}
               /\ asked = {} /\ torn = {} /\ done = FALSE /\ cancelling = FALSE /\ fresh = FALSE
    BY <2>4 DEF Init
  <2> QED BY <2>1, <2>2, <2>3, <2>4
<1>2. RestoreTypeOK /\ [Next]_vars => RestoreTypeOK'
  <2> SUFFICES ASSUME RestoreTypeOK, [Next]_vars PROVE RestoreTypeOK'
    OBVIOUS
  <2> USE PathsAreOfTheirPart DEF vars, disk, files, inHand, said
  <2>1. NoJob \in Job /\ NoBoot \in Boot /\ NoRecord \in Record
    BY DEF NoJob, Job, NoBoot, Boot, NoRecord, Record
  <2>2. ASSUME NEW paths PROVE Without(paths) \in [Path -> Nat]
    BY DEF Without
  <2>3. ASSUME NEW m \in Part PROVE InPlace(m) \in SUBSET Path
    BY DEF InPlace
  <2>4. ASSUME NEW m \in Part, NEW pc \in {"strays", "aside", "apply"},
               NEW left \in SUBSET Path, Takes(m, pc, left)
        PROVE  todo' \subseteq Part /\ boot' \in Boot
    BY <2>4 DEF Takes, Boot
  <2>5. CASE RestoreAsked
    <3>1. PICK names \in SUBSET Part \ {{}} : job' = [NoJob EXCEPT !.pc = "backup", !.names = names]
      BY <2>5, Zenon DEF RestoreAsked
    <3>2. job' \in Job
      BY <2>1, <3>1 DEF Job
    <3>3. UNCHANGED <<disk, mode, todo, boot, cancelling, serial, stops, said>>
      BY <2>5, Zenon DEF RestoreAsked
    <3> QED BY <3>2, <3>3
  <2>6. CASE BackupFails
    BY <2>6, <2>1 DEF BackupFails
  <2>7. CASE BeginSiteRestore
    <3>1. record' \in Record
      BY <2>7, <2>1 DEF BeginSiteRestore, Record
    <3>2. job' \in Job /\ asked' \subseteq Part
      BY <2>7 DEF BeginSiteRestore, Job
    <3> QED BY <2>7, <2>2, <3>1, <3>2 DEF BeginSiteRestore
  <2>8. ASSUME NEW m \in Part, StagesPart(m) PROVE RestoreTypeOK'
    BY <2>8 DEF StagesPart, Job
  <2>9. ASSUME NEW m \in Part, HasNothingToStage(m) PROVE RestoreTypeOK'
    BY <2>9 DEF HasNothingToStage, Job
  <2>10. ASSUME NEW p \in Path, ExtractsSome(p) PROVE RestoreTypeOK'
    BY <2>10 DEF ExtractsSome
  <2>11. ASSUME NEW p \in Path, Extracts(p) PROVE RestoreTypeOK'
    BY <2>11 DEF Extracts, Job
  <2>12. CASE RecordStagedPart
    <3>1. record' \in Record
      BY <2>12 DEF RecordStagedPart, Record
    <3>2. job' \in Job
      BY <2>12 DEF RecordStagedPart, Job
    <3> QED BY <2>12, <3>1, <3>2 DEF RecordStagedPart
  <2>13. CASE CommitSiteRestore
    <3>1. record' \in Record
      BY <2>13 DEF CommitSiteRestore, Record
    <3>2. job' \in Job
      BY <2>13 DEF CommitSiteRestore, Job
    <3> QED BY <2>13, <3>1, <3>2 DEF CommitSiteRestore
  <2>14. CASE WriteRestoreReport
    BY <2>14, <2>1 DEF WriteRestoreReport
  <2>15. CASE StagingFails
    BY <2>15, <2>1, <2>2 DEF StagingFails
  <2>16. CASE CancelAsked
    BY <2>16 DEF CancelAsked
  <2>17. CASE CancelDiscards
    BY <2>17, <2>1, <2>2 DEF CancelDiscards
  <2>18. CASE Boots
    BY <2>18 DEF Boots
  <2>19. ASSUME NEW m \in Part, FindsNothing(m) PROVE RestoreTypeOK'
    BY <2>19, <2>3, <2>4 DEF FindsNothing
  <2>20. ASSUME NEW m \in Part, Applies(m) PROVE RestoreTypeOK'
    BY <2>20, <2>4 DEF Applies
  <2>21. ASSUME NEW m \in Part, Refuses(m) PROVE RestoreTypeOK'
    <3>1. record' \in Record
      BY <2>21 DEF Refuses, Record
    <3> QED BY <2>21, <2>3, <2>4, <3>1 DEF Refuses
  <2>22. ASSUME NEW m \in Part, FinishPart(m) PROVE RestoreTypeOK'
    <3>1. record' \in Record
      BY <2>22 DEF FinishPart, Record
    <3> QED BY <2>22, <2>3, <2>4, <3>1 DEF FinishPart
  <2>23. ASSUME NEW p \in Path, SetsAside(p) PROVE RestoreTypeOK'
    BY <2>23 DEF SetsAside, Boot
  <2>24. CASE StraysEnd
    BY <2>24, <2>1 DEF StraysEnd
  <2>25. ASSUME NEW p \in Path, RemovesKept(p) PROVE RestoreTypeOK'
    BY <2>25 DEF RemovesKept, Boot
  <2>26. ASSUME NEW p \in Path, StepsAside(p) PROVE RestoreTypeOK'
    BY <2>26 DEF StepsAside, Boot
  <2>27. ASSUME NEW p \in Path, TakesName(p) PROVE RestoreTypeOK'
    BY <2>27 DEF TakesName, Boot
  <2>28. CASE SwapFails
    BY <2>28 DEF SwapFails, Boot
  <2>29. CASE MarkPart
    <3>1. record' \in Record
      BY <2>29 DEF MarkPart, Record
    <3>2. boot' \in Boot
      BY <2>29, <2>1 DEF MarkPart, Boot
    <3> QED BY <2>29, <3>1, <3>2 DEF MarkPart
  <2>30. CASE RecordDone
    BY <2>30, <2>1 DEF RecordDone
  <2>31. CASE FinishSiteRestore
    BY <2>31, <2>1 DEF FinishSiteRestore
  <2>32. ASSUME NEW why \in SUBSET {"cut", "discarded"}, Ends(why), staged' \in [Path -> Nat]
         PROVE  RestoreTypeOK'
    <3>1. torn' \subseteq {"cut", "failed", "discarded"} /\ stops' \in Nat
      BY <2>32 DEF Ends
    <3>2. live' = live /\ kept' = kept /\ record' = record /\ done' = done /\ serial' = serial
          /\ committed' = committed /\ asked' = asked /\ before' = before
      BY <2>32 DEF Ends
    <3>3. mode' = "down" /\ todo' = {} /\ boot' = NoBoot /\ job' = NoJob /\ cancelling' = FALSE /\ fresh' = FALSE
      BY <2>32 DEF Ends
    <3> QED BY <2>32, <2>1, <3>1, <3>2, <3>3
  <2>33. CASE Stops
    BY <2>33, <2>32 DEF Stops
  <2>34. CASE StopsDiscarding
    <3>1. staged' \in [Path -> Nat]
      BY <2>34, <2>2 DEF StopsDiscarding
    <3> QED BY <2>34, <3>1, <2>32 DEF StopsDiscarding
  <2>35. CASE UNCHANGED vars
    BY <2>35
  <2> QED
    BY <2>5, <2>6, <2>7, <2>8, <2>9, <2>10, <2>11, <2>12, <2>13, <2>14, <2>15, <2>16, <2>17, <2>18,
       <2>19, <2>20, <2>21, <2>22, <2>23, <2>24, <2>25, <2>26, <2>27, <2>28, <2>29, <2>30, <2>31,
       <2>33, <2>34, <2>35
    DEF Next, StagingStep, StartStep
<1> QED BY <1>1, <1>2, PTL DEF Spec

-----------------------------------------------------------------------------
(* Why it holds.                                                           *)

(* Only a site that serves stages or cancels, only one that starts has a part in hand. *)
ModesApart == /\ (job.pc # "idle" \/ cancelling) => mode = "serving"
              /\ boot.pc # "idle" => mode = "starting"

(* A part being staged is not recorded yet, and its staging began in this process. *)
StagingBegun == job.pc \in {"between", "extract"} =>
  /\ fresh
  /\ \A m \in job.names : record.parts[m] # "pending"
  /\ job.pc = "extract" => job.part \in job.names /\ job.left \subseteq PathsOf(job.part)

Extracted == {Absent, Remnant, serial}

(* A recorded part was extracted to its end, and so were the paths of the  *)
(* one in hand that are not left.                                          *)
StagedWhole == /\ \A m \in Part : \A p \in PathsOf(m) :
                    record.parts[m] = "pending" => staged[p] \in Extracted
               /\ job.pc = "extract" =>
                    \A p \in PathsOf(job.part) \ job.left : staged[p] \in Extracted

StagedIsCommitted == record.state = "staged" => serial \in committed

(* The swaps under way are those of a pending part of a committed restore. *)
Swapping == boot.pc \in {"apply", "keep", "place"} =>
  /\ record.state = "staged"
  /\ boot.part \in Part
  /\ record.parts[boot.part] = "pending"
  /\ boot.left \subseteq PathsOf(boot.part)
  /\ boot.at \subseteq boot.left

RestoreInv == /\ ModesApart /\ StagingBegun /\ StagedWhole /\ StagedIsCommitted /\ Swapping
              /\ OnlyCommitted /\ StartDecides

(* Nothing disturbs why it holds: each step keeps every part of it. *)
THEOREM RestoreInvariant == Spec => []RestoreInv
<1> USE DEF RestoreInv, Absent, Before, Remnant
<1>1. Init => RestoreInv
  BY DEF Init, NoBoot, NoJob, NoRecord, ModesApart, StagingBegun, StagedWhole, StagedIsCommitted, Swapping,
         OnlyCommitted, StartDecides, Pending
<1>2. RestoreTypeOK /\ RestoreInv /\ [Next]_vars => RestoreInv'
  <2> SUFFICES ASSUME RestoreTypeOK, RestoreInv, [Next]_vars PROVE RestoreInv'
    OBVIOUS
  <2> USE PathsAreOfTheirPart
      DEF vars, disk, files, inHand, said, RestoreTypeOK, Record, Boot, Job, Pending, Extracted, ModesApart,
          StagingBegun, StagedWhole, StagedIsCommitted, Swapping, OnlyCommitted, StartDecides
  <2>1. CASE RestoreAsked
    BY <2>1 DEF RestoreAsked, NoJob
  <2>2. CASE BackupFails
    BY <2>2 DEF BackupFails, NoJob
  <2>3. CASE BeginSiteRestore
    BY <2>3 DEF BeginSiteRestore, NoRecord, Without, Recorded
  <2>4. CASE RecordStagedPart
    BY <2>4 DEF RecordStagedPart
  <2>5. CASE CommitSiteRestore
    BY <2>5 DEF CommitSiteRestore
  <2>6. CASE WriteRestoreReport
    BY <2>6 DEF WriteRestoreReport, NoJob
  <2>7. CASE StagingFails
    BY <2>7 DEF StagingFails, NoJob, NoRecord, Without
  <2>8. CASE CancelAsked
    BY <2>8 DEF CancelAsked
  <2>9. CASE CancelDiscards
    BY <2>9 DEF CancelDiscards, NoRecord, Without
  <2>10. CASE Boots
    BY <2>10 DEF Boots
  <2>11. CASE StraysEnd
    BY <2>11 DEF StraysEnd, NoBoot
  <2>12. CASE SwapFails
    BY <2>12 DEF SwapFails
  <2>13. CASE MarkPart
    BY <2>13 DEF MarkPart, NoBoot
  <2>14. CASE RecordDone
    BY <2>14 DEF RecordDone, NoBoot, NoRecord
  <2>15. CASE FinishSiteRestore
    BY <2>15 DEF FinishSiteRestore, NoRecord
  <2>16. CASE Stops
    BY <2>16 DEF Stops, Ends, NoBoot, NoJob
  <2>17. CASE StopsDiscarding
    BY <2>17 DEF StopsDiscarding, Ends, NoBoot, NoJob, Without
  <2>18. ASSUME NEW m \in Part, StagesPart(m) PROVE RestoreInv'
    BY <2>18 DEF StagesPart
  <2>19. ASSUME NEW m \in Part, HasNothingToStage(m) PROVE RestoreInv'
    BY <2>19 DEF HasNothingToStage
  <2>20. ASSUME NEW m \in Part, FindsNothing(m) PROVE RestoreInv'
    BY <2>20 DEF FindsNothing, Asks, Takes
  <2>21. ASSUME NEW m \in Part, Applies(m) PROVE RestoreInv'
    BY <2>21 DEF Applies, Asks, Takes, Whole
  <2>22. ASSUME NEW m \in Part, Refuses(m) PROVE RestoreInv'
    BY <2>22 DEF Refuses, Asks, Takes
  <2>23. ASSUME NEW m \in Part, FinishPart(m) PROVE RestoreInv'
    BY <2>23 DEF FinishPart, Takes
  <2>24. ASSUME NEW p \in Path, ExtractsSome(p) PROVE RestoreInv'
    BY <2>24 DEF ExtractsSome
  <2>25. ASSUME NEW p \in Path, Extracts(p) PROVE RestoreInv'
    BY <2>25 DEF Extracts
  <2>26. ASSUME NEW p \in Path, SetsAside(p) PROVE RestoreInv'
    BY <2>26 DEF SetsAside
  <2>27. ASSUME NEW p \in Path, RemovesKept(p) PROVE RestoreInv'
    BY <2>27 DEF RemovesKept
  <2>28. ASSUME NEW p \in Path, StepsAside(p) PROVE RestoreInv'
    BY <2>28 DEF StepsAside
  <2>29. ASSUME NEW p \in Path, TakesName(p) PROVE RestoreInv'
    BY <2>29 DEF TakesName
  <2>30. CASE UNCHANGED vars
    BY <2>30
  <2> QED
    BY <2>1, <2>2, <2>3, <2>4, <2>5, <2>6, <2>7, <2>8, <2>9, <2>10, <2>11, <2>12, <2>13, <2>14, <2>15,
       <2>16, <2>17, <2>18, <2>19, <2>20, <2>21, <2>22, <2>23, <2>24, <2>25, <2>26, <2>27, <2>28, <2>29, <2>30
    DEF Next, StagingStep, StartStep
<1> QED BY <1>1, <1>2, RestoreTypeCorrect, PTL DEF Spec

-----------------------------------------------------------------------------
(* Nothing is put in place, or kept, but a committed restore or what a     *)
(* discard left of one.                                                    *)
THEOREM RestoresOnlyCommitted == Spec => []OnlyCommitted
<1>1. RestoreInv => OnlyCommitted
  BY DEF RestoreInv
<1> QED BY <1>1, RestoreInvariant, PTL

(* A start leaves no part waiting for another start. *)
THEOREM EveryStartDecides == Spec => []StartDecides
<1>1. RestoreInv => StartDecides
  BY DEF RestoreInv
<1> QED BY <1>1, RestoreInvariant, PTL

(* A refused restore moves nothing into place: only a swap does, and every *)
(* swap is of a restore that stands committed.                             *)
THEOREM RefusedNeverApplied == Spec => RefusedIsFinal
<1>1. RestoreInv /\ [Next]_vars => [record.state = "refused" => live' = live]_vars
  <2> SUFFICES ASSUME RestoreInv, [Next]_vars, record.state = "refused" PROVE live' = live
    OBVIOUS
  <2>1. boot.pc \notin {"apply", "keep", "place"}
    BY DEF RestoreInv, Swapping
  <2> USE <2>1 DEF vars, disk, files
  <2>2. CASE StagingStep
    BY <2>2 DEF StagingStep, RestoreAsked, BackupFails, BeginSiteRestore, StagesPart, HasNothingToStage,
                ExtractsSome, Extracts, RecordStagedPart, CommitSiteRestore, WriteRestoreReport, StagingFails,
                CancelAsked, CancelDiscards
  <2>3. CASE StartStep
    BY <2>3 DEF StartStep, Boots, StraysEnd, SwapFails, MarkPart, RecordDone, FinishSiteRestore, FindsNothing,
                Applies, Refuses, FinishPart, SetsAside, RemovesKept, StepsAside, TakesName
  <2>4. CASE Stops \/ StopsDiscarding
    BY <2>4 DEF Stops, StopsDiscarding, Ends
  <2> QED BY <2>2, <2>3, <2>4 DEF Next
<1> QED BY <1>1, RestoreInvariant, PTL DEF Spec, RefusedIsFinal

-----------------------------------------------------------------------------
(* Together or not at all. *)

(* Restores are numbered upwards. *)
NumberedInv == serial >= Remnant /\ \A n \in committed : n <= serial

Placed(p) == live[p] = serial /\ kept[p] = before[p]

Marked == {m \in Part : record.parts[m] # "out"}

IsSwapping == boot.pc \in {"apply", "keep", "place"}

(* A path that stepped aside and whose staged one has not taken its name. *)
Between(p) == boot.pc = "place" /\ p \in boot.at

(* A path is as it was, has been restored, or is in between. *)
PathsInv == \A p \in Path :
  /\ before[p] < serial
  /\ live[p] = before[p] \/ Placed(p) \/ (Between(p) /\ live[p] = Absent /\ kept[p] = before[p])

(* A part is as the record says: in place, or as it was. *)
PartsInv ==
  /\ \A m \in Part : record.parts[m] = "applied" => \A p \in PathsOf(m) : Placed(p)
  /\ record.state # "none" =>
       \A m \in Part : record.parts[m] # "applied" /\ ~(IsSwapping /\ boot.part = m) => \A p \in PathsOf(m) : live[p] = before[p]

(* Without a record all of the last restore is in place, or none of it. *)
DoneInv == record.state = "none" =>
  /\ Marked = {}
  /\ \/ \A p \in Path : live[p] = before[p]
     \/ \A p \in Path : IF p[1] \in asked THEN live[p] = serial ELSE live[p] = before[p]

(* What is staged is of the last restore, and while it is staged nothing   *)
(* has moved and no part it was asked for is forgotten.                    *)
StageInv ==
  /\ \A m \in Pending : \A p \in PathsOf(m) : staged[p] \in {Absent, serial}
  /\ record.state = "staging" => Marked = Pending
  /\ job.pc = "extract" /\ record.state = "staging" => \A p \in PathsOf(job.part) \ job.left : staged[p] = serial
  /\ job.pc \in {"between", "extract"} =>
       /\ \A p \in Path : live[p] = before[p]
       /\ record.state \in {"none", "staging"}
       /\ record.state = "staging" => asked = job.names \cup Marked
  /\ record.state = "staged" => Marked = asked

(* The paths of a part in the middle of its swaps. *)
SwapInv == IsSwapping =>
  /\ \A p, q \in boot.at : p = q
  /\ \A p \in PathsOf(boot.part) :
       IF p \notin boot.left THEN Placed(p)
       ELSE /\ staged[p] = serial
            /\ IF Between(p) THEN live[p] = Absent /\ kept[p] = before[p] ELSE live[p] = before[p]

(* Once a part is applied, or being applied, every other one is still      *)
(* there to be: no part is set aside any more.                             *)
WholeInv == Applied # {} \/ IsSwapping =>
  /\ record.state = "staged"
  /\ \A m \in Part : record.parts[m] # "set-aside"
  /\ \A m \in Pending : ~(IsSwapping /\ m = boot.part) => \A p \in PathsOf(m) : staged[p] = serial

(* What a start has in hand is of its part. *)
BootInv ==
  /\ boot.pc = "strays" => boot.part \in Part \ Pending /\ boot.left \subseteq PathsOf(boot.part)
  /\ boot.pc = "aside" => boot.part \in Pending /\ Applied = {} /\ boot.left \subseteq PathsOf(boot.part)
  /\ boot.pc = "rename" => Pending = {}
  /\ mode = "serving" => Pending = {} \/ Applied = {}

TogetherParts == PathsInv /\ PartsInv /\ DoneInv /\ StageInv /\ SwapInv /\ WholeInv /\ BootInv

TogetherInv == torn = {} => TogetherParts

LEMMA NumberedStep == RestoreTypeOK /\ NumberedInv /\ [Next]_vars => NumberedInv'
<1> SUFFICES ASSUME RestoreTypeOK, NumberedInv, [Next]_vars PROVE NumberedInv'
  OBVIOUS
<1>1. serial \in Nat /\ committed \subseteq Nat
  BY DEF RestoreTypeOK
<1>2. CASE BeginSiteRestore
  BY <1>1, <1>2 DEF BeginSiteRestore, NumberedInv, Remnant
<1>3. CASE CommitSiteRestore
  BY <1>1, <1>3 DEF CommitSiteRestore, NumberedInv, Remnant
<1>4. CASE UNCHANGED <<serial, committed>>
  BY <1>4 DEF NumberedInv
<1>5. CASE StagingStep
  BY <1>2, <1>3, <1>4, <1>5 DEF StagingStep, said, RestoreAsked, BackupFails, StagesPart, HasNothingToStage,
                ExtractsSome, Extracts, RecordStagedPart, WriteRestoreReport, StagingFails, CancelAsked, CancelDiscards
<1>6. CASE StartStep
  BY <1>4, <1>6 DEF StartStep, said, Boots, StraysEnd, SwapFails, MarkPart, RecordDone, FinishSiteRestore, FindsNothing,
                Applies, Refuses, FinishPart, SetsAside, RemovesKept, StepsAside, TakesName
<1>7. CASE Stops \/ StopsDiscarding \/ UNCHANGED vars
  BY <1>4, <1>7 DEF Stops, StopsDiscarding, Ends, vars, said
<1> QED BY <1>5, <1>6, <1>7 DEF Next

(* No step takes a restore apart that nothing tore: it may stop, be        *)
(* refused or cancelled at any of them.                                    *)
LEMMA TogetherStep == RestoreTypeOK /\ RestoreInv /\ NumberedInv /\ TogetherInv /\ [Next]_vars => TogetherInv'
<1> SUFFICES ASSUME RestoreTypeOK, RestoreInv, NumberedInv, TogetherInv, [Next]_vars, torn' = {}
             PROVE  TogetherParts'
  BY DEF TogetherInv
<1> USE PathsAreOfTheirPart
    DEF vars, disk, files, inHand, said, RestoreTypeOK, Record, Boot, Job, Pending, Applied, Marked, Placed, Between, IsSwapping,
        Absent, Before, Partial, Remnant,
        RestoreInv, ModesApart, StagingBegun, Swapping, TogetherInv, TogetherParts, PathsInv, PartsInv, DoneInv,
        StageInv, SwapInv, WholeInv, BootInv
<1>1. CASE RestoreAsked
  BY <1>1 DEF RestoreAsked, NoJob
<1>2. CASE BackupFails
  BY <1>2 DEF BackupFails, NoJob
<1>3. CASE BeginSiteRestore
  <2>1. \A p \in Path : live[p] \in Nat /\ live[p] <= serial
    <3>1. ASSUME NEW p \in Path PROVE live[p] \in {Absent, Before, Remnant} \cup committed
      BY DEF OnlyCommitted
    <3> QED BY <3>1 DEF NumberedInv
  <2>2. PathsInv'
    <3>1. serial' = serial + 1 /\ before' = live /\ live' = live /\ serial \in Nat
      BY <1>3 DEF BeginSiteRestore
    <3> QED BY <2>1, <3>1
  <2>3. PartsInv' /\ DoneInv' /\ StageInv' /\ SwapInv' /\ WholeInv' /\ BootInv'
    BY <1>3 DEF BeginSiteRestore, NoRecord, Without, Recorded
  <2> QED BY <2>2, <2>3
<1>4. CASE RecordStagedPart
  BY <1>4 DEF RecordStagedPart
<1>5. CASE CommitSiteRestore
  BY <1>5 DEF CommitSiteRestore, Missing
<1>6. CASE WriteRestoreReport
  BY <1>6 DEF WriteRestoreReport, NoJob
<1>7. CASE StagingFails
  BY <1>7 DEF StagingFails, NoJob, NoRecord, Without
<1>8. CASE CancelAsked
  BY <1>8 DEF CancelAsked
<1>9. CASE CancelDiscards
  BY <1>9 DEF CancelDiscards, NoRecord, Without
<1>10. CASE Boots
  BY <1>10 DEF Boots
<1>11. CASE StraysEnd
  BY <1>11 DEF StraysEnd, NoBoot
<1>12. CASE SwapFails
  <2>1. /\ torn = {} /\ Applied = {} /\ boot.pc \in {"apply", "keep"} /\ boot.left = PathsOf(boot.part)
        /\ UNCHANGED <<live, staged, kept, record, mode, job, serial, asked, before>>
        /\ boot'.pc = "aside" /\ boot'.part = boot.part /\ boot'.left = {}
    BY <1>12 DEF SwapFails, InTheMiddle
  <2>2. \A p \in PathsOf(boot.part) : live[p] = before[p]
    BY <2>1
  <2>3. PartsInv'
    BY <2>1, <2>2
  <2>4. PathsInv' /\ DoneInv' /\ StageInv' /\ SwapInv' /\ WholeInv'
    BY <2>1
  <2>5. BootInv'
    BY <2>1
  <2> QED BY <2>3, <2>4, <2>5
<1>13. CASE MarkPart
  BY <1>13 DEF MarkPart, NoBoot
<1>14. CASE RecordDone
  BY <1>14 DEF RecordDone, NoBoot, NoRecord
<1>15. CASE FinishSiteRestore
  BY <1>15 DEF FinishSiteRestore, NoRecord
<1>16. CASE Stops
  BY <1>16 DEF Stops, Ends, NoBoot, NoJob, InTheMiddle
<1>17. CASE StopsDiscarding
  BY <1>17 DEF StopsDiscarding, Ends, NoBoot, NoJob, Without, Staged, Recorded
<1>18. ASSUME NEW m \in Part, StagesPart(m) PROVE TogetherParts'
  BY <1>18 DEF StagesPart
<1>19. ASSUME NEW m \in Part, HasNothingToStage(m) PROVE TogetherParts'
  BY <1>19 DEF HasNothingToStage
<1>20. ASSUME NEW m \in Part, FindsNothing(m) PROVE TogetherParts'
  BY <1>20 DEF FindsNothing, Asks, Takes, InPlace
<1>21. ASSUME NEW m \in Part, Applies(m) PROVE TogetherParts'
  BY <1>21 DEF Applies, Asks, Takes, Whole, Missing
<1>22. ASSUME NEW m \in Part, Refuses(m) PROVE TogetherParts'
  BY <1>22 DEF Refuses, Asks, Takes, Whole, Missing, InPlace
<1>23. ASSUME NEW m \in Part, FinishPart(m) PROVE TogetherParts'
  <2>1. torn = {} /\ Applied = {}
    BY <1>23 DEF FinishPart
  <2>2. PathsInv' /\ PartsInv' /\ DoneInv' /\ StageInv' /\ SwapInv'
    BY <1>23, <2>1 DEF FinishPart, Takes, InPlace
  <2>3. WholeInv' /\ BootInv'
    BY <1>23, <2>1 DEF FinishPart, Takes, InPlace
  <2> QED BY <2>2, <2>3
<1>24. ASSUME NEW p \in Path, ExtractsSome(p) PROVE TogetherParts'
  BY <1>24 DEF ExtractsSome
<1>25. ASSUME NEW p \in Path, Extracts(p) PROVE TogetherParts'
  BY <1>25 DEF Extracts
<1>26. ASSUME NEW p \in Path, SetsAside(p) PROVE TogetherParts'
  BY <1>26 DEF SetsAside
<1>27. ASSUME NEW p \in Path, RemovesKept(p) PROVE TogetherParts'
  BY <1>27 DEF RemovesKept
<1>28. ASSUME NEW p \in Path, StepsAside(p) PROVE TogetherParts'
  BY <1>28 DEF StepsAside
<1>29. ASSUME NEW p \in Path, TakesName(p) PROVE TogetherParts'
  <2>1. /\ boot.pc = "place" /\ p \in boot.at /\ p \in PathsOf(boot.part) /\ boot.at = {p} /\ torn = {}
        /\ staged[p] = serial /\ kept[p] = before[p] /\ boot.part \in Part
    BY <1>29 DEF TakesName
  <2>2. /\ live'[p] = serial /\ staged'[p] = Absent /\ kept' = kept
        /\ \A q \in Path \ {p} : live'[q] = live[q] /\ staged'[q] = staged[q]
        /\ boot'.pc = "apply" /\ boot'.part = boot.part /\ boot'.at = {} /\ boot'.left = boot.left \ {p}
        /\ UNCHANGED <<record, mode, job, serial, asked, before>>
    BY <1>29, <2>1 DEF TakesName
  <2>3. PathsInv'
    BY <2>1, <2>2
  <2>4. PartsInv' /\ DoneInv'
    BY <2>1, <2>2
  <2>5. StageInv'
    BY <2>1, <2>2
  <2>6. SwapInv' /\ WholeInv' /\ BootInv'
    BY <2>1, <2>2
  <2> QED BY <2>3, <2>4, <2>5, <2>6
<1>30. CASE UNCHANGED vars
  BY <1>30
<1> QED BY <1>1, <1>2, <1>3, <1>4, <1>5, <1>6, <1>7, <1>8, <1>9, <1>10, <1>11, <1>12, <1>13, <1>14, <1>15, <1>16,
         <1>17, <1>18, <1>19, <1>20, <1>21, <1>22, <1>23, <1>24, <1>25, <1>26, <1>27, <1>28, <1>29, <1>30
    DEF Next, StagingStep, StartStep

LEMMA TogetherInit == Init => NumberedInv /\ TogetherInv
<1> SUFFICES ASSUME Init PROVE NumberedInv /\ TogetherParts
  BY DEF TogetherInv
<1>1. record.state = "none" /\ boot.pc = "idle" /\ job.pc = "idle" /\ \A m \in Part : record.parts[m] = "out"
  BY DEF Init, NoRecord, NoBoot, NoJob
<1> QED BY <1>1 DEF Init, NumberedInv, TogetherParts, PathsInv, PartsInv, DoneInv, StageInv, SwapInv, WholeInv, BootInv,
                    Pending, Applied, Marked, IsSwapping, Before, Remnant

LEMMA TogetherAlways == Spec => [](RestoreTypeOK /\ RestoreInv /\ NumberedInv /\ TogetherInv)
BY TogetherInit, NumberedStep, TogetherStep, RestoreTypeCorrect, RestoreInvariant, PTL DEF Spec

(* The parts of a restore go in together or not at all, whatever was       *)
(* cancelled, replaced, refused or cut off, as long as no part was cut off *)
(* in the middle of its swaps, left out after another one went in, or      *)
(* discarded in part.                                                      *)
THEOREM RestoresTogether == Spec => []AllOrNothing
<1>1. RestoreTypeOK /\ RestoreInv /\ TogetherInv => AllOrNothing
  <2> SUFFICES ASSUME RestoreTypeOK, RestoreInv, TogetherParts, mode = "serving"
               PROVE  \/ live = before
                      \/ live = [p \in Path |-> IF p[1] \in asked THEN serial ELSE before[p]]
    BY DEF AllOrNothing, AllTogether, TogetherInv
  <2>1. live \in [Path -> Nat] /\ before \in [Path -> Nat]
    BY DEF RestoreTypeOK
  <2>2. boot.pc = "idle"
    BY DEF RestoreInv, ModesApart
  <2>3. CASE \A p \in Path : live[p] = before[p]
    BY <2>1, <2>3
  <2>4. CASE \A p \in Path : IF p[1] \in asked THEN live[p] = serial ELSE live[p] = before[p]
    BY <2>1, <2>4
  <2>5. CASE record.state = "none"
    BY <2>3, <2>4, <2>5 DEF TogetherParts, DoneInv
  <2>6. CASE record.state # "none" /\ Applied = {}
    <3>1. \A p \in Path : live[p] = before[p]
      BY <2>2, <2>6, PathsAreOfTheirPart DEF TogetherParts, PartsInv, IsSwapping, Applied
    <3> QED BY <2>3, <3>1
  <2>7. CASE record.state # "none" /\ Applied # {}
    <3>1. Pending = {} /\ record.state = "staged" /\ asked = Marked /\ \A m \in Part : record.parts[m] # "set-aside"
      BY <2>7 DEF TogetherParts, BootInv, WholeInv, StageInv
    <3>2. \A m \in Part : record.parts[m] \in {"out", "pending", "applied", "set-aside"}
      BY DEF RestoreTypeOK, Record
    <3>3. \A m \in Part : m \in asked <=> record.parts[m] = "applied"
      BY <3>1, <3>2 DEF Pending, Marked
    <3>4. \A p \in Path : IF p[1] \in asked THEN live[p] = serial ELSE live[p] = before[p]
      BY <2>2, <2>7, <3>3, PathsAreOfTheirPart DEF TogetherParts, PartsInv, Placed, IsSwapping
    <3> QED BY <2>4, <3>4
  <2> QED BY <2>5, <2>6, <2>7
<1> QED BY <1>1, TogetherAlways, PTL

(* What a restored path has beside it is what it replaced, as long as no   *)
(* part was cut off or failed in the middle of its swaps, was left out     *)
(* after another one went in, or was discarded in part.                    *)
THEOREM ReplacedKeptBeside == Spec => []KeptBeside
<1>1. RestoreTypeOK /\ TogetherInv => KeptBeside
  <2> SUFFICES ASSUME RestoreTypeOK, TogetherParts, NEW p \in Path, live[p] = serial PROVE kept[p] = before[p]
    BY DEF KeptBeside, TogetherInv
  <2>1. before[p] < serial /\ before[p] \in Nat /\ serial \in Nat
    BY DEF TogetherParts, PathsInv, RestoreTypeOK
  <2>2. live[p] = before[p] \/ kept[p] = before[p]
    BY DEF TogetherParts, PathsInv, Placed
  <2> QED BY <2>1, <2>2
<1> QED BY <1>1, TogetherAlways, PTL
====
