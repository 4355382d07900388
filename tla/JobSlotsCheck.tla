---------------------------- MODULE JobSlotsCheck ----------------------------
(***************************************************************************)
(* Every question the scheduler can put to selectSlots over a small        *)
(* schedule, and what JobSlots answers: compared with the list operations  *)
(* of src/src/utils/jobSlots.ts and with what its header promises.         *)
(***************************************************************************)
EXTENDS JobSlots, SequencesExt

CONSTANT Instants   \* the clock readings asked about; Null among them is no last run

ASSUME InstantsAssumption == Instants \subseteq Nat

VARIABLES
  asked,    \* the input of selectSlots
  chosen    \* its answer, none before it is asked

checkVars == <<asked, chosen>>

Questions == [due : SUBSET Slots, now : Instants, busyUntil : Instants,
              catchUp : CatchUpRules, overlap : OverlapRules]

(* Due slots are those of slotsBetween(nextSlot, now), and no run ended in the future. *)
Askable(q) == /\ \A s \in q.due : s <= q.now
              /\ \A s \in q.due, t \in Slots : s < t /\ t <= q.now => t \in q.due
              /\ q.busyUntil <= q.now

CheckInit == /\ asked \in {q \in Questions : Askable(q)}
             /\ chosen = {}

Answer == /\ chosen = {}
          /\ chosen' = Chosen(asked.due, asked.now, asked.busyUntil, asked.catchUp, asked.overlap)
          /\ chosen' # {}
          /\ UNCHANGED asked

CheckSpec == CheckInit /\ [][Answer]_checkVars

-----------------------------------------------------------------------------
(* The answer, computed the way the code does, on lists oldest first. *)

SliceLast(list, n) == SubSeq(list, IF Len(list) > n THEN Len(list) - n + 1 ELSE 1, Len(list))

ByTheList(q) ==
  LET due       == SetToSortSeq(q.due, <)
      whileBusy == SelectSeq(due, LAMBDA s : q.busyUntil # Null /\ s < q.busyUntil)
      whileIdle == SelectSeq(due, LAMBDA s : ~Contains(whileBusy, s))
      queued    == IF q.overlap = "queue" THEN SliceLast(whileBusy, 1) ELSE <<>>
      caughtUp  == IF q.catchUp = "none"
                   THEN SelectSeq(whileIdle, LAMBDA s : q.now - s <= OnTime)
                   ELSE SliceLast(whileIdle, IF q.catchUp = "latest" THEN 1 ELSE Cap)
  IN  SelectSeq(due, LAMBDA s : Contains(queued \o caughtUp, s))

(* The sets JobSlots reasons with choose what the lists of selectSlots do. *)
AgreesWithTheList ==
  LET q == asked
  IN  ByTheList(q) = SetToSortSeq(Chosen(q.due, q.now, q.busyUntil, q.catchUp, q.overlap), <)

(* The newest due slot always runs, unless a rule the job declared says    *)
(* otherwise: it came due during a run and overlap is skip, or it was      *)
(* missed by more than OnTime and catchUp is none.                         *)
NewestRuns ==
  LET q == asked
  IN  \A s \in q.due :
        \/ \E t \in q.due : s < t
        \/ s \in Chosen(q.due, q.now, q.busyUntil, q.catchUp, q.overlap)
        \/ q.overlap = "skip" /\ s < q.busyUntil
        \/ q.catchUp = "none" /\ q.now - s > OnTime

(* A backlog never runs in full: one waiting slot, and Cap missed ones,    *)
(* whatever the job declared, or those that are not missed at all.         *)
BacklogBounded ==
  LET missed == {s \in chosen : asked.now - s > OnTime}
      busy   == WhileBusy(asked.due, asked.busyUntil)
  IN  Cardinality(chosen \cap busy) <= 1 /\ Cardinality(missed \ busy) <= Cap
=============================================================================
