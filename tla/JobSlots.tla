------------------------------ MODULE JobSlots ------------------------------
(***************************************************************************)
(* The slots of a scheduled job and which of the due ones run              *)
(* (src/src/utils/schedule.ts, src/src/utils/jobSlots.ts).  A schedule is  *)
(* the set of its slots and an instant is a number, 0 being no instant     *)
(* (null): what a recurrence rule or a time zone makes of a slot is left   *)
(* out, the order of the slots is what the scheduler goes by.              *)
(***************************************************************************)
EXTENDS Integers, FiniteSets

CONSTANTS
  Slots,    \* the instants of the schedule
  OnTime,   \* ON_TIME_MS: a slot this old is not missed yet
  Cap       \* CATCH_UP_ALL_CAP

ASSUME SlotsAssumption == Slots \subseteq Nat \ {0} /\ IsFiniteSet(Slots)
ASSUME OnTimeAssumption == OnTime \in Nat
ASSUME CapAssumption == Cap \in Nat \ {0}

Null == 0

CatchUpRules == {"none", "latest", "all"}
OverlapRules == {"queue", "skip"}

-----------------------------------------------------------------------------
(* schedule.ts *)

IsOldest(s, S) == s \in S /\ \A t \in S : s <= t

(* Mutant of NextSlot: the next instant, slot or not. *)
NextInstant(after) == after + 1

(* The first slot strictly after an instant; Null when the rule has ended. *)
NextSlot(after) == LET later == {s \in Slots : s > after}
                   IN  IF later = {} THEN Null ELSE CHOOSE s \in later : IsOldest(s, later)

(* The slots of a closed interval. *)
SlotsBetween(from, to) == {s \in Slots : from <= s /\ s <= to}

-----------------------------------------------------------------------------
(* jobSlots.ts *)

(* Mutant of NewestOf: one too many. *)
NewestOfAndOne(S, n) == {s \in S : Cardinality({t \in S : s < t}) <= n}

(* The n newest of S. *)
NewestOf(S, n) == {s \in S : Cardinality({t \in S : s < t}) < n}

(* Mutant of WhileBusy: the end of the last run counts as busy. *)
WhileBusyOrJustAfter(due, busyUntil) == {s \in due : s <= busyUntil}

(* A slot came due while the job ran when it is older than the end of the  *)
(* job's last run in this process (Null: it did not run since the start).  *)
WhileBusy(due, busyUntil) == {s \in due : s < busyUntil}

WhileIdle(due, busyUntil) == due \ WhileBusy(due, busyUntil)

Waiting(busy, overlap) == IF overlap = "queue" THEN NewestOf(busy, 1) ELSE {}

CaughtUp(idle, now, catchUp) ==
  {s \in idle : \/ catchUp = "none" /\ now - s <= OnTime
                \/ catchUp = "latest" /\ s \in NewestOf(idle, 1)
                \/ catchUp = "all" /\ s \in NewestOf(idle, Cap)}

(* selectSlots: what runs; the rest of the due slots is skipped. *)
Chosen(due, now, busyUntil, catchUp, overlap) ==
  Waiting(WhileBusy(due, busyUntil), overlap)
    \cup CaughtUp(WhileIdle(due, busyUntil), now, catchUp)
=============================================================================
