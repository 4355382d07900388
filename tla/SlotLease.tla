------------------------------ MODULE SlotLease ------------------------------
(***************************************************************************)
(* What the scheduler is promised by the lock of one slot                  *)
(* (JobStateProvider.takeLock / renewLock / releaseLock in                 *)
(* src/src/providers/jobState.ts): an owner is granted the slot until an   *)
(* instant, and nobody else is granted it before that instant unless the   *)
(* owner gave it up.  Nothing is said of how the promise is kept: the two  *)
(* backends, SqliteSlotLock and FileSlotLock, are shown to keep it.        *)
(***************************************************************************)
EXTENDS Integers

CONSTANTS
  Owner,    \* the processes that contend for the slot (LOCK_OWNER)
  NoOwner,  \* nobody: the owner a backend reads when there is no lock
  Ttl,      \* LOCK_TTL_MS, in ticks of the clock
  MaxTime   \* bound of the model: the clock stops here

ASSUME NoOwnerAssumption == NoOwner \notin Owner
ASSUME TtlAssumption == Ttl \in Nat \ {0}
ASSUME MaxTimeAssumption == MaxTime \in Nat

VARIABLES
  now,      \* the clock the processes share (Date.now of one host)
  told,     \* told[o]: until when o was last told it holds the slot; 0, never or given up
  late      \* history variable: whether an owner renewed, for a new take, a lock of
            \* its own that had run out

leaseVars == <<now, told, late>>

(* o believes, on the word of the lock, that the slot is its own. *)
Holds(o) == told[o] > now

LeaseInit == /\ now = 0
             /\ told = [o \in Owner |-> 0]
             /\ late = FALSE

(* A grant, first or renewed: only when no other owner still holds the     *)
(* slot, until somebody comes back to a lock that had run out.             *)
Grant(o) == /\ late \/ \A p \in Owner \ {o} : ~Holds(p)
            /\ told' = [told EXCEPT ![o] = now + Ttl]
            /\ UNCHANGED <<now, late>>

GiveUp(o) == /\ told' = [told EXCEPT ![o] = 0]
             /\ UNCHANGED <<now, late>>

ComesBackLate == late' = TRUE /\ UNCHANGED <<now, told>>

Tick == /\ now < MaxTime
        /\ now' = now + 1
        /\ UNCHANGED <<told, late>>

LeaseNext == \/ \E o \in Owner : Grant(o) \/ GiveUp(o)
             \/ ComesBackLate \/ Tick

LeaseSpec == LeaseInit /\ [][LeaseNext]_leaseVars

-----------------------------------------------------------------------------
(* At any moment at most one process has been told that the slot is its    *)
(* own: "True for exactly one caller among any that contend"               *)
(* (jobState.ts, takeLock), until a process comes back to a lock of its    *)
(* own that had run out.                                                   *)
OneHolder == late \/ \A o, p \in Owner : Holds(o) /\ Holds(p) => o = p
=============================================================================
