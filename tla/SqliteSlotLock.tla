--------------------------- MODULE SqliteSlotLock ---------------------------
(***************************************************************************)
(* The slot lock of SqliteJobStateProvider                                 *)
(* (src/src/providers/SqliteJobStateProvider.ts): one row of job_leases,   *)
(* changed by one conditional statement per operation.  A statement is     *)
(* atomic, so each operation is one action; what a process was told it     *)
(* holds (told, now) is kept as in SlotLease.                              *)
(***************************************************************************)
EXTENDS SlotLease

VARIABLE row       \* the row of (job_id, slot): its owner and expires_at

NoRow == [owner |-> NoOwner, expires |-> 0]

Row == [owner : Owner \cup {NoOwner}, expires : Nat]

sqliteVars == <<now, told, late, row>>

SqliteInit == LeaseInit /\ row = NoRow

(* Mutant of Takeable: a row counts as expired one tick early. *)
TakeableEarly(o) == \/ row = NoRow
                    \/ row.expires <= now + 1
                    \/ row.owner = o

(* The upsert changes the row when there is none, when it expired, or when it is ours. *)
Takeable(o) == \/ row = NoRow
               \/ row.expires <= now
               \/ row.owner = o

TakeLock(o) == /\ Takeable(o)
               /\ row' = [owner |-> o, expires |-> now + Ttl]
               /\ told' = [told EXCEPT ![o] = now + Ttl]
               /\ UNCHANGED <<now, late>>

(* Mutant of RenewLock: the UPDATE does not name the owner. *)
RenewLockOfAny(o) == /\ row # NoRow
                     /\ row' = [row EXCEPT !.expires = now + Ttl]
                     /\ told' = [told EXCEPT ![o] = now + Ttl]
                     /\ UNCHANGED <<now, late>>

(* The UPDATE names the owner and not the expiry: a lease that ran out and *)
(* that nobody stole is renewed.                                           *)
RenewLock(o) == /\ row.owner = o
                /\ row' = [row EXCEPT !.expires = now + Ttl]
                /\ told' = [told EXCEPT ![o] = now + Ttl]
                /\ UNCHANGED <<now, late>>

ReleaseLock(o) == /\ row' = IF row.owner = o THEN NoRow ELSE row
                  /\ told' = [told EXCEPT ![o] = 0]
                  /\ UNCHANGED <<now, late>>

SqliteNext == \/ \E o \in Owner : TakeLock(o) \/ RenewLock(o) \/ ReleaseLock(o)
              \/ Tick /\ UNCHANGED row

SqliteSpec == SqliteInit /\ [][SqliteNext]_sqliteVars

-----------------------------------------------------------------------------
SqliteTypeOK == /\ now \in Nat
                /\ told \in [Owner -> Nat]
                /\ late \in BOOLEAN
                /\ row \in Row

(* Whoever still holds the slot is the owner the row names, and the row    *)
(* lasts as long as the owner was told: no other process can take the row  *)
(* while a promise made from it runs.                                      *)
RowBacksHolder == \A o \in Owner :
  Holds(o) => row.owner = o /\ told[o] <= row.expires

(* Beside these, a run checks LeaseSpec of SlotLease as a property of      *)
(* SqliteSpec: every step of the SQLite lock is a step of the lease.       *)
=============================================================================
