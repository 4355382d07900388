---------------------------- MODULE FileSlotLock ----------------------------
(***************************************************************************)
(* The slot lock of FileJobStateProvider                                   *)
(* (src/src/providers/FileJobStateProvider.ts): one file per slot, created *)
(* exclusively, and an expired one moved aside before it is created again. *)
(* Every call on the file system is one action, so that the calls of       *)
(* several processes interleave as they do on a shared volume.             *)
(***************************************************************************)
EXTENDS SlotLease

ASSUME DeadAssumption == "dead" \notin Owner

VARIABLES
  file,    \* the lock file: its owner and expiresAt, or NoFile
  aside,   \* aside[o]: the file o moved to a stale name of its own, or NoFile
  held,    \* held[o]: what o last read from the lock file
  pc       \* pc[o]: the next call of o on the file system

NoFile == [owner |-> NoOwner, expires |-> 0]

(* A lock left by a process that is gone: nobody renews or releases it. *)
Left(e) == [owner |-> "dead", expires |-> e]

fileVars == <<now, told, late, file, aside, held, pc>>

FileInit == /\ LeaseInit
            /\ file \in {NoFile, Left(0), Left(Ttl)}
            /\ aside = [o \in Owner |-> NoFile]
            /\ held = [o \in Owner |-> NoFile]
            /\ pc = [o \in Owner |-> "idle"]

At(o, here, next) == pc[o] = here /\ pc' = [pc EXCEPT ![o] = next]

LeaseOf(o) == [owner |-> o, expires |-> now + Ttl]

Granted(o) == told' = [told EXCEPT ![o] = now + Ttl]

-----------------------------------------------------------------------------
(* takeLock *)

(* Mutant of CreateExclusive: the create goes over a file that is there. *)
CreateOver(o, here, otherwise) == /\ At(o, here, "idle")
                                  /\ file' = LeaseOf(o)
                                  /\ Granted(o)
                                  /\ UNCHANGED <<now, late, aside, held>>

(* createLock: the exclusive create, the one that succeeds or finds the name taken. *)
CreateExclusive(o, here, otherwise) ==
  \/ /\ file = NoFile
     /\ At(o, here, "idle")
     /\ file' = LeaseOf(o)
     /\ Granted(o)
     /\ UNCHANGED <<now, late, aside, held>>
  \/ /\ file # NoFile
     /\ At(o, here, otherwise)
     /\ UNCHANGED <<now, late, told, file, aside, held>>

(* The scheduler asks for a slot it does not hold: a first time, or for a retry. *)
TakeStarts(o) == /\ ~Holds(o)
                 /\ \E here \in {"idle", "gaveUp"} : CreateExclusive(o, here, "readHeld")

(* Reading a lock that is gone by now reads as none, and so does an unreadable one. *)
ReadHeld(o) == /\ At(o, "readHeld", "judge")
               /\ held' = [held EXCEPT ![o] = file]
               /\ UNCHANGED <<now, late, told, file, aside>>

(* Ours: renew it, whether or not it ran out and somebody is stealing it.  *)
(* Somebody's and live: not taken.  Expired or gone: steal it.             *)
JudgeOurs(o) == /\ held[o].owner = o
                /\ At(o, "judge", "readOwn")
                /\ late' = (late \/ held[o].expires <= now)
                /\ UNCHANGED <<now, told, file, aside, held>>

JudgeLive(o) == /\ held[o].owner # o
                /\ held[o].expires > now
                /\ At(o, "judge", "idle")
                /\ UNCHANGED <<now, late, told, file, aside, held>>

MoveAside(o) == /\ held[o].owner # o
                /\ held[o].expires <= now
                /\ IF file = NoFile
                   THEN At(o, "judge", "create") /\ UNCHANGED <<file, aside>>
                   ELSE /\ At(o, "judge", "moved")
                        /\ aside' = [aside EXCEPT ![o] = file]
                        /\ file' = NoFile
                /\ UNCHANGED <<now, late, told, held>>

(* What was moved aside is a live lock taken since we looked: put it back. *)
FoundLive(o) == /\ aside[o].expires > now
                /\ At(o, "moved", "linkBack")
                /\ UNCHANGED <<now, late, told, file, aside, held>>

(* Mutant of DropExpired: what was moved aside is not looked at. *)
DropUnseen(o) == /\ At(o, "moved", "create")
                 /\ aside' = [aside EXCEPT ![o] = NoFile]
                 /\ UNCHANGED <<now, late, told, file, held>>

DropExpired(o) == /\ aside[o].expires <= now
                  /\ At(o, "moved", "create")
                  /\ aside' = [aside EXCEPT ![o] = NoFile]
                  /\ UNCHANGED <<now, late, told, file, held>>

(* The link never goes over another file: when the name is taken, theirs stands. *)
LinkBack(o) == /\ At(o, "linkBack", "dropAside")
               /\ file' = IF file = NoFile THEN aside[o] ELSE file
               /\ UNCHANGED <<now, late, told, aside, held>>

DropAside(o) == /\ At(o, "dropAside", "idle")
                /\ aside' = [aside EXCEPT ![o] = NoFile]
                /\ UNCHANGED <<now, late, told, file, held>>

CreateAgain(o) == CreateExclusive(o, "create", "idle")

-----------------------------------------------------------------------------
(* renewLock: read, and write over when the lock read was ours.  The       *)
(* heartbeat calls it, and the end of a run calls releaseLock, only while  *)
(* the slot is held (BackgroundJobManager.runSlot).                        *)
RenewStarts(o) == /\ Holds(o)
                  /\ At(o, "idle", "readOwn")
                  /\ UNCHANGED <<now, late, told, file, aside, held>>

ReadOwn(o) == /\ At(o, "readOwn", IF file.owner = o THEN "rewrite" ELSE "idle")
              /\ held' = [held EXCEPT ![o] = file]
              /\ UNCHANGED <<now, late, told, file, aside>>

Rewrite(o) == /\ At(o, "rewrite", "idle")
              /\ file' = LeaseOf(o)
              /\ Granted(o)
              /\ UNCHANGED <<now, late, aside, held>>

(* releaseLock: read, and remove when the lock read was ours.  The caller  *)
(* no longer counts on the slot from the moment it calls.                 *)
ReleaseStarts(o) == /\ Holds(o)
                    /\ At(o, "idle", IF file.owner = o THEN "remove" ELSE "gaveUp")
                    /\ held' = [held EXCEPT ![o] = file]
                    /\ told' = [told EXCEPT ![o] = 0]
                    /\ UNCHANGED <<now, late, file, aside>>

Remove(o) == /\ At(o, "remove", "gaveUp")
             /\ file' = NoFile
             /\ UNCHANGED <<now, late, told, aside, held>>

-----------------------------------------------------------------------------
(* A process dies between two calls: its files stay where they are. *)
Die(o) == /\ pc[o] # "gone"
          /\ pc' = [pc EXCEPT ![o] = "gone"]
          /\ told' = [told EXCEPT ![o] = 0]
          /\ UNCHANGED <<now, late, file, aside, held>>

(* Assumption of the provider, "renewal is the holder's job, well inside   *)
(* the lock's lifetime": the lease of a live holder does not run out, nor  *)
(* does one run out while its owner is between two calls on it.            *)
Prompt == \A o \in Owner :
  /\ Holds(o) => told[o] > now + 1
  /\ pc[o] \in {"readHeld", "judge", "readOwn", "rewrite", "remove"} =>
       \A l \in {file, held[o]} : l.owner = o => l.expires > now + 1

FileTick == Tick /\ Prompt /\ UNCHANGED <<file, aside, held, pc>>

Step(o) == \/ TakeStarts(o)
           \/ ReadHeld(o)
           \/ JudgeOurs(o)
           \/ JudgeLive(o)
           \/ MoveAside(o)
           \/ FoundLive(o)
           \/ DropExpired(o)
           \/ LinkBack(o)
           \/ DropAside(o)
           \/ CreateAgain(o)
           \/ RenewStarts(o)
           \/ ReadOwn(o)
           \/ Rewrite(o)
           \/ ReleaseStarts(o)
           \/ Remove(o)
           \/ Die(o)

FileNext == FileTick \/ \E o \in Owner : Step(o)

FileSpec == FileInit /\ [][FileNext]_fileVars

-----------------------------------------------------------------------------
LockFile == {NoFile} \cup [owner : Owner \cup {"dead"}, expires : Nat]

FileTypeOK == /\ now \in Nat
              /\ told \in [Owner -> Nat]
              /\ late \in BOOLEAN
              /\ file \in LockFile
              /\ aside \in [Owner -> LockFile]
              /\ held \in [Owner -> LockFile]
              /\ pc \in [Owner -> {"idle", "readHeld", "judge", "moved", "linkBack", "dropAside",
                                   "create", "readOwn", "rewrite", "remove", "gaveUp", "gone"}]

(* A process that holds the slot finds its lock under the slot's name, or  *)
(* moved aside by a process about to put it back: a steal never loses the  *)
(* lock of a live holder.                                                  *)
LockNeverLost == \A o \in Owner : Holds(o) =>
  \/ file.owner = o
  \/ \E p \in Owner : aside[p].owner = o /\ pc[p] \in {"moved", "linkBack", "gone"}
=============================================================================
