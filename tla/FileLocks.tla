----------------------------- MODULE FileLocks ------------------------------
(***************************************************************************)
(* LockFile and UnlockFile of bench/util/env_posix.cc, called for one file *)
(* by the threads of several processes.                                    *)
(*                                                                         *)
(* Each process has one PosixEnv and with it one PosixLockTable, whose     *)
(* operations are atomic under its mutex.  fcntl record locks belong to a  *)
(* process, and a process that closes ANY descriptor of a file loses its   *)
(* lock on that file (external, POSIX).                                    *)
(***************************************************************************)
CONSTANTS Procs, Threads, ProcOf, Nobody

ASSUME FileLocksAssumption == ProcOf \in [Threads -> Procs] /\ Nobody \notin Procs

VARIABLES
  pc,             \* per thread: where it is in LockFile or UnlockFile
  locked_files,   \* the processes whose lock table holds the file
  owner           \* the process that has the fcntl lock, or Nobody

vars == <<pc, locked_files, owner>>

Steps == {"idle", "opened", "refused", "inserted", "busy", "busy_closed",
          "held", "unlocked", "removed"}

(* Where a thread stands between its Insert and its Remove. *)
Registered == {"inserted", "busy", "busy_closed", "held", "unlocked"}

TypeOK ==
  /\ pc \in [Threads -> Steps]
  /\ locked_files \subseteq Procs
  /\ owner \in Procs \cup {Nobody}

Init ==
  /\ pc = [t \in Threads |-> "idle"]
  /\ locked_files = {}
  /\ owner = Nobody

Goto(t, from, to) == pc[t] = from /\ pc' = [pc EXCEPT ![t] = to]

(* What p leaves of the lock when it closes a descriptor or unlocks. *)
OwnerWithout(p) == IF owner = p THEN Nobody ELSE owner

-----------------------------------------------------------------------------
(* LockFile. *)

(* open(); when it fails the call returns and nothing has changed. *)
OpenFile(t) ==
  /\ Goto(t, "idle", "opened")
  /\ UNCHANGED <<locked_files, owner>>

Insert(t) ==
  /\ Goto(t, "opened", IF ProcOf[t] \in locked_files THEN "refused" ELSE "inserted")
  /\ locked_files' = locked_files \cup {ProcOf[t]}
  /\ UNCHANGED owner

(* "already held by process": the new descriptor is closed. *)
RefusedClose(t) ==
  /\ Goto(t, "refused", "idle")
  /\ owner' = OwnerWithout(ProcOf[t])
  /\ UNCHANGED locked_files

(* Bug: the result of fcntl is ignored. *)
SetLockIgnored(t) ==
  /\ Goto(t, "inserted", "held")
  /\ owner' = ProcOf[t]
  /\ UNCHANGED locked_files

(* fcntl(F_SETLK, F_WRLCK) fails at once if another process has the lock. *)
SetLock(t) ==
  /\ IF owner \in {ProcOf[t], Nobody}
     THEN Goto(t, "inserted", "held") /\ owner' = ProcOf[t]
     ELSE Goto(t, "inserted", "busy") /\ UNCHANGED owner
  /\ UNCHANGED locked_files

BusyClose(t) ==
  /\ Goto(t, "busy", "busy_closed")
  /\ owner' = OwnerWithout(ProcOf[t])
  /\ UNCHANGED locked_files

(* Bug: the table entry of a failed attempt is left behind. *)
BusyRemoveForgotten(t) ==
  /\ Goto(t, "busy_closed", "idle")
  /\ UNCHANGED <<locked_files, owner>>

BusyRemove(t) ==
  /\ Goto(t, "busy_closed", "idle")
  /\ locked_files' = locked_files \ {ProcOf[t]}
  /\ UNCHANGED owner

-----------------------------------------------------------------------------
(* UnlockFile. *)

(* fcntl(F_SETLK, F_UNLCK).  If it fails, UnlockFile reports it and goes on. *)
Unlock(t) ==
  /\ Goto(t, "held", "unlocked")
  /\ owner' \in {owner, OwnerWithout(ProcOf[t])}
  /\ UNCHANGED locked_files

UnlockRemove(t) ==
  /\ Goto(t, "unlocked", "removed")
  /\ locked_files' = locked_files \ {ProcOf[t]}
  /\ UNCHANGED owner

(* Bug: the descriptor is left open. *)
UnlockCloseForgotten(t) ==
  /\ Goto(t, "removed", "idle")
  /\ UNCHANGED <<locked_files, owner>>

UnlockClose(t) ==
  /\ Goto(t, "removed", "idle")
  /\ owner' = OwnerWithout(ProcOf[t])
  /\ UNCHANGED locked_files

(* The process exits, or is killed, and starts again with an empty table. *)
Exit(p) ==
  /\ \E t \in Threads : ProcOf[t] = p /\ pc[t] # "idle"
  /\ pc' = [t \in Threads |-> IF ProcOf[t] = p THEN "idle" ELSE pc[t]]
  /\ locked_files' = locked_files \ {p}
  /\ owner' = OwnerWithout(p)

LockFile(t) ==
  OpenFile(t) \/ Insert(t) \/ RefusedClose(t) \/ SetLock(t) \/ BusyClose(t) \/ BusyRemove(t)

UnlockFile(t) == Unlock(t) \/ UnlockRemove(t) \/ UnlockClose(t)

Next ==
  \/ \E t \in Threads : LockFile(t) \/ UnlockFile(t)
  \/ \E p \in Procs : Exit(p)

Spec == Init /\ [][Next]_vars

-----------------------------------------------------------------------------
(* Properties. *)

(* The lock table does what fcntl cannot: of the threads of one process at   *)
(* most one is between its Insert and its Remove, and a table entry is there *)
(* exactly while one is, so that a failed or a finished call never leaves    *)
(* the file locked for the rest of the process.                              *)
TableExact ==
  \A p \in Procs :
    LET in == {t \in Threads : ProcOf[t] = p /\ pc[t] \in Registered}
    IN  /\ p \in locked_files <=> in # {}
        /\ \A t, u \in in : t = u

(* No other thread of t's process calls LockFile. *)
Alone(t) == \A u \in Threads : ProcOf[u] = ProcOf[t] => u = t

(* Processes that each lock the file from one thread exclude each other,      *)
(* whatever the threads of other processes do.                                *)
SoleExclusion ==
  \A t, u \in Threads :
    Alone(t) /\ Alone(u) /\ pc[t] = "held" /\ pc[u] = "held" => t = u

(* "Used to prevent concurrent access to the same db by multiple processes":  *)
(* of all the callers in all the processes at most one holds the lock.        *)
MutualExclusion ==
  \A t, u \in Threads : pc[t] = "held" /\ pc[u] = "held" => t = u

(* The kernel's lock never outlives the call that ends the hold it was taken  *)
(* for, or the process, even where unlocking fails.                           *)
NoOrphanLock ==
  owner # Nobody =>
    \E t \in Threads : ProcOf[t] = owner /\ pc[t] \in {"held", "unlocked", "removed"}
=============================================================================
