--------------------------- MODULE ReadOnlyFiles ----------------------------
(***************************************************************************)
(* The read-only files of bench/util/env_posix.cc: NewRandomAccessFile,    *)
(* the two classes it chooses from, and the two Limiters that bound how    *)
(* many mappings and how many descriptors they keep, used by several       *)
(* threads.  A Limiter's critical sections read and write only its own     *)
(* word under its own mutex, so each is one step; the look Acquire takes   *)
(* before it locks is a step of its own.                                   *)
(***************************************************************************)
EXTENDS Integers, FiniteSets

CONSTANTS
  Threads,
  Files,          \* the RandomAccessFile objects there is room for
  MaxMmaps, MaxOpenFiles,   \* the limits of mmap_limit_ and fd_limit_
  None            \* no file

ASSUME ReadOnlyFilesAssumption ==
  /\ MaxMmaps \in Nat /\ MaxOpenFiles \in Nat
  /\ IsFiniteSet(Threads) /\ IsFiniteSet(Files)
  /\ None \notin Files

VARIABLES
  allowed,     \* what is left of each Limiter
  fds, maps,   \* the descriptors and the mappings that are open
  kind,        \* per object: its class, "temp" being a temporary_fd_
  pc, file     \* per thread: where it is, and the object it is at

vars == <<allowed, fds, maps, kind, pc, file>>

Limits == [mmap |-> MaxMmaps, fd |-> MaxOpenFiles]
Kinds == {"mmap", "fd"}

(* Per Limiter, the places where a thread has a unit of it in hand. *)
Holding == [mmap |-> {"map", "close_mapped", "close_failed", "release_mmap"},
            fd |-> {"release_fd"}]

(* The places where a thread has a descriptor of its own. *)
Opened == {"check_mmap", "take_mmap", "map", "close_mapped", "close_failed",
           "check_fd", "take_fd", "close_temp", "reading"}

Steps == {"idle", "release_mmap", "release_fd"} \cup Opened

TypeOK ==
  /\ allowed \in [Kinds -> Nat]
  /\ fds \in Nat
  /\ maps \in Nat
  /\ kind \in [Files -> {"none", "temp"} \cup Kinds]
  /\ pc \in [Threads -> Steps]
  /\ file \in [Threads -> Files \cup {None}]

Init ==
  /\ allowed = Limits
  /\ fds = 0
  /\ maps = 0
  /\ kind = [f \in Files |-> "none"]
  /\ pc = [t \in Threads |-> "idle"]
  /\ file = [t \in Threads |-> None]

Goto(t, from, to) == pc[t] = from /\ pc' = [pc EXCEPT ![t] = to]

(* Nobody is constructing, reading or deleting f. *)
Free(f) == \A t \in Threads : file[t] # f

Pick(t, f) == file' = [file EXCEPT ![t] = f]
Done(t) == file' = [file EXCEPT ![t] = None]

-----------------------------------------------------------------------------
(* Limiter. *)

(* Acquire's first look, without the mutex. *)
AcquireCheck(t, l, from, take, refuse) ==
  /\ Goto(t, from, IF allowed[l] <= 0 THEN refuse ELSE take)
  /\ UNCHANGED <<allowed, fds, maps, kind, file>>

AcquireLocked(t, l, from, taken, refuse) ==
  /\ \/ allowed[l] <= 0 /\ Goto(t, from, refuse) /\ UNCHANGED allowed
     \/ /\ allowed[l] > 0
        /\ Goto(t, from, taken)
        /\ allowed' = [allowed EXCEPT ![l] = @ - 1]
  /\ UNCHANGED <<fds, maps>>

Release(t, l, from) ==
  /\ Goto(t, from, "idle")
  /\ allowed' = [allowed EXCEPT ![l] = @ + 1]
  /\ Done(t)
  /\ UNCHANGED <<fds, maps, kind>>

-----------------------------------------------------------------------------
(* NewRandomAccessFile.  When open() fails nothing has changed. *)
OpenFile(t, f) ==
  /\ kind[f] = "none"
  /\ Free(f)
  /\ Goto(t, "idle", "check_mmap")
  /\ Pick(t, f)
  /\ fds' = fds + 1
  /\ UNCHANGED <<allowed, maps, kind>>

MmapCheck(t) == AcquireCheck(t, "mmap", "check_mmap", "take_mmap", "check_fd")
MmapAcquire(t) ==
  /\ AcquireLocked(t, "mmap", "take_mmap", "map", "check_fd")
  /\ UNCHANGED <<kind, file>>

(* GetFileSize and mmap, either of which may fail. *)
Map(t) ==
  /\ \/ Goto(t, "map", "close_mapped") /\ maps' = maps + 1
     \/ Goto(t, "map", "close_failed") /\ UNCHANGED maps
  /\ UNCHANGED <<allowed, fds, kind, file>>

CloseMapped(t) ==
  /\ Goto(t, "close_mapped", "idle")
  /\ fds' = fds - 1
  /\ kind' = [kind EXCEPT ![file[t]] = "mmap"]
  /\ Done(t)
  /\ UNCHANGED <<allowed, maps>>

(* Bug: the unit of a failed mapping is not given back. *)
CloseFailedKeeps(t) ==
  /\ Goto(t, "close_failed", "idle")
  /\ fds' = fds - 1
  /\ Done(t)
  /\ UNCHANGED <<allowed, maps, kind>>

CloseFailed(t) ==
  /\ Goto(t, "close_failed", "release_mmap")
  /\ fds' = fds - 1
  /\ UNCHANGED <<allowed, maps, kind, file>>

(* The constructor of PosixRandomAccessFile. *)
FdCheck(t) == AcquireCheck(t, "fd", "check_fd", "take_fd", "close_temp")
FdAcquire(t) ==
  /\ AcquireLocked(t, "fd", "take_fd", "idle", "close_temp")
  /\ IF pc'[t] = "idle" THEN kind' = [kind EXCEPT ![file[t]] = "fd"] /\ Done(t)
                        ELSE UNCHANGED <<kind, file>>

(* Bug: the descriptor of a temporary_fd_ file stays open. *)
CloseTempForgotten(t) ==
  /\ Goto(t, "close_temp", "idle")
  /\ kind' = [kind EXCEPT ![file[t]] = "temp"]
  /\ Done(t)
  /\ UNCHANGED <<allowed, fds, maps>>

CloseTemp(t) ==
  /\ Goto(t, "close_temp", "idle")
  /\ fds' = fds - 1
  /\ kind' = [kind EXCEPT ![file[t]] = "temp"]
  /\ Done(t)
  /\ UNCHANGED <<allowed, maps>>

-----------------------------------------------------------------------------
(* Read opens a descriptor, and closes it, only when temporary_fd_ is set;   *)
(* several threads may read one file.                                        *)
ReadOpen(t, f) ==
  /\ kind[f] = "temp"
  /\ Goto(t, "idle", "reading")
  /\ Pick(t, f)
  /\ fds' = fds + 1
  /\ UNCHANGED <<allowed, maps, kind>>

ReadClose(t) ==
  /\ Goto(t, "reading", "idle")
  /\ Done(t)
  /\ fds' = fds - 1
  /\ UNCHANGED <<allowed, maps, kind>>

(* The destructors: munmap, or close, and then Release. *)
DeleteMapped(t, f) ==
  /\ kind[f] = "mmap"
  /\ Goto(t, "idle", "release_mmap")
  /\ Pick(t, f)
  /\ maps' = maps - 1
  /\ UNCHANGED <<allowed, fds>>

DeleteFd(t, f) ==
  /\ kind[f] = "fd"
  /\ Goto(t, "idle", "release_fd")
  /\ Pick(t, f)
  /\ fds' = fds - 1
  /\ UNCHANGED <<allowed, maps>>

DeleteTemp(t, f) ==
  /\ kind[f] = "temp"
  /\ pc[t] = "idle"
  /\ UNCHANGED <<allowed, fds, maps, pc, file>>

Delete(t, f) ==
  /\ Free(f)
  /\ DeleteMapped(t, f) \/ DeleteFd(t, f) \/ DeleteTemp(t, f)
  /\ kind' = [kind EXCEPT ![f] = "none"]

Step(t) ==
  \/ MmapCheck(t) \/ MmapAcquire(t) \/ Map(t) \/ CloseMapped(t) \/ CloseFailed(t)
  \/ FdCheck(t) \/ FdAcquire(t) \/ CloseTemp(t) \/ ReadClose(t)
  \/ Release(t, "mmap", "release_mmap") \/ Release(t, "fd", "release_fd")

Next ==
  \E t \in Threads :
    Step(t) \/ \E f \in Files : OpenFile(t, f) \/ ReadOpen(t, f) \/ Delete(t, f)

Spec == Init /\ [][Next]_vars

-----------------------------------------------------------------------------
(* Properties. *)

Count(l) ==
  Cardinality({f \in Files : kind[f] = l}) + Cardinality({t \in Threads : pc[t] \in Holding[l]})

(* A Limiter's unit is never lost and never given out twice, whatever fails   *)
(* between Acquire and Release: what is left and what is in use make up the   *)
(* limit.                                                                     *)
Conserved == \A l \in Kinds : allowed[l] + Count(l) = Limits[l]

(* "so that we do not end up running out of file descriptors": the mappings   *)
(* stay within their limit, and the descriptors within theirs, plus the one   *)
(* a thread may have open for the length of a call.                           *)
WithinLimits ==
  /\ maps <= MaxMmaps
  /\ fds <= MaxOpenFiles + Cardinality({t \in Threads : pc[t] \in Opened})
=============================================================================
