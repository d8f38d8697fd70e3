-------------------------- MODULE FileLocksProofs ---------------------------
(* What the lock table guarantees for any number of processes and threads,    *)
(* and what the file lock guarantees to a process that uses it from one       *)
(* thread.                                                                    *)
EXTENDS FileLocks, TLAPS

(* The threads of p that are between their Insert and their Remove. *)
In(p) == {t \in Threads : ProcOf[t] = p /\ pc[t] \in Registered}

(* The table entries and the kernel's lock are accounted for. *)
IInv == TypeOK /\ TableExact /\ NoOrphanLock

(* A holder that is alone in its process has the kernel's lock. *)
HolderOwns == \A t \in Threads : Alone(t) /\ pc[t] = "held" => owner = ProcOf[t]

(* Init gives the invariant: nobody is in a call, no table has an entry. *)
LEMMA InitIInv == Init => IInv
  BY FileLocksAssumption DEF Init, IInv, TypeOK, Steps, TableExact, Registered, NoOrphanLock

(* Every step of LockFile, UnlockFile or exit keeps the variables' types. *)
LEMMA TypeStep == TypeOK /\ [Next]_vars => TypeOK'
<1> SUFFICES ASSUME TypeOK, [Next]_vars PROVE TypeOK'
  OBVIOUS
<1> USE FileLocksAssumption DEF TypeOK
<1>1. CASE \E t \in Threads : LockFile(t) \/ UnlockFile(t)
  <2>1. pc' \in [Threads -> Steps]
    BY <1>1 DEF LockFile, UnlockFile, OpenFile, Insert, RefusedClose, SetLock, BusyClose,
       BusyRemove, Unlock, UnlockRemove, UnlockClose, Goto, Steps
  <2>2. locked_files' \subseteq Procs
    BY <1>1 DEF LockFile, UnlockFile, OpenFile, Insert, RefusedClose, SetLock, BusyClose,
       BusyRemove, Unlock, UnlockRemove, UnlockClose
  <2>3. owner' \in Procs \cup {Nobody}
    BY <1>1 DEF LockFile, UnlockFile, OpenFile, Insert, RefusedClose, SetLock, BusyClose,
       BusyRemove, Unlock, UnlockRemove, UnlockClose, OwnerWithout
  <2>4. QED BY <2>1, <2>2, <2>3
<1>2. CASE \E p \in Procs : Exit(p)
  BY <1>2 DEF Exit, OwnerWithout, Steps
<1>3. CASE UNCHANGED vars
  BY <1>3 DEF vars
<1>4. QED BY <1>1, <1>2, <1>3 DEF Next

(* TableExact, said of In(p). *)
LEMMA TableIn ==
  TableExact <=> \A p \in Procs : (p \in locked_files <=> In(p) # {})
                                  /\ \A t, u \in In(p) : t = u
  BY DEF TableExact, In

(* A step that leaves every thread registered or not, as it was, and leaves   *)
(* the tables alone, keeps TableExact.                                        *)
LEMMA TableUnmoved ==
  ASSUME TableExact, UNCHANGED locked_files,
         \A u \in Threads : pc'[u] \in Registered <=> pc[u] \in Registered
  PROVE  TableExact'
  BY DEF TableExact

(* Insert, BusyRemove, UnlockRemove and exit keep the tables exact because     *)
(* each moves one thread, or a whole process, in or out together with its     *)
(* entry; the other steps touch neither.                                      *)
LEMMA TableStep == TypeOK /\ TableExact /\ [Next]_vars => TableExact'
<1> SUFFICES ASSUME TypeOK, TableExact, [Next]_vars PROVE TableExact'
  OBVIOUS
<1> USE FileLocksAssumption DEF TypeOK
<1>1. ASSUME NEW t \in Threads, LockFile(t) \/ UnlockFile(t) PROVE TableExact'
  <2>1. CASE OpenFile(t) \/ RefusedClose(t) \/ SetLock(t) \/ BusyClose(t)
             \/ Unlock(t) \/ UnlockClose(t)
    <3>1. \A u \in Threads : pc'[u] \in Registered <=> pc[u] \in Registered
      BY <2>1 DEF OpenFile, RefusedClose, SetLock, BusyClose, Unlock, UnlockClose, Goto,
         Registered
    <3>2. UNCHANGED locked_files
      BY <2>1 DEF OpenFile, RefusedClose, SetLock, BusyClose, Unlock, UnlockClose
    <3>3. QED BY <3>1, <3>2, TableUnmoved
  <2>2. CASE Insert(t) /\ ProcOf[t] \in locked_files
    <3>1. \A u \in Threads : pc'[u] \in Registered <=> pc[u] \in Registered
      BY <2>2 DEF Insert, Goto, Registered
    <3>2. UNCHANGED locked_files
      BY <2>2 DEF Insert
    <3>3. QED BY <3>1, <3>2, TableUnmoved
  <2>3. CASE Insert(t) /\ ProcOf[t] \notin locked_files
    <3>1. In(ProcOf[t]) = {}
      BY <2>3, TableIn
    <3>2. pc' = [pc EXCEPT ![t] = "inserted"] /\ locked_files' = locked_files \cup {ProcOf[t]}
      BY <2>3 DEF Insert, Goto
    <3>3. \A u \in Threads : pc'[u] \in Registered <=> u = t \/ pc[u] \in Registered
      BY <3>2 DEF Registered
    <3>4. QED BY <3>1, <3>2, <3>3 DEF TableExact, In
  <2>4. CASE BusyRemove(t) \/ UnlockRemove(t)
    <3>1. /\ pc[t] \in Registered
          /\ locked_files' = locked_files \ {ProcOf[t]}
          /\ \A u \in Threads : pc'[u] \in Registered <=> u # t /\ pc[u] \in Registered
      BY <2>4 DEF BusyRemove, UnlockRemove, Goto, Registered
    <3>2. QED BY <3>1 DEF TableExact
  <2>5. QED BY <1>1, <2>1, <2>2, <2>3, <2>4 DEF LockFile, UnlockFile
<1>2. ASSUME NEW p \in Procs, Exit(p) PROVE TableExact'
  BY <1>2 DEF Exit, TableExact, Registered
<1>3. CASE UNCHANGED vars
  BY <1>3 DEF vars, TableExact
<1>4. QED BY <1>1, <1>2, <1>3 DEF Next

(* The kernel's lock is taken by a thread that then holds it, and a thread    *)
(* that stops holding or unlocking it closes a descriptor.                    *)
LEMMA OrphanStep == TypeOK /\ NoOrphanLock /\ [Next]_vars => NoOrphanLock'
<1> SUFFICES ASSUME TypeOK, NoOrphanLock, [Next]_vars PROVE NoOrphanLock'
  OBVIOUS
<1> USE FileLocksAssumption DEF TypeOK, NoOrphanLock
<1>1. ASSUME NEW t \in Threads, LockFile(t) PROVE NoOrphanLock'
  BY <1>1 DEF LockFile, OpenFile, Insert, RefusedClose, SetLock, BusyClose, BusyRemove, Goto,
     OwnerWithout
<1>2. ASSUME NEW t \in Threads, UnlockFile(t) PROVE NoOrphanLock'
  BY <1>2 DEF UnlockFile, Unlock, UnlockRemove, UnlockClose, Goto, OwnerWithout
<1>3. ASSUME NEW p \in Procs, Exit(p) PROVE NoOrphanLock'
  BY <1>3 DEF Exit, OwnerWithout
<1>4. CASE UNCHANGED vars
  BY <1>4 DEF vars
<1>5. QED BY <1>1, <1>2, <1>3, <1>4 DEF Next

(* In the process of a thread that is alone nobody but the thread itself ever *)
(* closes a descriptor.                                                       *)
LEMMA HolderStep == TypeOK /\ HolderOwns /\ [Next]_vars => HolderOwns'
<1> SUFFICES ASSUME TypeOK, HolderOwns, [Next]_vars PROVE HolderOwns'
  OBVIOUS
<1> USE FileLocksAssumption DEF TypeOK, HolderOwns, Alone
<1>1. ASSUME NEW t \in Threads, LockFile(t) PROVE HolderOwns'
  BY <1>1 DEF LockFile, OpenFile, Insert, RefusedClose, SetLock, BusyClose, BusyRemove, Goto,
     OwnerWithout
<1>2. ASSUME NEW t \in Threads, UnlockFile(t) PROVE HolderOwns'
  BY <1>2 DEF UnlockFile, Unlock, UnlockRemove, UnlockClose, Goto, OwnerWithout
<1>3. ASSUME NEW p \in Procs, Exit(p) PROVE HolderOwns'
  BY <1>3 DEF Exit, OwnerWithout
<1>4. CASE UNCHANGED vars
  BY <1>4 DEF vars
<1>5. QED BY <1>1, <1>2, <1>3, <1>4 DEF Next

(* The invariant of LockFile and UnlockFile for any processes and threads. *)
THEOREM Invariance == Spec => []IInv
<1>1. IInv /\ [Next]_vars => IInv'
  BY TypeStep, TableStep, OrphanStep DEF IInv
<1>2. QED BY InitIInv, <1>1, PTL DEF Spec

(* The types of the lock's state. *)
THEOREM TypeCorrect == Spec => []TypeOK
  BY Invariance, PTL DEF IInv

(* PosixLockTable: within one process at most one thread is past its Insert,  *)
(* and no entry is left behind.                                               *)
THEOREM TableCorrect == Spec => []TableExact
  BY Invariance, PTL DEF IInv

(* The kernel's lock is never left without a holder. *)
THEOREM NoOrphan == Spec => []NoOrphanLock
  BY Invariance, PTL DEF IInv

(* LockFile excludes: of the processes that lock the file from one thread     *)
(* each, at most one holds it.                                                *)
THEOREM Exclusion == Spec => []SoleExclusion
<1>1. Init => HolderOwns
  BY DEF Init, HolderOwns
<1>2. TypeOK /\ HolderOwns => SoleExclusion
  BY FileLocksAssumption DEF HolderOwns, SoleExclusion, Alone
<1>3. QED BY <1>1, <1>2, HolderStep, TypeCorrect, PTL DEF Spec
=============================================================================
