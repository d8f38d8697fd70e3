------------------------ MODULE ReadOnlyFilesProofs -------------------------
(***************************************************************************)
(* The two Limiters for any number of threads, files and units.  What is   *)
(* counted is how many threads are at certain places and how many objects  *)
(* are of a certain class; a step moves one thread and changes one object  *)
(* at most, so each count moves by one at most (OneMoves).  The inductive  *)
(* invariant says exactly what the open descriptors and mappings are for.  *)
(***************************************************************************)
EXTENDS ReadOnlyFiles, FiniteSetTheorems, TLAPS

CountIn(f, D, S) == Cardinality({x \in D : f[x] \in S})
One(x, S) == IF x \in S THEN 1 ELSE 0

LEMMA CountIsNat ==
  ASSUME NEW D, IsFiniteSet(D), NEW f, NEW S
  PROVE  CountIn(f, D, S) \in Nat
BY FS_Subset, FS_CardinalityType DEF CountIn

LEMMA CountMonotone ==
  ASSUME NEW D, IsFiniteSet(D), NEW f, NEW S, NEW T, S \subseteq T
  PROVE  CountIn(f, D, S) <= CountIn(f, D, T)
<1>1. {x \in D : f[x] \in S} \subseteq {x \in D : f[x] \in T} OBVIOUS
<1>2. IsFiniteSet({x \in D : f[x] \in T}) BY FS_Subset
<1> QED BY <1>1, <1>2, FS_Subset DEF CountIn

(* Changing a function at one point moves a count by the point's old and new *)
(* membership.                                                               *)
LEMMA OneMoves ==
  \A D, f, g, S : \A d \in D :
    IsFiniteSet(D) /\ (\A x \in D \ {d} : g[x] = f[x]) =>
      CountIn(g, D, S) = CountIn(f, D, S) - One(f[d], S) + One(g[d], S)
<1> TAKE D, f, g, S
<1> TAKE d \in D
<1> HAVE IsFiniteSet(D) /\ (\A x \in D \ {d} : g[x] = f[x])
<1> DEFINE old == {x \in D : f[x] \in S}
           new == {x \in D : g[x] \in S}
<1>1. IsFiniteSet(old) /\ Cardinality(old) \in Nat BY FS_Subset, FS_CardinalityType
<1>2. CountIn(f, D, S) = Cardinality(old) /\ CountIn(g, D, S) = Cardinality(new) BY DEF CountIn
<1>3. f[d] \in S /\ g[d] \in S => new = old OBVIOUS
<1>4. f[d] \in S /\ g[d] \notin S => new = old \ {d} /\ d \in old OBVIOUS
<1>5. f[d] \notin S /\ g[d] \in S => new = old \cup {d} /\ d \notin old OBVIOUS
<1>6. f[d] \notin S /\ g[d] \notin S => new = old OBVIOUS
<1> HIDE DEF old, new
<1>7. d \in old => Cardinality(old \ {d}) = Cardinality(old) - 1 BY <1>1, FS_RemoveElement
<1>8. d \notin old => Cardinality(old \cup {d}) = Cardinality(old) + 1 BY <1>1, FS_AddElement
<1>9. CASE f[d] \in S /\ g[d] \in S BY <1>1, <1>2, <1>3, <1>9 DEF One
<1>10. CASE f[d] \in S /\ g[d] \notin S
  <2>1. Cardinality(new) = Cardinality(old) - 1 BY <1>4, <1>7, <1>10
  <2> QED BY <1>1, <1>2, <1>10, <2>1 DEF One
<1>11. CASE f[d] \notin S /\ g[d] \in S
  <2>1. Cardinality(new) = Cardinality(old) + 1 BY <1>5, <1>8, <1>11
  <2> QED BY <1>1, <1>2, <1>11, <2>1 DEF One
<1>12. CASE f[d] \notin S /\ g[d] \notin S BY <1>1, <1>2, <1>6, <1>12 DEF One
<1> QED BY <1>9, <1>10, <1>11, <1>12

LEMMA CountNone ==
  ASSUME NEW D, NEW f, NEW S, \A x \in D : f[x] \notin S
  PROVE  CountIn(f, D, S) = 0
<1>1. {x \in D : f[x] \in S} = {} OBVIOUS
<1> QED BY <1>1, FS_EmptySet DEF CountIn
-----------------------------------------------------------------------------
(* The places where a thread is constructing the object it is at.            *)
Constructing == Opened \ {"reading"}

(* An object under construction is nobody else's and has no class yet.       *)
Owned ==
  \A t \in Threads : pc[t] \in Constructing =>
    /\ file[t] \in Files /\ kind[file[t]] = "none"
    /\ \A u \in Threads : u # t => file[u] # file[t]

(* The objects of either class, and the threads at the places that matter,   *)
(* given kind and pc.                                                        *)
MmapObjs(k) == CountIn(k, Files, {"mmap"})
FdObjs(k) == CountIn(k, Files, {"fd"})
MmapHolders(p) == CountIn(p, Threads, Holding.mmap)
FdHolders(p) == CountIn(p, Threads, Holding.fd)
Mapped(p) == CountIn(p, Threads, {"close_mapped"})
Openers(p) == CountIn(p, Threads, Opened)

(* Every unit, mapping and descriptor belongs to an object or to a thread.   *)
Exact ==
  /\ allowed["mmap"] + MmapObjs(kind) + MmapHolders(pc) = MaxMmaps
  /\ allowed["fd"] + FdObjs(kind) + FdHolders(pc) = MaxOpenFiles
  /\ maps = MmapObjs(kind) + Mapped(pc)
  /\ fds = FdObjs(kind) + Openers(pc)

IInv == TypeOK /\ Owned /\ Exact

LEMMA InitIInv == Init => IInv
<1> SUFFICES ASSUME Init PROVE IInv OBVIOUS
<1>1. TypeOK BY ReadOnlyFilesAssumption DEF Init, TypeOK, Limits, Kinds, Steps
<1>2. Owned BY DEF Init, Owned, Constructing, Opened
<1>3. Exact
  <2>1. MmapObjs(kind) = 0 /\ FdObjs(kind) = 0 BY CountNone DEF Init, MmapObjs, FdObjs
  <2>2. MmapHolders(pc) = 0 /\ FdHolders(pc) = 0 /\ Mapped(pc) = 0 /\ Openers(pc) = 0
    BY CountNone DEF Init, MmapHolders, FdHolders, Mapped, Openers, Holding, Opened
  <2> QED BY <2>1, <2>2, ReadOnlyFilesAssumption DEF Init, Exact, Limits
<1> QED BY <1>1, <1>2, <1>3 DEF IInv

LEMMA Counts ==
  \A k, p : /\ MmapObjs(k) \in Nat /\ FdObjs(k) \in Nat
            /\ MmapHolders(p) \in Nat /\ FdHolders(p) \in Nat
            /\ Mapped(p) \in Nat /\ Openers(p) \in Nat
BY CountIsNat, ReadOnlyFilesAssumption DEF MmapObjs, FdObjs, MmapHolders, FdHolders, Mapped, Openers

LEMMA ThreadMoves ==
  ASSUME TypeOK, NEW t \in Threads, NEW from, NEW to, Goto(t, from, to)
  PROVE  /\ MmapHolders(pc') = MmapHolders(pc) - One(from, Holding.mmap) + One(to, Holding.mmap)
         /\ FdHolders(pc') = FdHolders(pc) - One(from, Holding.fd) + One(to, Holding.fd)
         /\ Mapped(pc') = Mapped(pc) - One(from, {"close_mapped"}) + One(to, {"close_mapped"})
         /\ Openers(pc') = Openers(pc) - One(from, Opened) + One(to, Opened)
<1>1. pc[t] = from /\ pc'[t] = to /\ \A u \in Threads \ {t} : pc'[u] = pc[u] BY DEF TypeOK, Goto
<1>2. \A S : CountIn(pc', Threads, S) = CountIn(pc, Threads, S) - One(from, S) + One(to, S)
  <2> TAKE S
  <2>1. IsFiniteSet(Threads) BY ReadOnlyFilesAssumption
  <2>2. CountIn(pc', Threads, S) = CountIn(pc, Threads, S) - One(pc[t], S) + One(pc'[t], S)
    BY <1>1, <2>1, OneMoves, SMT
  <2> QED BY <1>1, <2>2
<1> QED BY <1>2 DEF MmapHolders, FdHolders, Mapped, Openers

LEMMA ObjectBecomes ==
  ASSUME NEW o \in Files, NEW k, kind'[o] = k, \A x \in Files \ {o} : kind'[x] = kind[x]
  PROVE  /\ MmapObjs(kind') = MmapObjs(kind) - One(kind[o], {"mmap"}) + One(k, {"mmap"})
         /\ FdObjs(kind') = FdObjs(kind) - One(kind[o], {"fd"}) + One(k, {"fd"})
<1>1. IsFiniteSet(Files) BY ReadOnlyFilesAssumption
<1>2. \A S : CountIn(kind', Files, S) = CountIn(kind, Files, S) - One(kind[o], S) + One(kind'[o], S)
  <2> TAKE S
  <2> QED BY <1>1, OneMoves, SMT
<1> QED BY <1>2 DEF MmapObjs, FdObjs

LEMMA OpenFileIInv ==
  ASSUME IInv, NEW t \in Threads, NEW f \in Files, OpenFile(t, f)
  PROVE  IInv'
<1> USE DEF IInv
<1>1. Goto(t, "idle", "check_mmap") BY DEF OpenFile
<1>2. kind' = kind BY DEF OpenFile
<1>3. Exact'
  BY <1>1, <1>2, ThreadMoves, Counts DEF OpenFile, Exact, One, Holding, Opened, TypeOK, Kinds
<1>4. fds' \in Nat /\ maps' \in Nat BY <1>3, Counts DEF Exact
<1>5. TypeOK' BY <1>1, <1>4 DEF OpenFile, TypeOK, Goto, Pick, Done, Steps, Opened, Kinds
<1>6. Owned'
  BY <1>1, ReadOnlyFilesAssumption
  DEF OpenFile, Owned, TypeOK, Goto, Pick, Done, Free, Constructing, Opened
<1> QED BY <1>3, <1>5, <1>6

LEMMA MmapCheckIInv ==
  ASSUME IInv, NEW t \in Threads, MmapCheck(t)
  PROVE  IInv'
<1> USE DEF IInv
<1>1. PICK to \in {"take_mmap", "check_fd"} : Goto(t, "check_mmap", to)
  BY DEF MmapCheck, AcquireCheck
<1>2. kind' = kind BY DEF MmapCheck, AcquireCheck
<1>3. Exact'
  BY <1>1, <1>2, ThreadMoves, Counts DEF MmapCheck, AcquireCheck, Exact, One, Holding, Opened, TypeOK, Kinds
<1>4. fds' \in Nat /\ maps' \in Nat BY <1>3, Counts DEF Exact
<1>5. TypeOK' BY <1>1, <1>4 DEF MmapCheck, AcquireCheck, TypeOK, Goto, Pick, Done, Steps, Opened, Kinds
<1>6. Owned'
  BY <1>1, ReadOnlyFilesAssumption
  DEF MmapCheck, AcquireCheck, Owned, TypeOK, Goto, Pick, Done, Free, Constructing, Opened
<1> QED BY <1>3, <1>5, <1>6

LEMMA MmapTakenIInv ==
  ASSUME IInv, NEW t \in Threads, MmapAcquire(t), pc'[t] = "map"
  PROVE  IInv'
<1> USE DEF IInv
<1>1. Goto(t, "take_mmap", "map") BY DEF MmapAcquire, AcquireLocked, Goto, TypeOK
<1>2. kind' = kind BY DEF MmapAcquire, AcquireLocked
<1>3. Exact'
  BY <1>1, <1>2, ThreadMoves, Counts DEF MmapAcquire, AcquireLocked, Exact, One, Holding, Opened, TypeOK, Kinds
<1>4. fds' \in Nat /\ maps' \in Nat BY <1>3, Counts DEF Exact
<1>5. TypeOK' BY <1>1, <1>4 DEF MmapAcquire, AcquireLocked, TypeOK, Goto, Pick, Done, Steps, Opened, Kinds
<1>6. Owned'
  BY <1>1, ReadOnlyFilesAssumption
  DEF MmapAcquire, AcquireLocked, Owned, TypeOK, Goto, Pick, Done, Free, Constructing, Opened
<1> QED BY <1>3, <1>5, <1>6

LEMMA MmapRefusedIInv ==
  ASSUME IInv, NEW t \in Threads, MmapAcquire(t), pc'[t] # "map"
  PROVE  IInv'
<1> USE DEF IInv
<1>1. Goto(t, "take_mmap", "check_fd") BY DEF MmapAcquire, AcquireLocked, Goto, TypeOK
<1>2. kind' = kind BY DEF MmapAcquire, AcquireLocked
<1>3. Exact'
  BY <1>1, <1>2, ThreadMoves, Counts DEF MmapAcquire, AcquireLocked, Exact, One, Holding, Opened, TypeOK, Kinds
<1>4. fds' \in Nat /\ maps' \in Nat BY <1>3, Counts DEF Exact
<1>5. TypeOK' BY <1>1, <1>4 DEF MmapAcquire, AcquireLocked, TypeOK, Goto, Pick, Done, Steps, Opened, Kinds
<1>6. Owned'
  BY <1>1, ReadOnlyFilesAssumption
  DEF MmapAcquire, AcquireLocked, Owned, TypeOK, Goto, Pick, Done, Free, Constructing, Opened
<1> QED BY <1>3, <1>5, <1>6

LEMMA MapDoneIInv ==
  ASSUME IInv, NEW t \in Threads, Map(t), pc'[t] = "close_mapped"
  PROVE  IInv'
<1> USE DEF IInv
<1>1. Goto(t, "map", "close_mapped") BY DEF Map, Goto, TypeOK
<1>2. kind' = kind BY DEF Map
<1>3. Exact'
  BY <1>1, <1>2, ThreadMoves, Counts DEF Map, Exact, One, Holding, Opened, TypeOK, Kinds
<1>4. fds' \in Nat /\ maps' \in Nat BY <1>3, Counts DEF Exact
<1>5. TypeOK' BY <1>1, <1>4 DEF Map, TypeOK, Goto, Pick, Done, Steps, Opened, Kinds
<1>6. Owned'
  BY <1>1, ReadOnlyFilesAssumption
  DEF Map, Owned, TypeOK, Goto, Pick, Done, Free, Constructing, Opened
<1> QED BY <1>3, <1>5, <1>6

LEMMA MapFailsIInv ==
  ASSUME IInv, NEW t \in Threads, Map(t), pc'[t] # "close_mapped"
  PROVE  IInv'
<1> USE DEF IInv
<1>1. Goto(t, "map", "close_failed") BY DEF Map, Goto, TypeOK
<1>2. kind' = kind BY DEF Map
<1>3. Exact'
  BY <1>1, <1>2, ThreadMoves, Counts DEF Map, Exact, One, Holding, Opened, TypeOK, Kinds
<1>4. fds' \in Nat /\ maps' \in Nat BY <1>3, Counts DEF Exact
<1>5. TypeOK' BY <1>1, <1>4 DEF Map, TypeOK, Goto, Pick, Done, Steps, Opened, Kinds
<1>6. Owned'
  BY <1>1, ReadOnlyFilesAssumption
  DEF Map, Owned, TypeOK, Goto, Pick, Done, Free, Constructing, Opened
<1> QED BY <1>3, <1>5, <1>6

LEMMA CloseMappedIInv ==
  ASSUME IInv, NEW t \in Threads, CloseMapped(t)
  PROVE  IInv'
<1> USE DEF IInv
<1>1. file[t] \in Files /\ kind[file[t]] = "none" BY DEF CloseMapped, Goto, Owned, Constructing, Opened
<1>2. Goto(t, "close_mapped", "idle") BY DEF CloseMapped
<1>3. kind'[file[t]] = "mmap" /\ \A x \in Files \ {file[t]} : kind'[x] = kind[x]
  BY <1>1 DEF CloseMapped, TypeOK
<1>4. MmapObjs(kind') = MmapObjs(kind) + 1 /\ FdObjs(kind') = FdObjs(kind)
  BY <1>1, <1>3, ObjectBecomes, Counts DEF One
<1>5. Exact'
  BY <1>2, <1>4, ThreadMoves, Counts DEF CloseMapped, Exact, One, Holding, Opened, TypeOK, Kinds
<1>6. fds' \in Nat /\ maps' \in Nat BY <1>5, Counts DEF Exact
<1>7. TypeOK' BY <1>1, <1>2, <1>6 DEF CloseMapped, TypeOK, Goto, Pick, Done, Steps, Opened, Kinds
<1>8. Owned'
  BY <1>1, <1>2, ReadOnlyFilesAssumption
  DEF CloseMapped, Owned, TypeOK, Goto, Pick, Done, Free, Constructing, Opened
<1> QED BY <1>5, <1>7, <1>8

LEMMA CloseFailedIInv ==
  ASSUME IInv, NEW t \in Threads, CloseFailed(t)
  PROVE  IInv'
<1> USE DEF IInv
<1>1. Goto(t, "close_failed", "release_mmap") BY DEF CloseFailed
<1>2. kind' = kind BY DEF CloseFailed
<1>3. Exact'
  BY <1>1, <1>2, ThreadMoves, Counts DEF CloseFailed, Exact, One, Holding, Opened, TypeOK, Kinds
<1>4. fds' \in Nat /\ maps' \in Nat BY <1>3, Counts DEF Exact
<1>5. TypeOK' BY <1>1, <1>4 DEF CloseFailed, TypeOK, Goto, Pick, Done, Steps, Opened, Kinds
<1>6. Owned'
  BY <1>1, ReadOnlyFilesAssumption
  DEF CloseFailed, Owned, TypeOK, Goto, Pick, Done, Free, Constructing, Opened
<1> QED BY <1>3, <1>5, <1>6

LEMMA FdCheckIInv ==
  ASSUME IInv, NEW t \in Threads, FdCheck(t)
  PROVE  IInv'
<1> USE DEF IInv
<1>1. PICK to \in {"take_fd", "close_temp"} : Goto(t, "check_fd", to)
  BY DEF FdCheck, AcquireCheck
<1>2. kind' = kind BY DEF FdCheck, AcquireCheck
<1>3. Exact'
  BY <1>1, <1>2, ThreadMoves, Counts DEF FdCheck, AcquireCheck, Exact, One, Holding, Opened, TypeOK, Kinds
<1>4. fds' \in Nat /\ maps' \in Nat BY <1>3, Counts DEF Exact
<1>5. TypeOK' BY <1>1, <1>4 DEF FdCheck, AcquireCheck, TypeOK, Goto, Pick, Done, Steps, Opened, Kinds
<1>6. Owned'
  BY <1>1, ReadOnlyFilesAssumption
  DEF FdCheck, AcquireCheck, Owned, TypeOK, Goto, Pick, Done, Free, Constructing, Opened
<1> QED BY <1>3, <1>5, <1>6

LEMMA FdTakenIInv ==
  ASSUME IInv, NEW t \in Threads, FdAcquire(t), pc'[t] = "idle"
  PROVE  IInv'
<1> USE DEF IInv
<1>1. file[t] \in Files /\ kind[file[t]] = "none" BY DEF FdAcquire, AcquireLocked, Goto, Owned, Constructing, Opened
<1>2. Goto(t, "take_fd", "idle") BY DEF FdAcquire, AcquireLocked, Goto, TypeOK
<1>3. kind'[file[t]] = "fd" /\ \A x \in Files \ {file[t]} : kind'[x] = kind[x]
  BY <1>1 DEF FdAcquire, AcquireLocked, TypeOK
<1>4. MmapObjs(kind') = MmapObjs(kind) /\ FdObjs(kind') = FdObjs(kind) + 1
  BY <1>1, <1>3, ObjectBecomes, Counts DEF One
<1>5. Exact'
  BY <1>2, <1>4, ThreadMoves, Counts DEF FdAcquire, AcquireLocked, Exact, One, Holding, Opened, TypeOK, Kinds
<1>6. fds' \in Nat /\ maps' \in Nat BY <1>5, Counts DEF Exact
<1>7. TypeOK' BY <1>1, <1>2, <1>6 DEF FdAcquire, AcquireLocked, TypeOK, Goto, Pick, Done, Steps, Opened, Kinds
<1>8. Owned'
  BY <1>1, <1>2, ReadOnlyFilesAssumption
  DEF FdAcquire, AcquireLocked, Owned, TypeOK, Goto, Pick, Done, Free, Constructing, Opened
<1> QED BY <1>5, <1>7, <1>8

LEMMA FdRefusedIInv ==
  ASSUME IInv, NEW t \in Threads, FdAcquire(t), pc'[t] # "idle"
  PROVE  IInv'
<1> USE DEF IInv
<1>1. Goto(t, "take_fd", "close_temp") BY DEF FdAcquire, AcquireLocked, Goto, TypeOK
<1>2. kind' = kind BY DEF FdAcquire, AcquireLocked
<1>3. Exact'
  BY <1>1, <1>2, ThreadMoves, Counts DEF FdAcquire, AcquireLocked, Exact, One, Holding, Opened, TypeOK, Kinds
<1>4. fds' \in Nat /\ maps' \in Nat BY <1>3, Counts DEF Exact
<1>5. TypeOK' BY <1>1, <1>4 DEF FdAcquire, AcquireLocked, TypeOK, Goto, Pick, Done, Steps, Opened, Kinds
<1>6. Owned'
  BY <1>1, ReadOnlyFilesAssumption
  DEF FdAcquire, AcquireLocked, Owned, TypeOK, Goto, Pick, Done, Free, Constructing, Opened
<1> QED BY <1>3, <1>5, <1>6

LEMMA CloseTempIInv ==
  ASSUME IInv, NEW t \in Threads, CloseTemp(t)
  PROVE  IInv'
<1> USE DEF IInv
<1>1. file[t] \in Files /\ kind[file[t]] = "none" BY DEF CloseTemp, Goto, Owned, Constructing, Opened
<1>2. Goto(t, "close_temp", "idle") BY DEF CloseTemp
<1>3. kind'[file[t]] = "temp" /\ \A x \in Files \ {file[t]} : kind'[x] = kind[x]
  BY <1>1 DEF CloseTemp, TypeOK
<1>4. MmapObjs(kind') = MmapObjs(kind) /\ FdObjs(kind') = FdObjs(kind)
  BY <1>1, <1>3, ObjectBecomes, Counts DEF One
<1>5. Exact'
  BY <1>2, <1>4, ThreadMoves, Counts DEF CloseTemp, Exact, One, Holding, Opened, TypeOK, Kinds
<1>6. fds' \in Nat /\ maps' \in Nat BY <1>5, Counts DEF Exact
<1>7. TypeOK' BY <1>1, <1>2, <1>6 DEF CloseTemp, TypeOK, Goto, Pick, Done, Steps, Opened, Kinds
<1>8. Owned'
  BY <1>1, <1>2, ReadOnlyFilesAssumption
  DEF CloseTemp, Owned, TypeOK, Goto, Pick, Done, Free, Constructing, Opened
<1> QED BY <1>5, <1>7, <1>8

LEMMA ReadOpenIInv ==
  ASSUME IInv, NEW t \in Threads, NEW f \in Files, ReadOpen(t, f)
  PROVE  IInv'
<1> USE DEF IInv
<1>1. Goto(t, "idle", "reading") BY DEF ReadOpen
<1>2. kind' = kind BY DEF ReadOpen
<1>3. Exact'
  BY <1>1, <1>2, ThreadMoves, Counts DEF ReadOpen, Exact, One, Holding, Opened, TypeOK, Kinds
<1>4. fds' \in Nat /\ maps' \in Nat BY <1>3, Counts DEF Exact
<1>5. TypeOK' BY <1>1, <1>4 DEF ReadOpen, TypeOK, Goto, Pick, Done, Steps, Opened, Kinds
<1>6. Owned'
  BY <1>1, ReadOnlyFilesAssumption
  DEF ReadOpen, Owned, TypeOK, Goto, Pick, Done, Free, Constructing, Opened
<1> QED BY <1>3, <1>5, <1>6

LEMMA ReadCloseIInv ==
  ASSUME IInv, NEW t \in Threads, ReadClose(t)
  PROVE  IInv'
<1> USE DEF IInv
<1>1. Goto(t, "reading", "idle") BY DEF ReadClose
<1>2. kind' = kind BY DEF ReadClose
<1>3. Exact'
  BY <1>1, <1>2, ThreadMoves, Counts DEF ReadClose, Exact, One, Holding, Opened, TypeOK, Kinds
<1>4. fds' \in Nat /\ maps' \in Nat BY <1>3, Counts DEF Exact
<1>5. TypeOK' BY <1>1, <1>4 DEF ReadClose, TypeOK, Goto, Pick, Done, Steps, Opened, Kinds
<1>6. Owned'
  BY <1>1, ReadOnlyFilesAssumption
  DEF ReadClose, Owned, TypeOK, Goto, Pick, Done, Free, Constructing, Opened
<1> QED BY <1>3, <1>5, <1>6

LEMMA ReleaseMmapIInv ==
  ASSUME IInv, NEW t \in Threads, Release(t, "mmap", "release_mmap")
  PROVE  IInv'
<1> USE DEF IInv
<1>1. Goto(t, "release_mmap", "idle") BY DEF Release
<1>2. kind' = kind BY DEF Release
<1>3. Exact'
  BY <1>1, <1>2, ThreadMoves, Counts DEF Release, Exact, One, Holding, Opened, TypeOK, Kinds
<1>4. fds' \in Nat /\ maps' \in Nat BY <1>3, Counts DEF Exact
<1>5. TypeOK' BY <1>1, <1>4 DEF Release, TypeOK, Goto, Pick, Done, Steps, Opened, Kinds
<1>6. Owned'
  BY <1>1, ReadOnlyFilesAssumption
  DEF Release, Owned, TypeOK, Goto, Pick, Done, Free, Constructing, Opened
<1> QED BY <1>3, <1>5, <1>6

LEMMA ReleaseFdIInv ==
  ASSUME IInv, NEW t \in Threads, Release(t, "fd", "release_fd")
  PROVE  IInv'
<1> USE DEF IInv
<1>1. Goto(t, "release_fd", "idle") BY DEF Release
<1>2. kind' = kind BY DEF Release
<1>3. Exact'
  BY <1>1, <1>2, ThreadMoves, Counts DEF Release, Exact, One, Holding, Opened, TypeOK, Kinds
<1>4. fds' \in Nat /\ maps' \in Nat BY <1>3, Counts DEF Exact
<1>5. TypeOK' BY <1>1, <1>4 DEF Release, TypeOK, Goto, Pick, Done, Steps, Opened, Kinds
<1>6. Owned'
  BY <1>1, ReadOnlyFilesAssumption
  DEF Release, Owned, TypeOK, Goto, Pick, Done, Free, Constructing, Opened
<1> QED BY <1>3, <1>5, <1>6

LEMMA DeleteMappedIInv ==
  ASSUME IInv, NEW t \in Threads, NEW f \in Files, Delete(t, f), DeleteMapped(t, f)
  PROVE  IInv'
<1> USE DEF IInv
<1>1. kind[f] = "mmap" BY DEF Delete, DeleteMapped
<1>2. Goto(t, "idle", "release_mmap") BY DEF Delete, DeleteMapped
<1>3. kind'[f] = "none" /\ \A x \in Files \ {f} : kind'[x] = kind[x]
  BY <1>1 DEF Delete, DeleteMapped, TypeOK
<1>4. MmapObjs(kind') = MmapObjs(kind) - 1 /\ FdObjs(kind') = FdObjs(kind)
  BY <1>1, <1>3, ObjectBecomes, Counts DEF One
<1>5. Exact'
  BY <1>2, <1>4, ThreadMoves, Counts DEF Delete, DeleteMapped, Exact, One, Holding, Opened, TypeOK, Kinds
<1>6. fds' \in Nat /\ maps' \in Nat BY <1>5, Counts DEF Exact
<1>7. TypeOK' BY <1>1, <1>2, <1>6 DEF Delete, DeleteMapped, TypeOK, Goto, Pick, Done, Steps, Opened, Kinds
<1>8. Owned'
  BY <1>1, <1>2, ReadOnlyFilesAssumption
  DEF Delete, DeleteMapped, Owned, TypeOK, Goto, Pick, Done, Free, Constructing, Opened
<1> QED BY <1>5, <1>7, <1>8

LEMMA DeleteFdIInv ==
  ASSUME IInv, NEW t \in Threads, NEW f \in Files, Delete(t, f), DeleteFd(t, f)
  PROVE  IInv'
<1> USE DEF IInv
<1>1. kind[f] = "fd" BY DEF Delete, DeleteFd
<1>2. Goto(t, "idle", "release_fd") BY DEF Delete, DeleteFd
<1>3. kind'[f] = "none" /\ \A x \in Files \ {f} : kind'[x] = kind[x]
  BY <1>1 DEF Delete, DeleteFd, TypeOK
<1>4. MmapObjs(kind') = MmapObjs(kind) /\ FdObjs(kind') = FdObjs(kind) - 1
  BY <1>1, <1>3, ObjectBecomes, Counts DEF One
<1>5. Exact'
  BY <1>2, <1>4, ThreadMoves, Counts DEF Delete, DeleteFd, Exact, One, Holding, Opened, TypeOK, Kinds
<1>6. fds' \in Nat /\ maps' \in Nat BY <1>5, Counts DEF Exact
<1>7. TypeOK' BY <1>1, <1>2, <1>6 DEF Delete, DeleteFd, TypeOK, Goto, Pick, Done, Steps, Opened, Kinds
<1>8. Owned'
  BY <1>1, <1>2, ReadOnlyFilesAssumption
  DEF Delete, DeleteFd, Owned, TypeOK, Goto, Pick, Done, Free, Constructing, Opened
<1> QED BY <1>5, <1>7, <1>8

LEMMA DeleteTempIInv ==
  ASSUME IInv, NEW t \in Threads, NEW f \in Files, Delete(t, f), DeleteTemp(t, f)
  PROVE  IInv'
<1> USE DEF IInv
<1>1. kind[f] = "temp" BY DEF Delete, DeleteTemp
<1>2. pc' = pc BY DEF Delete, DeleteTemp
<1>3. kind'[f] = "none" /\ \A x \in Files \ {f} : kind'[x] = kind[x]
  BY <1>1 DEF Delete, DeleteTemp, TypeOK
<1>4. MmapObjs(kind') = MmapObjs(kind) /\ FdObjs(kind') = FdObjs(kind)
  BY <1>1, <1>3, ObjectBecomes, Counts DEF One
<1>5. Exact'
  BY <1>2, <1>4, Counts DEF Delete, DeleteTemp, Exact, One, Holding, Opened, TypeOK, Kinds
<1>6. fds' \in Nat /\ maps' \in Nat BY <1>5, Counts DEF Exact
<1>7. TypeOK' BY <1>1, <1>2, <1>6 DEF Delete, DeleteTemp, TypeOK, Goto, Pick, Done, Steps, Opened, Kinds
<1>8. Owned'
  BY <1>1, <1>2, ReadOnlyFilesAssumption
  DEF Delete, DeleteTemp, Owned, TypeOK, Goto, Pick, Done, Free, Constructing, Opened
<1> QED BY <1>5, <1>7, <1>8

LEMMA StutterIInv == IInv /\ UNCHANGED vars => IInv'
BY DEF vars, IInv, TypeOK, Owned, Exact

(* The invariant holds in every reachable state.                             *)
THEOREM Invariance == Spec => []IInv
<1>1. IInv /\ [Next]_vars => IInv'
  <2> SUFFICES ASSUME IInv, [Next]_vars PROVE IInv' OBVIOUS
  <2>1. ASSUME NEW t \in Threads, Step(t) PROVE IInv'
    <3>1. CASE MmapCheck(t) \/ MmapAcquire(t) \/ Map(t)
      BY <3>1, MmapCheckIInv, MmapTakenIInv, MmapRefusedIInv, MapDoneIInv, MapFailsIInv
    <3>2. CASE CloseMapped(t) \/ CloseFailed(t) BY <3>2, CloseMappedIInv, CloseFailedIInv
    <3>3. CASE FdCheck(t) \/ FdAcquire(t) \/ CloseTemp(t)
      BY <3>3, FdCheckIInv, FdTakenIInv, FdRefusedIInv, CloseTempIInv
    <3>4. CASE ReadClose(t) BY <3>4, ReadCloseIInv
    <3>5. CASE Release(t, "mmap", "release_mmap") \/ Release(t, "fd", "release_fd")
      BY <3>5, ReleaseMmapIInv, ReleaseFdIInv
    <3> QED BY <2>1, <3>1, <3>2, <3>3, <3>4, <3>5 DEF Step
  <2>2. ASSUME NEW t \in Threads, NEW f \in Files, OpenFile(t, f) \/ ReadOpen(t, f) \/ Delete(t, f)
        PROVE  IInv'
    BY <2>2, OpenFileIInv, ReadOpenIInv, DeleteMappedIInv, DeleteFdIInv, DeleteTempIInv DEF Delete
  <2>3. CASE UNCHANGED vars BY <2>3, StutterIInv
  <2> QED BY <2>1, <2>2, <2>3 DEF Next
<1> QED BY InitIInv, <1>1, PTL DEF Spec

LEMMA SameCounts ==
  /\ Count("mmap") = MmapObjs(kind) + MmapHolders(pc)
  /\ Count("fd") = FdObjs(kind) + FdHolders(pc)
<1>1. \A l : {f \in Files : kind[f] = l} = {f \in Files : kind[f] \in {l}} OBVIOUS
<1> QED BY <1>1 DEF Count, MmapObjs, FdObjs, MmapHolders, FdHolders, CountIn, Holding

(* However the threads interleave and whatever fails between Acquire and     *)
(* Release, what is left of a Limiter and what is in use make up its limit.  *)
THEOREM ConservedHolds == Spec => []Conserved
<1>1. IInv => Conserved
  <2> SUFFICES ASSUME IInv PROVE Conserved OBVIOUS
  <2>1. allowed["mmap"] \in Nat /\ allowed["fd"] \in Nat BY DEF IInv, TypeOK, Kinds
  <2>2. allowed["mmap"] + Count("mmap") = MaxMmaps /\ allowed["fd"] + Count("fd") = MaxOpenFiles
    BY <2>1, SameCounts, Counts DEF IInv, Exact
  <2> QED BY <2>2 DEF Conserved, Kinds, Limits
<1> QED BY <1>1, Invariance, PTL

(* The mappings and descriptors stay within the limits, but for the one      *)
(* descriptor a thread has open during a call.                               *)
THEOREM WithinLimitsHolds == Spec => []WithinLimits
<1>1. IInv => WithinLimits
  <2> SUFFICES ASSUME IInv PROVE WithinLimits OBVIOUS
  <2>1. allowed["mmap"] \in Nat /\ allowed["fd"] \in Nat BY DEF IInv, TypeOK, Kinds
  <2>2. Mapped(pc) <= MmapHolders(pc)
    <3>1. {"close_mapped"} \subseteq Holding.mmap BY DEF Holding
    <3> QED BY <3>1, CountMonotone, ReadOnlyFilesAssumption DEF Mapped, MmapHolders
  <2>3. maps <= MaxMmaps BY <2>1, <2>2, Counts, ReadOnlyFilesAssumption DEF IInv, Exact
  <2>4. fds <= MaxOpenFiles + Openers(pc) BY <2>1, Counts, ReadOnlyFilesAssumption DEF IInv, Exact
  <2> QED BY <2>3, <2>4 DEF WithinLimits, Openers, CountIn
<1> QED BY <1>1, Invariance, PTL
=============================================================================
