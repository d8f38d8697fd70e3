---------------------------- MODULE PMemKVProofs ----------------------------
(***************************************************************************)
(* Proofs about PMemKV, for any number of processes, threads, keys and     *)
(* values: its count agrees with its keys, and it implements PMKVStore.    *)
(*                                                                         *)
(* The invariant says who may be in an update (Exclusive), what the map    *)
(* and the log hold meanwhile (Logged), and of which keys the element      *)
(* count is the number (Sized).  The log makes the map that recovery would *)
(* leave a function of the state (KeyByKey): only a commit changes it.     *)
(***************************************************************************)
EXTENDS PMemKV, FiniteSetTheorems, TLAPS

-----------------------------------------------------------------------------
(* Finite sets. *)

(* The values of a function are no more than its arguments. *)
LEMMA ImageSize ==
  ASSUME NEW U, IsFiniteSet(U), NEW V, NEW f \in [U -> V], NEW A,
         \A a \in A : \E u \in U : f[u] = a
  PROVE  IsFiniteSet(A) /\ Cardinality(A) <= Cardinality(U)
<1> DEFINE B == {f[u] : u \in U}
<1>1. IsFiniteSet(B) /\ Cardinality(B) <= Cardinality(U)
  <2>1. f \in Surjection(U, B) BY DEF Surjection
  <2> QED BY <2>1, FS_Surjection
<1>2. A \in SUBSET B OBVIOUS
<1>3. IsFiniteSet(A) /\ Cardinality(A) <= Cardinality(B) BY <1>1, <1>2, FS_Subset
<1>4. Cardinality(A) \in Nat /\ Cardinality(B) \in Nat /\ Cardinality(U) \in Nat
  BY <1>1, <1>3, FS_CardinalityType
<1> QED BY <1>1, <1>3, <1>4

(* A set is no larger than another by more than it has beside it. *)
LEMMA Exceeds ==
  ASSUME NEW A, NEW B, IsFiniteSet(A), IsFiniteSet(B)
  PROVE  Cardinality(A) <= Cardinality(B) + Cardinality(A \ B)
<1>1. /\ IsFiniteSet(A \ B) /\ Cardinality(A \ B) = Cardinality(A) - Cardinality(A \cap B)
  BY FS_Difference
<1>2. A \cap B \in SUBSET B OBVIOUS
<1>3. IsFiniteSet(A \cap B) /\ Cardinality(A \cap B) <= Cardinality(B) BY <1>2, FS_Subset
<1>4. Cardinality(A) \in Nat /\ Cardinality(B) \in Nat /\ Cardinality(A \cap B) \in Nat
  BY <1>3, FS_CardinalityType
<1> QED BY <1>1, <1>3, <1>4

(* Two sets that differ by values of a function on U. *)
LEMMA Within ==
  ASSUME NEW A, NEW B, IsFiniteSet(A), IsFiniteSet(B),
         NEW U, IsFiniteSet(U), NEW V, NEW f \in [U -> V],
         \A a \in A \ B : \E u \in U : f[u] = a,
         \A b \in B \ A : \E u \in U : f[u] = b
  PROVE  Cardinality(A) - Cardinality(B) \in -Cardinality(U) .. Cardinality(U)
<1>1. IsFiniteSet(A \ B) /\ Cardinality(A \ B) <= Cardinality(U) BY ImageSize
<1>2. IsFiniteSet(B \ A) /\ Cardinality(B \ A) <= Cardinality(U) BY ImageSize
<1>3. Cardinality(A) <= Cardinality(B) + Cardinality(A \ B) BY Exceeds
<1>4. Cardinality(B) <= Cardinality(A) + Cardinality(B \ A) BY Exceeds
<1>5. /\ Cardinality(A) \in Nat /\ Cardinality(B) \in Nat /\ Cardinality(U) \in Nat
      /\ Cardinality(A \ B) \in Nat /\ Cardinality(B \ A) \in Nat
  BY <1>1, <1>2, FS_CardinalityType
<1> QED BY <1>1, <1>2, <1>3, <1>4, <1>5

-----------------------------------------------------------------------------
(* The invariant. *)

Logs == [key : Keys, old : Values \cup {None}]

Types ==
  /\ file \in BOOLEAN
  /\ entry \in [Keys -> Values \cup {None}]
  /\ undo \in [Threads -> Logs \cup {None}]
  /\ handle \in [Procs -> BOOLEAN]
  /\ stage \in [Threads -> {"idle", "called", "written", "counted", "done"}]
  /\ call \in [Threads -> Store!Calls \cup {None}]
  /\ ret \in [Threads -> [code : Store!Codes, out : Values \cup {None} \cup Int] \cup {None}]
  /\ size \in Int

(* No two threads update one key, no two processes have the pool open, and   *)
(* only threads of the one that has are in a call.                           *)
Exclusive ==
  /\ \A t, u \in Threads :
       undo[t] # None /\ undo[u] # None /\ undo[t].key = undo[u].key => t = u
  /\ \A p, q \in Procs : handle[p] /\ handle[q] => p = q
  /\ \A t \in Threads : stage[t] # "idle" => handle[ProcOf[t]]

InCall(t) == stage[t] # "idle" => call[t] \in Store!Calls

(* An update under way is in the map and its key's old value in the log;     *)
(* while the pool is open, no other log is.                                  *)
Updates(t) ==
  /\ stage[t] \in {"written", "counted"} =>
       /\ undo[t] # None /\ undo[t].key = call[t].key
       /\ \/ call[t].op = "put" /\ entry[call[t].key] = call[t].val
          \/ call[t].op = "delete" /\ entry[call[t].key] = None /\ undo[t].old # None
  /\ undo[t] # None /\ (\E p \in Procs : handle[p]) => stage[t] \in {"written", "counted"}

Logged == \A t \in Threads : InCall(t) /\ Updates(t)

(* The keys the element count stands for: an update that is not counted yet  *)
(* still counts as what it replaces.                                         *)
Uncounted(t, k) == stage[t] = "written" /\ undo[t].key = k
Tallied ==
  {k \in Keys : \/ \E t \in Threads : Uncounted(t, k) /\ undo[t].old # None
                \/ entry[k] # None /\ \A t \in Threads : ~Uncounted(t, k)}

Sized == (\E p \in Procs : handle[p]) => size = Cardinality(Tallied)

IInv == Types /\ Exclusive /\ Logged /\ Sized

(* What recovery would leave, key by key. *)
KeyByKey ==
  /\ Committed \in [Keys -> Values \cup {None}]
  /\ \A k \in Keys : ~Locked(k) => Committed[k] = entry[k]
  /\ \A t \in Threads : undo[t] # None => /\ undo[t].key \in Keys
                                          /\ Committed[undo[t].key] = undo[t].old

LEMMA CommittedIs == Types /\ Exclusive => KeyByKey
<1> SUFFICES ASSUME Types, Exclusive PROVE KeyByKey OBVIOUS
<1>1. ASSUME NEW t \in Threads, undo[t] # None
      PROVE  undo[t] \in Logs /\ undo[t].key \in Keys /\ undo[t].old \in Values \cup {None}
  BY <1>1 DEF Types, Logs
<1>2. ASSUME NEW t \in Threads, undo[t] # None
      PROVE  Committed[undo[t].key] = undo[t].old
  <2> DEFINE k == undo[t].key
             P(u) == undo[u] # None /\ undo[u].key = k
             w == CHOOSE u \in Threads : P(u)
  <2>1. k \in Keys BY <1>1, <1>2
  <2>2. P(t) BY <1>2
  <2>3. w \in Threads /\ P(w) BY <2>2
  <2>4. w = t BY <1>2, <2>3 DEF Exclusive
  <2>5. Locked(k) BY <2>2 DEF Locked
  <2>6. Committed[k] = undo[w].old BY <2>1, <2>5 DEF Committed
  <2> QED BY <2>4, <2>6
<1>3. ASSUME NEW k \in Keys PROVE (~Locked(k) => Committed[k] = entry[k])
  BY DEF Committed
<1>4. ASSUME NEW k \in Keys PROVE Committed[k] \in Values \cup {None}
  <2>1. CASE ~Locked(k) BY <1>3, <2>1 DEF Types
  <2>2. CASE Locked(k)
    <3>1. PICK t \in Threads : undo[t] # None /\ undo[t].key = k BY <2>2 DEF Locked
    <3> QED BY <1>1, <1>2, <3>1
  <2> QED BY <2>1, <2>2
<1>5. Committed = [k \in Keys |-> Committed[k]] BY DEF Committed
<1>6. Committed \in [Keys -> Values \cup {None}] BY <1>4, <1>5
<1> QED BY <1>1, <1>2, <1>3, <1>6 DEF KeyByKey

(* And in the next state. *)
LEMMA CommittedIsNext == Types' /\ Exclusive' => KeyByKey'
BY CommittedIs, PTL

(* The keys counted are finitely many. *)
LEMMA TalliedFinite == IsFiniteSet(Tallied)
<1>1. Tallied \in SUBSET Keys BY DEF Tallied
<1> QED BY <1>1, PMemKVAssumption, FS_Subset

(* The invariant holds at the start. *)
LEMMA StartsRight == Init => IInv
<1> SUFFICES ASSUME Init PROVE IInv OBVIOUS
<1>1. Types
  <2>1. entry \in [Keys -> Values \cup {None}] BY DEF Init, NewMap
  <2>2. undo \in [Threads -> Logs \cup {None}] BY DEF Init, NoUndo
  <2>3. size \in Int BY DEF Init
  <2>4. ret \in [Threads -> [code : Store!Codes, out : Values \cup {None} \cup Int] \cup {None}]
    BY DEF Init
  <2>5. /\ call \in [Threads -> Store!Calls \cup {None}] /\ handle \in [Procs -> BOOLEAN]
        /\ stage \in [Threads -> {"idle", "called", "written", "counted", "done"}]
    BY DEF Init
  <2> QED BY <2>1, <2>2, <2>3, <2>4, <2>5 DEF Init, Types
<1>2. Exclusive BY DEF Init, Exclusive, NoUndo
<1>3. Logged BY PMemKVAssumption DEF Init, Logged, InCall, Updates, NoUndo
<1>4. Sized BY DEF Init, Sized
<1> QED BY <1>1, <1>2, <1>3, <1>4 DEF IInv

-----------------------------------------------------------------------------
(* Each action keeps it. *)

(* With nothing open nothing is under way. *)
LEMMA AllIdle ==
  IInv /\ (\A p \in Procs : ~handle[p]) => \A t \in Threads : stage[t] = "idle"
BY PMemKVAssumption DEF IInv, Types, Exclusive

(* A pool without logs, counted. *)
LEMMA CountedAfresh ==
  ASSUME \A t \in Threads : stage[t] = "idle"
  PROVE  Tallied = {k \in Keys : entry[k] # None}
BY DEF Tallied, Uncounted

(* pmkv_open, by a new pool or by recovery. *)
LEMMA OpenKeeps ==
  ASSUME NEW p \in Procs, NEW force_create \in BOOLEAN, IInv, pmkv_open(p, force_create)
  PROVE  IInv'
<1>1. \A q \in Procs : ~handle[q] BY DEF pmkv_open, CanOpen
<1>2. \A t \in Threads : stage[t] = "idle" BY <1>1, AllIdle
<1>3. UNCHANGED <<stage, call, ret>> /\ handle' = [handle EXCEPT ![p] = TRUE]
  BY DEF pmkv_open, calls
<1>4. Committed \in [Keys -> Values \cup {None}] BY CommittedIs DEF IInv, KeyByKey
<1>5. /\ file' \in BOOLEAN /\ undo' = NoUndo
      /\ \/ entry' = Committed /\ size' = Cardinality({k \in Keys : Committed[k] # None})
         \/ entry' = NewMap /\ size' = 0
  BY DEF pmkv_open, EngineCreate, EngineRecover, IInv, Types
<1>6. entry' \in [Keys -> Values \cup {None}] BY <1>4, <1>5 DEF NewMap
<1>7. size' = Cardinality({k \in Keys : entry'[k] # None})
  <2>1. CASE entry' = Committed /\ size' = Cardinality({k \in Keys : Committed[k] # None})
    BY <2>1
  <2>2. CASE entry' = NewMap /\ size' = 0
    <3>1. {k \in Keys : entry'[k] # None} = {} BY <2>2 DEF NewMap
    <3> QED BY <2>2, <3>1, FS_EmptySet
  <2> QED BY <1>5, <2>1, <2>2
<1>8. Tallied' = {k \in Keys : entry'[k] # None} BY <1>2, <1>3 DEF Tallied, Uncounted
<1>9. size' \in Int
  <2>1. IsFiniteSet(Tallied') BY <1>8, FS_Subset, PMemKVAssumption
  <2> QED BY <1>7, <1>8, <2>1, FS_CardinalityType
<1>10. Types' BY <1>3, <1>5, <1>6, <1>9 DEF IInv, Types, NoUndo
<1>11. Exclusive' BY <1>1, <1>2, <1>3, <1>5 DEF IInv, Types, Exclusive, NoUndo
<1>12. Logged' BY <1>2, <1>3, <1>5 DEF Logged, InCall, Updates, NoUndo
<1>13. Sized' BY <1>7, <1>8 DEF Sized
<1> QED BY <1>10, <1>11, <1>12, <1>13 DEF IInv

(* pmkv_close. *)
LEMMA CloseKeeps == ASSUME NEW p \in Procs, IInv, pmkv_close(p) PROVE IInv'
<1>1. /\ handle[p] /\ handle' = [handle EXCEPT ![p] = FALSE]
      /\ UNCHANGED <<file, entry, size, undo, stage, call, ret>>
      /\ \A t \in Threads : ProcOf[t] = p => stage[t] = "idle"
  BY DEF pmkv_close, pool, calls, Quiet
<1>2. \A q \in Procs : ~handle'[q] BY <1>1 DEF IInv, Types, Exclusive
<1>3. Types' BY <1>1 DEF IInv, Types
<1>4. Exclusive'
  <2>1. \A t \in Threads : ProcOf[t] \in Procs BY PMemKVAssumption
  <2> QED BY <1>1, <1>2, <2>1 DEF IInv, Types, Exclusive
<1>5. Logged' BY <1>1, <1>2 DEF IInv, Logged, InCall, Updates
<1>6. Sized' BY <1>2 DEF Sized
<1> QED BY <1>3, <1>4, <1>5, <1>6 DEF IInv

(* The removal of the file. *)
LEMMA RemoveKeeps == IInv /\ RemoveFile => IInv'
<1> SUFFICES ASSUME IInv, RemoveFile PROVE IInv' OBVIOUS
<1>1. /\ \A q \in Procs : ~handle[q]
      /\ entry' = NewMap /\ undo' = NoUndo /\ size' = 0 /\ file' = FALSE
      /\ UNCHANGED <<handle, stage, call, ret>>
  BY DEF RemoveFile, calls
<1>2. Types'
  <2>1. (entry \in [Keys -> Values \cup {None}])' BY <1>1 DEF NewMap
  <2>2. (undo \in [Threads -> Logs \cup {None}])' BY <1>1 DEF NoUndo
  <2>3. size' \in Int BY <1>1
  <2> QED BY <1>1, <2>1, <2>2, <2>3 DEF IInv, Types
<1>3. Exclusive' BY <1>1 DEF IInv, Exclusive, NoUndo
<1>4. Logged' BY <1>1, AllIdle DEF Logged, InCall, Updates, NoUndo
<1>5. Sized' BY <1>1 DEF Sized
<1> QED BY <1>2, <1>3, <1>4, <1>5 DEF IInv

(* The death of the process. *)
LEMMA CrashKeeps == ASSUME NEW p \in Procs, IInv, Crash(p) PROVE IInv'
<1>1. /\ handle[p] /\ handle' = [handle EXCEPT ![p] = FALSE]
      /\ UNCHANGED <<file, entry, size, undo>>
  BY DEF Crash, pool
<1>2. /\ stage' = [t \in Threads |-> IF ProcOf[t] = p THEN "idle" ELSE stage[t]]
      /\ call' = [t \in Threads |-> IF ProcOf[t] = p THEN None ELSE call[t]]
      /\ ret' = [t \in Threads |-> IF ProcOf[t] = p THEN None ELSE ret[t]]
  BY DEF Crash
<1>3. \A q \in Procs : ~handle'[q] BY <1>1 DEF IInv, Types, Exclusive
<1>4. \A t \in Threads : stage'[t] = "idle"
  <2>1. \A t \in Threads : ProcOf[t] \in Procs BY PMemKVAssumption
  <2> QED BY <1>1, <1>2, <2>1 DEF IInv, Exclusive
<1>5. Types'
  <2>1. stage' \in [Threads -> {"idle", "called", "written", "counted", "done"}]
    BY <1>2 DEF IInv, Types
  <2>2. call' \in [Threads -> Store!Calls \cup {None}] BY <1>2 DEF IInv, Types
  <2>3. ret' \in [Threads -> [code : Store!Codes, out : Values \cup {None} \cup Int] \cup {None}]
    BY <1>2 DEF IInv, Types
  <2> QED BY <1>1, <2>1, <2>2, <2>3 DEF IInv, Types
<1>6. Exclusive' BY <1>1, <1>3, <1>4 DEF IInv, Exclusive
<1>7. Logged' BY <1>3, <1>4 DEF Logged, InCall, Updates
<1>8. Sized' BY <1>3 DEF Sized
<1> QED BY <1>5, <1>6, <1>7, <1>8 DEF IInv

(* A step of t that moves only its stage, call and result, outside updates.  *)
Elsewhere(t) ==
  /\ \A u \in Threads \ {t} : stage'[u] = stage[u] /\ call'[u] = call[u]
  /\ stage[t] \notin {"written", "counted"} /\ stage'[t] \notin {"written", "counted"}
  /\ stage'[t] # "idle" => handle[ProcOf[t]] /\ call'[t] \in Store!Calls
  /\ UNCHANGED <<file, entry, undo, size, handle>>

(* Such a step keeps the invariant. *)
LEMMA ElsewhereKeeps ==
  ASSUME NEW t \in Threads, IInv, Elsewhere(t), Types'
  PROVE  IInv'
<1>1. UNCHANGED <<file, entry, undo, size, handle>> BY DEF Elsewhere
<1>2. \A u \in Threads : u # t => stage'[u] = stage[u] /\ call'[u] = call[u] BY DEF Elsewhere
<1>3. Exclusive' BY <1>1, <1>2 DEF IInv, Exclusive, Elsewhere
<1>4. Logged'
  <2> SUFFICES ASSUME NEW u \in Threads PROVE InCall(u)' /\ Updates(u)'
    BY DEF Logged
  <2>1. InCall(u) /\ Updates(u) BY DEF IInv, Logged
  <2>2. CASE u # t BY <1>1, <1>2, <2>1, <2>2 DEF InCall, Updates
  <2>3. CASE u = t BY <1>1, <2>1, <2>3 DEF InCall, Updates, Elsewhere
  <2> QED BY <2>2, <2>3
<1>5. \A u \in Threads, k \in Keys : Uncounted(u, k)' <=> Uncounted(u, k)
  BY <1>1, <1>2 DEF Uncounted, Elsewhere
<1>6. Tallied' = Tallied BY <1>1, <1>5 DEF Tallied
<1>7. Sized' BY <1>1, <1>6 DEF IInv, Sized
<1> QED BY <1>3, <1>4, <1>7 DEF IInv

(* A call begins, *)
LEMMA InvokeKeeps ==
  ASSUME NEW t \in Threads, NEW c \in Store!Calls, IInv, Invoke(t, c) PROVE IInv'
<1>1. /\ handle[ProcOf[t]] /\ stage[t] = "idle"
      /\ stage' = [stage EXCEPT ![t] = "called"] /\ call' = [call EXCEPT ![t] = c]
      /\ UNCHANGED <<file, entry, size, undo, handle, ret>>
  BY DEF Invoke, pool
<1>2. Types' BY <1>1 DEF IInv, Types
<1>3. Elsewhere(t) BY <1>1 DEF Elsewhere, IInv, Types
<1> QED BY <1>2, <1>3, ElsewhereKeeps

(* and returns. *)
LEMMA ReturnKeeps == ASSUME NEW t \in Threads, IInv, Return(t) PROVE IInv'
<1>1. /\ stage[t] = "done"
      /\ stage' = [stage EXCEPT ![t] = "idle"] /\ call' = [call EXCEPT ![t] = None]
      /\ ret' = [ret EXCEPT ![t] = None]
      /\ UNCHANGED <<file, entry, size, undo, handle>>
  BY DEF Return, pool
<1>2. Types' BY <1>1 DEF IInv, Types
<1>3. Elsewhere(t) BY <1>1 DEF Elsewhere, IInv, Types
<1> QED BY <1>2, <1>3, ElsewhereKeeps

(* The engine answers without an update. *)
LEMMA AnswerKeeps ==
  ASSUME NEW t \in Threads, NEW code \in Store!Codes, NEW v \in Values \cup {None} \cup Int,
         IInv, stage[t] = "called", Answer(t, code, v), UNCHANGED <<size, undo>>
  PROVE  IInv'
<1>1. /\ stage' = [stage EXCEPT ![t] = "done"]
      /\ ret' = [ret EXCEPT ![t] = [code |-> code, out |-> v]]
      /\ UNCHANGED <<file, entry, size, undo, handle, call>>
  BY DEF Answer
<1>2. Types' BY <1>1 DEF IInv, Types
<1>3. Elsewhere(t) BY <1>1 DEF Elsewhere, IInv, Types, Exclusive, Logged, InCall
<1> QED BY <1>2, <1>3, ElsewhereKeeps

(* The calls that read. *)
LEMMA ReadsKeep ==
  ASSUME NEW t \in Threads, IInv, pmkv_get(t) \/ pmkv_exists(t) \/ pmkv_count_all(t) PROVE IInv'
<1>1. stage[t] = "called" /\ UNCHANGED <<size, undo>>
  BY DEF pmkv_get, pmkv_exists, pmkv_count_all
<1>2. \E code \in Store!Codes, v \in Values \cup {None} \cup Int : Answer(t, code, v)
  <2>1. "OK" \in Store!Codes /\ "NOT_FOUND" \in Store!Codes /\ "OUT_OF_MEMORY" \in Store!Codes
    BY DEF Store!Codes
  <2>2. CASE pmkv_get(t) BY <2>1, <2>2 DEF pmkv_get
  <2>3. CASE pmkv_exists(t)
    <3>1. \A v : Present(v) \in Int BY DEF Present
    <3> QED BY <2>1, <2>3, <3>1 DEF pmkv_exists
  <2>4. CASE pmkv_count_all(t) BY <2>1, <2>4 DEF pmkv_count_all, IInv, Types
  <2> QED BY <2>2, <2>3, <2>4
<1> QED BY <1>1, <1>2, AnswerKeeps

(* t's call is the update of k to v. *)
UpdateOf(t, k, v) ==
  /\ stage[t] = "called" /\ call[t].key = k
  /\ \/ call[t].op = "put" /\ v = call[t].val
     \/ call[t].op = "delete" /\ v = None /\ entry[k] # None

(* The first step of an update: map and log change, what recovery leaves does not. *)
LEMMA WriteKeeps ==
  ASSUME NEW t \in Threads, NEW k \in Keys, NEW v \in Values \cup {None},
         IInv, UpdateOf(t, k, v), EngineWrite(t, k, v)
  PROVE  IInv'
<1> DEFINE log == [key |-> k, old |-> entry[k]]
<1>1. /\ undo' = [undo EXCEPT ![t] = log] /\ entry' = [entry EXCEPT ![k] = v]
      /\ stage' = [stage EXCEPT ![t] = "written"]
      /\ UNCHANGED <<file, size, handle, call, ret>>
  BY DEF EngineWrite
<1>2. log \in Logs /\ log # None /\ log.key = k /\ log.old = entry[k]
  <2>1. log \in Logs BY DEF Logs, IInv, Types
  <2>2. None \notin Logs BY PMemKVAssumption DEF Logs
  <2> QED BY <2>1, <2>2
<1> HIDE DEF log
<1>3. Types' BY <1>1, <1>2 DEF IInv, Types
<1>4. /\ undo'[t] = log /\ stage'[t] = "written" /\ entry'[k] = v
      /\ \A u \in Threads : u # t => undo'[u] = undo[u] /\ stage'[u] = stage[u]
      /\ \A j \in Keys : j # k => entry'[j] = entry[j]
  BY <1>1 DEF IInv, Types
<1>5. \A u \in Threads : undo[u] # None => undo[u].key # k /\ undo[u].key \in Keys
  BY DEF EngineWrite, Locked, IInv, Types, Logs
<1>6. handle[ProcOf[t]] /\ ProcOf[t] \in Procs
  BY PMemKVAssumption DEF UpdateOf, IInv, Exclusive
<1>7. undo[t] = None BY <1>6 DEF IInv, Logged, Updates, UpdateOf
<1>8. Exclusive'
  <2>1. ASSUME NEW u \in Threads, NEW w \in Threads,
               undo'[u] # None, undo'[w] # None, undo'[u].key = undo'[w].key
        PROVE  u = w
    <3>1. CASE u # t /\ w # t BY <1>4, <2>1, <3>1 DEF IInv, Exclusive
    <3>2. CASE u = t \/ w = t BY <1>2, <1>4, <1>5, <2>1, <3>2
    <3> QED BY <3>1, <3>2
  <2>2. \A u \in Threads : stage'[u] # "idle" => handle'[ProcOf[u]]
    BY <1>1, <1>4, <1>6 DEF IInv, Exclusive
  <2> QED BY <1>1, <2>1, <2>2 DEF IInv, Exclusive
<1>9. Logged'
  <2> SUFFICES ASSUME NEW u \in Threads PROVE InCall(u)' /\ Updates(u)'
    BY DEF Logged
  <2>1. InCall(u) /\ Updates(u) BY DEF IInv, Logged
  <2>2. CASE u # t
    <3>1. stage[u] \in {"written", "counted"} => call[u].key \in Keys /\ call[u].key # k
      BY <1>5, <2>1 DEF Updates
    <3> QED BY <1>1, <1>4, <2>1, <2>2, <3>1 DEF InCall, Updates
  <2>3. CASE u = t
    BY <1>1, <1>2, <1>4, <2>1, <2>3 DEF InCall, Updates, UpdateOf
  <2> QED BY <2>2, <2>3
<1>10. Tallied' = Tallied
  <2>1. ASSUME NEW j \in Keys PROVE j \in Tallied' <=> j \in Tallied
    <3>1. CASE j = k
      <4>1. \A u \in Threads : ~Uncounted(u, k)
        BY <1>5 DEF Uncounted, IInv, Logged, Updates
      <4>2. k \in Tallied <=> entry[k] # None BY <4>1 DEF Tallied
      <4>3. Uncounted(t, k)' BY <1>2, <1>4 DEF Uncounted
      <4>4. \A u \in Threads : u # t => ~Uncounted(u, k)' BY <1>4, <4>1 DEF Uncounted
      <4>5. k \in Tallied' <=> entry[k] # None BY <1>2, <1>4, <4>3, <4>4 DEF Tallied
      <4> QED BY <3>1, <4>2, <4>5
    <3>2. CASE j # k
      <4>1. \A u \in Threads : Uncounted(u, j)' <=> Uncounted(u, j)
        BY <1>2, <1>4, <3>2 DEF Uncounted, UpdateOf
      <4>2. \A u \in Threads : Uncounted(u, j) => undo'[u] = undo[u]
        BY <1>4 DEF Uncounted, UpdateOf
      <4> QED BY <1>4, <3>2, <4>1, <4>2 DEF Tallied
    <3> QED BY <3>1, <3>2
  <2> QED BY <2>1 DEF Tallied
<1>11. Sized' BY <1>1, <1>10 DEF IInv, Sized
<1> QED BY <1>3, <1>8, <1>9, <1>11 DEF IInv

(* What a put or a delete does first. *)
LEMMA UpdateCases ==
  ASSUME NEW t \in Threads, IInv, pmkv_put(t) \/ pmkv_delete(t)
  PROVE  \/ \E k \in Keys, v \in Values \cup {None} : UpdateOf(t, k, v) /\ EngineWrite(t, k, v)
         \/ /\ stage[t] = "called" /\ UNCHANGED <<size, undo>>
            /\ \/ call[t].op = "put" /\ Answer(t, "OUT_OF_MEMORY", None)
               \/ /\ call[t].op = "delete" /\ ~Locked(call[t].key) /\ call[t].key \in Keys
                  /\ entry[call[t].key] = None /\ Answer(t, "NOT_FOUND", None)
<1>1. stage[t] = "called" /\ call[t] \in Store!Calls
  BY DEF pmkv_put, pmkv_delete, IInv, Logged, InCall
<1>2. CASE pmkv_put(t)
  <2>1. call[t].op = "put" BY <1>2 DEF pmkv_put
  <2>2. call[t].key \in Keys /\ call[t].val \in Values BY <1>1, <2>1 DEF Store!Calls
  <2> QED BY <1>1, <1>2, <2>1, <2>2 DEF pmkv_put, UpdateOf
<1>3. CASE pmkv_delete(t)
  <2>1. call[t].op = "delete" BY <1>3 DEF pmkv_delete
  <2>2. call[t].key \in Keys BY <1>1, <2>1 DEF Store!Calls
  <2> QED BY <1>1, <1>3, <2>1, <2>2 DEF pmkv_delete, UpdateOf
<1> QED BY <1>2, <1>3

(* Put and delete. *)
LEMMA UpdateKeeps ==
  ASSUME NEW t \in Threads, IInv, pmkv_put(t) \/ pmkv_delete(t) PROVE IInv'
<1>1. "NOT_FOUND" \in Store!Codes /\ "OUT_OF_MEMORY" \in Store!Codes BY DEF Store!Codes
<1> QED BY <1>1, UpdateCases, WriteKeeps, AnswerKeeps

(* The second step: the count follows the map. *)
LEMMA CountKeeps == ASSUME NEW t \in Threads, IInv, EngineCount(t) PROVE IInv'
<1>0. stage[t] = "written" /\ undo[t] # None /\ undo[t].key \in Keys
  BY DEF EngineCount, IInv, Types, Logs, Logged, Updates
<1>2. PICK k \in Keys : k = undo[t].key BY <1>0
<1>1. /\ stage[t] = "written" /\ stage' = [stage EXCEPT ![t] = "counted"]
      /\ size' = size + (Present(entry[k]) - Present(undo[t].old))
      /\ UNCHANGED <<file, entry, undo, handle, call, ret>>
  BY <1>2 DEF EngineCount, Delta
<1>3. /\ stage'[t] = "counted" /\ \A u \in Threads : u # t => stage'[u] = stage[u]
  BY <1>1 DEF IInv, Types
<1>4. Present(entry[k]) \in Int /\ Present(undo[t].old) \in Int BY DEF Present
<1>5. Types' BY <1>1, <1>4 DEF IInv, Types
<1>6. Exclusive' BY <1>1, <1>3 DEF IInv, Exclusive
<1>7. Logged'
  <2> SUFFICES ASSUME NEW u \in Threads PROVE InCall(u)' /\ Updates(u)'
    BY DEF Logged
  <2>1. InCall(u) /\ Updates(u) BY DEF IInv, Logged
  <2>2. CASE u # t BY <1>1, <1>3, <2>1, <2>2 DEF InCall, Updates
  <2>3. CASE u = t BY <1>1, <1>3, <2>1, <2>3 DEF InCall, Updates
  <2> QED BY <2>2, <2>3
<1>8. \A u \in Threads : u # t => ~Uncounted(u, k)
  BY <1>0, <1>2 DEF Uncounted, IInv, Logged, Updates, Exclusive
<1>9. Uncounted(t, k) BY <1>1, <1>2 DEF Uncounted
<1>10. \A u \in Threads : ~Uncounted(u, k)' BY <1>1, <1>3, <1>8 DEF Uncounted
<1>11. k \in Tallied <=> undo[t].old # None BY <1>2, <1>8, <1>9 DEF Tallied
<1>12. k \in Tallied' <=> entry[k] # None BY <1>1, <1>2, <1>10 DEF Tallied
<1>13. ASSUME NEW j \in Keys, j # k PROVE j \in Tallied' <=> j \in Tallied
  <2>1. \A u \in Threads : Uncounted(u, j)' <=> Uncounted(u, j)
    BY <1>1, <1>2, <1>3, <1>13 DEF Uncounted
  <2> QED BY <1>1, <2>1 DEF Tallied
<1>14. Tallied \subseteq Keys /\ Tallied' \subseteq Keys BY DEF Tallied
<1>15. IsFiniteSet(Tallied) /\ Cardinality(Tallied) \in Nat BY TalliedFinite, FS_CardinalityType
<1>16. Cardinality(Tallied') = Cardinality(Tallied) + (Present(entry[k]) - Present(undo[t].old))
  <2>1. CASE entry[k] # None
    <3>1. Tallied' = Tallied \cup {k} BY <1>2, <1>12, <1>13, <1>14, <2>1
    <3>2. Cardinality(Tallied') = IF k \in Tallied THEN Cardinality(Tallied)
                                                  ELSE Cardinality(Tallied) + 1
      BY <1>15, <3>1, FS_AddElement
    <3> QED BY <1>11, <1>15, <2>1, <3>2 DEF Present
  <2>2. CASE entry[k] = None
    <3>1. Tallied' = Tallied \ {k} BY <1>2, <1>12, <1>13, <1>14, <2>2
    <3>2. Cardinality(Tallied') = IF k \in Tallied THEN Cardinality(Tallied) - 1
                                                  ELSE Cardinality(Tallied)
      BY <1>15, <3>1, FS_RemoveElement
    <3> QED BY <1>11, <1>15, <2>2, <3>2 DEF Present
  <2> QED BY <2>1, <2>2
<1>17. Sized'
  <2>1. (\E p \in Procs : handle[p]) => size = Cardinality(Tallied) BY DEF IInv, Sized
  <2> QED BY <1>1, <1>16, <2>1 DEF Sized
<1> QED BY <1>5, <1>6, <1>7, <1>17 DEF IInv

(* The third step: the log is dropped. *)
LEMMA CommitKeeps == ASSUME NEW t \in Threads, IInv, EngineCommit(t) PROVE IInv'
<1>1. /\ stage[t] = "counted" /\ stage' = [stage EXCEPT ![t] = "done"]
      /\ undo' = [undo EXCEPT ![t] = None]
      /\ ret' = [ret EXCEPT ![t] = [code |-> "OK", out |-> None]]
      /\ UNCHANGED <<file, entry, size, handle, call>>
  BY DEF EngineCommit, Answer
<1>2. /\ stage'[t] = "done" /\ undo'[t] = None
      /\ \A u \in Threads : u # t => stage'[u] = stage[u] /\ undo'[u] = undo[u]
  BY <1>1 DEF IInv, Types
<1>3. Types' BY <1>1 DEF IInv, Types, Store!Codes
<1>4. Exclusive' BY <1>1, <1>2 DEF IInv, Exclusive
<1>5. Logged'
  <2> SUFFICES ASSUME NEW u \in Threads PROVE InCall(u)' /\ Updates(u)'
    BY DEF Logged
  <2>1. InCall(u) /\ Updates(u) BY DEF IInv, Logged
  <2>2. CASE u # t BY <1>1, <1>2, <2>1, <2>2 DEF InCall, Updates
  <2>3. CASE u = t BY <1>1, <1>2, <2>1, <2>3 DEF InCall, Updates
  <2> QED BY <2>2, <2>3
<1>6. \A u \in Threads, j \in Keys : Uncounted(u, j)' <=> Uncounted(u, j)
  BY <1>1, <1>2 DEF Uncounted
<1>7. \A u \in Threads, j \in Keys : Uncounted(u, j) => undo'[u] = undo[u]
  BY <1>1, <1>2 DEF Uncounted
<1>8. Tallied' = Tallied BY <1>1, <1>6, <1>7 DEF Tallied
<1>9. Sized' BY <1>1, <1>8 DEF IInv, Sized
<1> QED BY <1>3, <1>4, <1>5, <1>9 DEF IInv

(* Every step keeps the invariant. *)
LEMMA NextKeeps == IInv /\ [Next]_vars => IInv'
<1> SUFFICES ASSUME IInv, [Next]_vars PROVE IInv' OBVIOUS
<1>1. CASE UNCHANGED vars
  <2>1. UNCHANGED <<file, entry, size, undo, handle, stage, call, ret>>
    BY <1>1 DEF vars, pool, calls
  <2>2. Types' BY <2>1 DEF IInv, Types
  <2>3. Exclusive' BY <2>1 DEF IInv, Exclusive
  <2>4. Logged' BY <2>1 DEF IInv, Logged, InCall, Updates
  <2>5. Sized' BY <2>1 DEF IInv, Sized, Tallied, Uncounted
  <2> QED BY <2>2, <2>3, <2>4, <2>5 DEF IInv
<1> QED
  BY <1>1, OpenKeeps, CloseKeeps, CrashKeeps, RemoveKeeps, InvokeKeeps, UpdateKeeps, CountKeeps,
     CommitKeeps, ReadsKeep, ReturnKeeps DEF Next, Step

(* It holds throughout. *)
LEMMA IInvHolds == Spec => []IInv
BY StartsRight, NextKeeps, PTL DEF Spec

(* For every number of threads, processes and keys, and every crash: with no *)
(* call under way pmkv_count_all is the number of keys that pmkv_exists      *)
(* finds.                                                                    *)
THEOREM CountCorrect == Spec => []CountAgrees
<1>1. IInv => CountAgrees
  <2> SUFFICES ASSUME IInv, \A t \in Threads : stage[t] = "idle", \E p \in Procs : handle[p]
               PROVE  size = Cardinality({k \in Keys : entry[k] # None})
    BY DEF CountAgrees
  <2> QED BY CountedAfresh DEF IInv, Sized
<1> QED BY <1>1, IInvHolds, PTL

-----------------------------------------------------------------------------
(* The refinement: what each action does to the map that pmkv.h promises. *)

(* A step that leaves entries and logs alone leaves the map alone. *)
LEMMA MapSame == UNCHANGED <<entry, undo>> => Committed' = Committed
BY DEF Committed, Locked

(* Without logs the map is what the entries say. *)
LEMMA MapWithoutLogs ==
  ASSUME IInv', \A t \in Threads : undo'[t] = None PROVE Committed' = entry'
<1>1. KeyByKey' BY CommittedIsNext DEF IInv
<1>2. \A k \in Keys : ~Locked(k)' BY DEF Locked
<1>3. \A k \in Keys : Committed'[k] = entry'[k] BY <1>1, <1>2 DEF KeyByKey
<1> QED BY <1>1, <1>3 DEF KeyByKey, IInv, Types

(* Writing an entry under its log does not change the map. *)
LEMMA MapWritten ==
  ASSUME NEW t \in Threads, NEW k \in Keys, NEW v \in Values \cup {None},
         IInv, IInv', UpdateOf(t, k, v), EngineWrite(t, k, v)
  PROVE  Committed' = Committed
<1>1. KeyByKey /\ KeyByKey' BY CommittedIs, CommittedIsNext DEF IInv
<1>2. /\ undo'[t] = [key |-> k, old |-> entry[k]]
      /\ \A u \in Threads : u # t => undo'[u] = undo[u]
      /\ \A j \in Keys : j # k => entry'[j] = entry[j]
  BY DEF EngineWrite, IInv, Types
<1>3. undo'[t] # None /\ undo'[t].key = k /\ undo'[t].old = entry[k]
  <2>1. [key |-> k, old |-> entry[k]] \in Logs BY DEF Logs, IInv, Types
  <2> QED BY <1>2, <2>1, PMemKVAssumption DEF Logs
<1>4. undo[t] = None
  BY PMemKVAssumption DEF UpdateOf, IInv, Exclusive, Logged, Updates
<1>5. ASSUME NEW j \in Keys PROVE Committed'[j] = Committed[j]
  <2>1. CASE j = k
    <3>1. Committed'[k] = entry[k] BY <1>1, <1>3 DEF KeyByKey
    <3>2. Committed[k] = entry[k] BY <1>1 DEF KeyByKey, EngineWrite
    <3> QED BY <2>1, <3>1, <3>2
  <2>2. CASE j # k /\ Locked(j)
    <3>1. PICK u \in Threads : undo[u] # None /\ undo[u].key = j BY <2>2 DEF Locked
    <3>2. undo'[u] = undo[u] BY <1>2, <1>4, <3>1
    <3> QED BY <1>1, <3>1, <3>2 DEF KeyByKey
  <2>3. CASE j # k /\ ~Locked(j)
    <3>1. ~Locked(j)' BY <1>2, <1>3, <2>3 DEF Locked
    <3> QED BY <1>1, <1>2, <2>3, <3>1 DEF KeyByKey
  <2> QED BY <2>1, <2>2, <2>3
<1> QED BY <1>1, <1>5 DEF KeyByKey

(* The commit changes it at the key. *)
LEMMA MapCommitted ==
  ASSUME NEW t \in Threads, IInv, IInv', EngineCommit(t)
  PROVE  Committed' = [Committed EXCEPT ![undo[t].key] = entry[undo[t].key]]
<1>1. KeyByKey /\ KeyByKey' BY CommittedIs, CommittedIsNext DEF IInv
<1>2. undo[t] # None BY DEF EngineCommit, IInv, Logged, Updates
<1>3. PICK k \in Keys : k = undo[t].key BY <1>1, <1>2 DEF KeyByKey
<1>4. /\ undo'[t] = None /\ entry' = entry
      /\ \A u \in Threads : u # t => undo'[u] = undo[u]
  BY DEF EngineCommit, Answer, IInv, Types
<1>5. ASSUME NEW j \in Keys
      PROVE  Committed'[j] = [Committed EXCEPT ![k] = entry[k]][j]
  <2>1. CASE j = k
    <3>1. ~Locked(k)' BY <1>2, <1>3, <1>4 DEF Locked, IInv, Exclusive
    <3>2. Committed'[k] = entry[k] BY <1>1, <1>4, <3>1 DEF KeyByKey
    <3> QED BY <1>1, <2>1, <3>2 DEF KeyByKey
  <2>2. CASE j # k
    <3>1. Committed'[j] = Committed[j]
      <4>1. CASE Locked(j)
        <5>1. PICK u \in Threads : undo[u] # None /\ undo[u].key = j BY <4>1 DEF Locked
        <5>2. undo'[u] = undo[u] BY <1>3, <1>4, <2>2, <5>1
        <5> QED BY <1>1, <5>1, <5>2 DEF KeyByKey
      <4>2. CASE ~Locked(j)
        <5>1. ~Locked(j)' BY <1>4, <4>2 DEF Locked
        <5> QED BY <1>1, <1>4, <4>2, <5>1 DEF KeyByKey
      <4> QED BY <4>1, <4>2
    <3> QED BY <1>1, <2>2, <3>1 DEF KeyByKey
  <2> QED BY <2>1, <2>2
<1>6. Committed' = [Committed EXCEPT ![k] = entry[k]] BY <1>1, <1>5 DEF KeyByKey
<1> QED BY <1>3, <1>6

(* The element count is the number of keys in the map, give or take the      *)
(* updates under way beside t's call.                                        *)
LEMMA CountWithin ==
  ASSUME NEW t \in Threads, IInv, stage[t] = "called"
  PROVE  \E d \in -Cardinality(Store!Updating(t)) .. Cardinality(Store!Updating(t)) :
           size = Cardinality(Store!Present(Committed)) + d
<1> DEFINE U == Store!Updating(t)
           A == Tallied
           B == Store!Present(Committed)
           f == [u \in U |-> undo[u].key]
           V == {undo[u].key : u \in U}
<1>1. KeyByKey BY CommittedIs DEF IInv
<1>2. \E p \in Procs : handle[p] BY PMemKVAssumption DEF IInv, Exclusive
<1>3. U \in SUBSET Threads BY DEF Store!Updating
<1>4. B \in SUBSET Keys BY DEF Store!Present
<1>5. IsFiniteSet(U) /\ IsFiniteSet(A) /\ IsFiniteSet(B)
  BY <1>3, <1>4, PMemKVAssumption, FS_Subset, TalliedFinite
<1>6. f \in [U -> V] OBVIOUS
<1>7. ASSUME NEW k \in Keys, ~(k \in A <=> k \in B)
      PROVE  \E u \in U : f[u] = k
  <2>1. k \in B <=> Committed[k] # None BY DEF Store!Present
  <2>2. Locked(k)
    <3> SUFFICES ASSUME ~Locked(k) PROVE FALSE OBVIOUS
    <3>1. \A u \in Threads : ~Uncounted(u, k)
      BY DEF Locked, Uncounted, IInv, Logged, Updates
    <3>2. k \in A <=> entry[k] # None BY <3>1 DEF Tallied
    <3> QED BY <1>1, <1>7, <2>1, <3>2 DEF KeyByKey
  <2>3. PICK u \in Threads : undo[u] # None /\ undo[u].key = k BY <2>2 DEF Locked
  <2>4. stage[u] \in {"written", "counted"} BY <1>2, <2>3 DEF IInv, Logged, Updates
  <2>5. Committed[k] = undo[u].old BY <1>1, <2>3 DEF KeyByKey
  <2>6. stage[u] # "written"
    <3> SUFFICES ASSUME stage[u] = "written" PROVE FALSE OBVIOUS
    <3>1. Uncounted(u, k) BY <2>3 DEF Uncounted
    <3>2. \A w \in Threads : w # u => ~Uncounted(w, k)
      BY <2>3 DEF Uncounted, IInv, Logged, Updates, Exclusive
    <3>3. k \in A <=> undo[u].old # None BY <3>1, <3>2 DEF Tallied
    <3> QED BY <1>7, <2>1, <2>5, <3>3
  <2>7. stage[u] = "counted" /\ u # t BY <2>4, <2>6
  <2>8. call[u].op \in {"put", "delete"} BY <2>7 DEF IInv, Logged, Updates
  <2>9. u \in U BY <2>7, <2>8 DEF Store!Updating, StoreStage
  <2> QED BY <2>3, <2>9
<1>8. A \subseteq Keys BY DEF Tallied
<1>9. size = Cardinality(A) BY <1>2 DEF IInv, Sized
<1> HIDE DEF U, A, B, f, V
<1>10. Cardinality(A) - Cardinality(B) \in -Cardinality(U) .. Cardinality(U)
  <2>1. \A a \in A \ B : \E u \in U : f[u] = a BY <1>7, <1>8
  <2>2. \A b \in B \ A : \E u \in U : f[u] = b BY <1>4, <1>7
  <2> QED BY <1>5, <1>6, <2>1, <2>2, Within
<1>11. Cardinality(A) \in Nat /\ Cardinality(B) \in Nat BY <1>5, FS_CardinalityType
<1>12. PICK d \in -Cardinality(U) .. Cardinality(U) : d = Cardinality(A) - Cardinality(B)
  BY <1>10
<1>13. Cardinality(U) \in Nat BY <1>5, FS_CardinalityType
<1>14. size = Cardinality(B) + d BY <1>9, <1>11, <1>12, <1>13
<1>15. \E e \in -Cardinality(U) .. Cardinality(U) : size = Cardinality(B) + e BY <1>12, <1>14
<1> QED BY <1>15 DEF U, B

(* The stages as pmkv.h has them. *)
Stages(q) == [t \in Threads |-> StoreStage(q[t])]

(* One stage moves. *)
LEMMA StagesMove ==
  ASSUME NEW t \in Threads, NEW q, NEW x,
         stage \in [Threads -> {"idle", "called", "written", "counted", "done"}],
         q = [stage EXCEPT ![t] = x]
  PROVE  Stages(q) = [Stages(stage) EXCEPT ![t] = StoreStage(x)]
BY DEF Stages

(* The invocation. *)
LEMMA InvokeMaps ==
  ASSUME NEW t \in Threads, NEW c \in Store!Calls, IInv, Invoke(t, c) PROVE Store!Invoke(t, c)
<1>1. Committed' = Committed BY MapSame DEF Invoke, pool
<1>2. /\ stage[t] = "idle" /\ stage' = [stage EXCEPT ![t] = "called"]
      /\ call' = [call EXCEPT ![t] = c] /\ ret' = ret
  BY DEF Invoke
<1>3. Stages(stage') = [Stages(stage) EXCEPT ![t] = StoreStage("called")]
  BY <1>2, StagesMove DEF IInv, Types
<1>4. StoreStage("called") = "called" /\ Stages(stage)[t] = "idle" BY <1>2 DEF StoreStage, Stages
<1> QED BY <1>1, <1>2, <1>3, <1>4 DEF Store!Invoke, Stages

(* A call takes effect where the engine answers it. *)
LEMMA EffectMaps ==
  ASSUME NEW t \in Threads, NEW code, NEW v, IInv, stage[t] \in {"called", "counted"},
         Answer(t, code, v),
         Store!Outcome(t, call[t], [code |-> code, out |-> v], Committed')
  PROVE  Store!TakeEffect(t)
<1>1. /\ stage' = [stage EXCEPT ![t] = "done"] /\ call' = call
      /\ ret' = [ret EXCEPT ![t] = [code |-> code, out |-> v]]
  BY DEF Answer
<1>2. Stages(stage') = [Stages(stage) EXCEPT ![t] = StoreStage("done")]
  BY <1>1, StagesMove DEF IInv, Types
<1>3. StoreStage("done") = "done" /\ Stages(stage)[t] = "called" BY DEF StoreStage, Stages
<1>4. ret'[t] = [code |-> code, out |-> v] /\ \A u \in Threads \ {t} : ret'[u] = ret[u]
  BY <1>1 DEF IInv, Types
<1> QED BY <1>1, <1>2, <1>3, <1>4 DEF Store!TakeEffect, Stages

(* The commit of an update is its effect. *)
LEMMA CommitMaps ==
  ASSUME NEW t \in Threads, IInv, IInv', EngineCommit(t) PROVE Store!TakeEffect(t)
<1>1. stage[t] = "counted" /\ Answer(t, "OK", None) BY DEF EngineCommit
<1>2. KeyByKey BY CommittedIs DEF IInv
<1>3. /\ undo[t] # None /\ undo[t].key = call[t].key
      /\ \/ call[t].op = "put" /\ entry[call[t].key] = call[t].val
         \/ call[t].op = "delete" /\ entry[call[t].key] = None /\ undo[t].old # None
  BY <1>1 DEF IInv, Logged, Updates
<1>4. Committed' = [Committed EXCEPT ![call[t].key] = entry[call[t].key]]
  BY <1>3, MapCommitted
<1>5. Committed[call[t].key] = undo[t].old BY <1>2, <1>3 DEF KeyByKey
<1>6. Store!Outcome(t, call[t], [code |-> "OK", out |-> None], Committed')
  <2>1. CASE call[t].op = "put" /\ entry[call[t].key] = call[t].val
    BY <1>4, <2>1 DEF Store!Outcome
  <2>2. CASE call[t].op = "delete" /\ entry[call[t].key] = None /\ undo[t].old # None
    BY <1>4, <1>5, <2>2 DEF Store!Outcome
  <2> QED BY <1>3, <2>1, <2>2
<1> QED BY <1>1, <1>6, EffectMaps

(* Put and delete take effect when they fail, and otherwise do nothing yet. *)
LEMMA UpdateMaps ==
  ASSUME NEW t \in Threads, IInv, IInv', pmkv_put(t) \/ pmkv_delete(t)
  PROVE  Store!TakeEffect(t) \/ UNCHANGED Store!vars
<1>1. CASE \E k \in Keys, v \in Values \cup {None} : UpdateOf(t, k, v) /\ EngineWrite(t, k, v)
  <2>1. PICK k \in Keys, v \in Values \cup {None} : UpdateOf(t, k, v) /\ EngineWrite(t, k, v)
    BY <1>1
  <2>2. Committed' = Committed BY <2>1, MapWritten
  <2>3. /\ stage' = [stage EXCEPT ![t] = "written"] /\ UNCHANGED <<call, ret>>
        /\ stage[t] = "called"
    BY <2>1 DEF EngineWrite, UpdateOf
  <2>4. Stages(stage') = [Stages(stage) EXCEPT ![t] = StoreStage("written")]
    BY <2>3, StagesMove DEF IInv, Types
  <2>5. Stages(stage') = Stages(stage) BY <2>3, <2>4 DEF StoreStage, Stages
  <2> QED BY <2>2, <2>3, <2>5 DEF Store!vars, Stages
<1>2. CASE /\ stage[t] = "called" /\ UNCHANGED <<size, undo>>
           /\ call[t].op = "put" /\ Answer(t, "OUT_OF_MEMORY", None)
  <2>1. Committed' = Committed BY <1>2, MapSame DEF Answer
  <2>2. Store!Outcome(t, call[t], [code |-> "OUT_OF_MEMORY", out |-> None], Committed')
    BY <1>2, <2>1 DEF Store!Outcome
  <2> QED BY <1>2, <2>2, EffectMaps
<1>3. CASE /\ stage[t] = "called" /\ UNCHANGED <<size, undo>>
           /\ call[t].op = "delete" /\ ~Locked(call[t].key) /\ call[t].key \in Keys
           /\ entry[call[t].key] = None /\ Answer(t, "NOT_FOUND", None)
  <2>1. Committed' = Committed BY <1>3, MapSame DEF Answer
  <2>2. KeyByKey BY CommittedIs DEF IInv
  <2>3. Committed[call[t].key] = None BY <1>3, <2>2 DEF KeyByKey
  <2>4. Committed = [Committed EXCEPT ![call[t].key] = None] BY <2>2, <2>3 DEF KeyByKey
  <2>5. Store!Outcome(t, call[t], [code |-> "NOT_FOUND", out |-> None], Committed')
    BY <1>3, <2>1, <2>3, <2>4 DEF Store!Outcome
  <2> QED BY <1>3, <2>5, EffectMaps
<1> QED BY <1>1, <1>2, <1>3, UpdateCases

(* pmkv_get reads a key nobody is updating. *)
LEMMA GetMaps == ASSUME NEW t \in Threads, IInv, pmkv_get(t) PROVE Store!TakeEffect(t)
<1>1. /\ stage[t] = "called" /\ call[t].op = "get" /\ ~Locked(call[t].key)
      /\ UNCHANGED <<size, undo>>
  BY DEF pmkv_get, Readable
<1>2. KeyByKey BY CommittedIs DEF IInv
<1>3. call[t].key \in Keys
  <2>1. call[t] \in Store!Calls BY <1>1 DEF IInv, Logged, InCall
  <2> QED BY <1>1, <2>1 DEF Store!Calls
<1>4. Committed[call[t].key] = entry[call[t].key] BY <1>1, <1>2, <1>3 DEF KeyByKey
<1>5. ASSUME NEW code, NEW v, Answer(t, code, v),
             [code |-> code, out |-> v] = Store!Fetched(entry[call[t].key])
      PROVE  Store!TakeEffect(t)
  <2>1. Committed' = Committed BY <1>1, <1>5, MapSame DEF Answer
  <2>2. Store!Outcome(t, call[t], [code |-> code, out |-> v], Committed')
    BY <1>1, <1>4, <1>5, <2>1 DEF Store!Outcome
  <2> QED BY <1>1, <1>5, <2>2, EffectMaps
<1>6. CASE entry[call[t].key] = None /\ Answer(t, "NOT_FOUND", None)
  BY <1>5, <1>6 DEF Store!Fetched
<1>7. CASE entry[call[t].key] \in Unreadable /\ Answer(t, "OUT_OF_MEMORY", None)
  BY <1>5, <1>7, PMemKVAssumption DEF Store!Fetched
<1>8. CASE entry[call[t].key] \in Values \ Unreadable /\ Answer(t, "OK", entry[call[t].key])
  BY <1>5, <1>8, PMemKVAssumption DEF Store!Fetched
<1> QED BY <1>6, <1>7, <1>8 DEF pmkv_get

(* So does pmkv_exists. *)
LEMMA ExistsMaps == ASSUME NEW t \in Threads, IInv, pmkv_exists(t) PROVE Store!TakeEffect(t)
<1>1. /\ stage[t] = "called" /\ call[t].op = "exists" /\ ~Locked(call[t].key)
      /\ UNCHANGED <<size, undo>> /\ Answer(t, "OK", Present(entry[call[t].key]))
  BY DEF pmkv_exists, Readable
<1>2. KeyByKey BY CommittedIs DEF IInv
<1>3. call[t].key \in Keys
  <2>1. call[t] \in Store!Calls BY <1>1 DEF IInv, Logged, InCall
  <2> QED BY <1>1, <2>1 DEF Store!Calls
<1>4. Committed[call[t].key] = entry[call[t].key] BY <1>1, <1>2, <1>3 DEF KeyByKey
<1>5. Committed' = Committed BY <1>1, MapSame DEF Answer
<1>6. Store!Outcome(t, call[t], [code |-> "OK", out |-> Present(entry[call[t].key])], Committed')
  BY <1>1, <1>4, <1>5 DEF Store!Outcome, Present
<1> QED BY <1>1, <1>6, EffectMaps

(* The module PMKVStore has its own copy of FiniteSets. *)
LEMMA OneCardinality == \A S : Store!Cardinality(S) = Cardinality(S)
BY DEF Store!Cardinality, Cardinality

(* pmkv_count_all is off by updates under way at most. *)
LEMMA CountMaps == ASSUME NEW t \in Threads, IInv, pmkv_count_all(t) PROVE Store!TakeEffect(t)
<1>1. /\ stage[t] = "called" /\ call[t].op = "count" /\ Answer(t, "OK", size)
      /\ UNCHANGED <<size, undo>>
  BY DEF pmkv_count_all
<1>2. Committed' = Committed BY <1>1, MapSame DEF Answer
<1>3. PICK d \in -Cardinality(Store!Updating(t)) .. Cardinality(Store!Updating(t)) :
        size = Cardinality(Store!Present(Committed)) + d
  BY <1>1, CountWithin
<1>4. Store!Outcome(t, call[t], [code |-> "OK", out |-> size], Committed')
  BY <1>1, <1>2, <1>3, OneCardinality DEF Store!Outcome
<1> QED BY <1>1, <1>4, EffectMaps

(* The steps of a call. *)
LEMMA StepMaps ==
  ASSUME NEW t \in Threads, IInv, IInv', Step(t)
  PROVE  Store!TakeEffect(t) \/ Store!Return(t) \/ UNCHANGED Store!vars
<1>1. CASE EngineCount(t)
  <2>1. Committed' = Committed BY <1>1, MapSame DEF EngineCount
  <2>2. /\ stage' = [stage EXCEPT ![t] = "counted"] /\ UNCHANGED <<call, ret>>
        /\ stage[t] = "written"
    BY <1>1 DEF EngineCount
  <2>3. Stages(stage') = [Stages(stage) EXCEPT ![t] = StoreStage("counted")]
    BY <2>2, StagesMove DEF IInv, Types
  <2>4. Stages(stage') = Stages(stage) BY <2>2, <2>3 DEF StoreStage, Stages
  <2> QED BY <2>1, <2>2, <2>4 DEF Store!vars, Stages
<1>2. CASE Return(t)
  <2>1. Committed' = Committed BY <1>2, MapSame DEF Return, pool
  <2>2. /\ stage[t] = "done" /\ stage' = [stage EXCEPT ![t] = "idle"]
        /\ call' = [call EXCEPT ![t] = None] /\ ret' = [ret EXCEPT ![t] = None]
    BY <1>2 DEF Return
  <2>3. Stages(stage') = [Stages(stage) EXCEPT ![t] = StoreStage("idle")]
    BY <2>2, StagesMove DEF IInv, Types
  <2>4. StoreStage("idle") = "idle" /\ Stages(stage)[t] = "done" BY <2>2 DEF StoreStage, Stages
  <2> QED BY <2>1, <2>2, <2>3, <2>4 DEF Store!Return, Stages
<1> QED BY <1>1, <1>2, UpdateMaps, CommitMaps, GetMaps, ExistsMaps, CountMaps DEF Step

(* The death of the process. *)
LEMMA CrashMaps ==
  ASSUME NEW p \in Procs, IInv, Crash(p)
  PROVE  \E T \in SUBSET Threads : Store!Crash(T)
<1> DEFINE T == {t \in Threads : ProcOf[t] = p}
<1>1. Committed' = Committed BY MapSame DEF Crash, pool
<1>2. Stages(stage') = [t \in Threads |-> IF t \in T THEN "idle" ELSE Stages(stage)[t]]
  BY DEF Crash, Stages, StoreStage
<1>3. /\ call' = [t \in Threads |-> IF t \in T THEN None ELSE call[t]]
      /\ ret' = [t \in Threads |-> IF t \in T THEN None ELSE ret[t]]
  BY DEF Crash
<1>4. T \in SUBSET Threads OBVIOUS
<1> HIDE DEF T
<1>5. Store!Crash(T) BY <1>1, <1>2, <1>3 DEF Store!Crash, Store!Forget, Stages
<1> QED BY <1>4, <1>5

(* A new pool, a recovered one, and none. *)
LEMMA PoolMaps ==
  ASSUME IInv, IInv',
         RemoveFile \/ \E p \in Procs, force_create \in BOOLEAN : pmkv_open(p, force_create)
  PROVE  Store!Fresh \/ UNCHANGED Store!vars
<1>1. /\ UNCHANGED <<stage, call, ret>> /\ undo' = NoUndo /\ \A q \in Procs : ~handle[q]
      /\ entry' = NewMap \/ entry' = Committed
  BY DEF RemoveFile, pmkv_open, CanOpen, EngineCreate, EngineRecover, calls
<1>2. Committed' = entry' BY <1>1, MapWithoutLogs DEF NoUndo
<1>3. \A t \in Threads : stage[t] = "idle" BY <1>1, AllIdle
<1>4. Stages(stage') = Stages(stage) /\ \A t \in Threads : Stages(stage)[t] = "idle"
  BY <1>1, <1>3 DEF Stages, StoreStage
<1>5. CASE entry' = Committed BY <1>1, <1>2, <1>4, <1>5 DEF Store!vars, Stages
<1>6. CASE entry' = NewMap BY <1>1, <1>2, <1>4, <1>6 DEF Store!Fresh, Stages, NewMap
<1> QED BY <1>1, <1>5, <1>6

(* Every step is a step of PMKVStore or leaves its variables alone. *)
LEMMA NextMaps == IInv /\ IInv' /\ [Next]_vars => [Store!Next]_(Store!vars)
<1> SUFFICES ASSUME IInv, IInv', [Next]_vars PROVE [Store!Next]_(Store!vars) OBVIOUS
<1>1. ASSUME UNCHANGED <<entry, undo, stage, call, ret>> PROVE UNCHANGED Store!vars
  BY <1>1, MapSame DEF Store!vars
<1>2. CASE UNCHANGED vars BY <1>1, <1>2 DEF vars, pool, calls
<1>3. ASSUME NEW p \in Procs, pmkv_close(p) PROVE UNCHANGED Store!vars
  BY <1>1, <1>3 DEF pmkv_close, pool, calls
<1>4. ASSUME NEW p \in Procs, Crash(p) PROVE Store!Next
  BY <1>4, CrashMaps DEF Store!Next
<1>5. ASSUME RemoveFile \/ \E p \in Procs, force_create \in BOOLEAN : pmkv_open(p, force_create)
      PROVE  Store!Next \/ UNCHANGED Store!vars
  BY <1>5, PoolMaps DEF Store!Next
<1>6. ASSUME NEW t \in Threads, NEW c \in Store!Calls, Invoke(t, c) PROVE Store!Next
  BY <1>6, InvokeMaps DEF Store!Next
<1>7. ASSUME NEW t \in Threads, Step(t) PROVE Store!Next \/ UNCHANGED Store!vars
  BY <1>7, StepMaps DEF Store!Next
<1> QED BY <1>2, <1>3, <1>4, <1>5, <1>6, <1>7 DEF Next

(* So is the start. *)
LEMMA InitMaps == Init => Store!Init
<1> SUFFICES ASSUME Init PROVE Store!Init OBVIOUS
<1>1. Committed = [k \in Keys |-> None]
  BY DEF Init, Committed, Locked, NoUndo, NewMap
<1>2. Stages(stage) = [t \in Threads |-> "idle"] BY DEF Init, Stages, StoreStage
<1> QED BY <1>1, <1>2 DEF Init, Store!Init, Stages

(* pmemkv.c implements pmkv.h for every number of callers and keys: its      *)
(* calls are linearizable, what was acknowledged survives every crash, and a *)
(* call that was cut off took place wholly or not at all.                    *)
THEOREM Refinement == Spec => ImplementsStore
BY InitMaps, NextMaps, IInvHolds, PTL DEF Spec, ImplementsStore, Store!Spec
=============================================================================
