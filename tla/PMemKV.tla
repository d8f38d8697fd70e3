------------------------------- MODULE PMemKV -------------------------------
(***************************************************************************)
(* src/pmemkv.c, the reference implementation of pmkv.h on top of the      *)
(* pmemkv library's "cmap" engine, called by the threads of several        *)
(* processes, any of which may be killed at any step.                      *)
(*                                                                         *)
(* The engine is external.  As the code relies on it: an update locks its  *)
(* key, writes the entry under an undo log on the pool, adjusts the        *)
(* element count, then commits by dropping the log; opening an existing    *)
(* pool undoes what had not committed and recounts.                        *)
(***************************************************************************)
EXTENDS Integers, FiniteSets

CONSTANTS Procs, Threads, ProcOf, Keys, Values, Unreadable, None

ASSUME PMemKVAssumption ==
  /\ IsFiniteSet(Threads) /\ IsFiniteSet(Keys)
  /\ ProcOf \in [Threads -> Procs]
  /\ Unreadable \subseteq Values
  /\ None \notin Values
  /\ None \notin [key : Keys, old : Values \cup {None}]

VARIABLES
  file,              \* a pool file exists at the path
  entry,             \* the pool's hash map
  size,              \* its element count
  undo,              \* per thread: the key it is updating and its old value, or None
  handle,            \* per process: it holds an open pmkv
  stage, call, ret   \* per thread: as in PMKVStore

pool == <<file, entry, size, undo>>
calls == <<stage, call, ret>>
vars == <<pool, handle, calls>>

(* A key somebody is updating, and the map without the uncommitted updates. *)
Locked(k) == \E t \in Threads : undo[t] # None /\ undo[t].key = k

Committed ==
  [k \in Keys |-> IF Locked(k)
                  THEN undo[CHOOSE t \in Threads : undo[t] # None /\ undo[t].key = k].old
                  ELSE entry[k]]

StoreStage(s) == IF s \in {"written", "counted"} THEN "called" ELSE s

Store == INSTANCE PMKVStore WITH
           db <- Committed, stage <- [t \in Threads |-> StoreStage(stage[t])]

TypeOK ==
  /\ file \in BOOLEAN
  /\ entry \in [Keys -> Values \cup {None}]
  /\ size \in 0 .. Cardinality(Keys)
  /\ undo \in [Threads -> [key : Keys, old : Values \cup {None}] \cup {None}]
  /\ handle \in [Procs -> BOOLEAN]
  /\ stage \in [Threads -> {"idle", "called", "written", "counted", "done"}]
  /\ call \in [Threads -> Store!Calls \cup {None}]
  /\ \A t \in Threads : ret[t] = None \/ ret[t].code \in Store!Codes

NoUndo == [t \in Threads |-> None]
NewMap == [k \in Keys |-> None]

Init ==
  /\ file = FALSE
  /\ entry = NewMap
  /\ size = 0
  /\ undo = NoUndo
  /\ handle = [p \in Procs |-> FALSE]
  /\ stage = [t \in Threads |-> "idle"]
  /\ call = [t \in Threads |-> None]
  /\ ret = [t \in Threads |-> None]

Quiet(p) == \A t \in Threads : ProcOf[t] = p => stage[t] = "idle"

-----------------------------------------------------------------------------
(* Opening and closing. *)

(* What the engine does with the pool it is told to create, or to open. *)
EngineCreate ==
  /\ ~file
  /\ file' = TRUE
  /\ entry' = NewMap
  /\ size' = 0
  /\ undo' = NoUndo

(* Bug: recovery leaves an uncommitted entry in place. *)
EngineRecoverNoUndo ==
  /\ file
  /\ entry' = entry
  /\ size' = Cardinality({k \in Keys : entry[k] # None})
  /\ undo' = NoUndo
  /\ UNCHANGED file

(* Bug: an existing pool is opened as a new one. *)
EngineRecoverEmpty ==
  /\ file
  /\ entry' = NewMap
  /\ size' = 0
  /\ undo' = NoUndo
  /\ UNCHANGED file

EngineRecover ==
  /\ file
  /\ entry' = Committed
  /\ size' = Cardinality({k \in Keys : Committed[k] # None})
  /\ undo' = NoUndo
  /\ UNCHANGED file

(* pmkv_open returns NULL, leaving everything as it is, when the engine     *)
(* fails: nothing to open, something in the way of a new pool, or a pool    *)
(* another process has open.                                                *)
CanOpen(force_create) == (file = ~force_create) /\ \A p \in Procs : ~handle[p]

pmkv_open(p, force_create) ==
  /\ Quiet(p)
  /\ CanOpen(force_create)
  /\ IF force_create THEN EngineCreate ELSE EngineRecover
  /\ handle' = [handle EXCEPT ![p] = TRUE]
  /\ UNCHANGED calls

pmkv_close(p) ==
  /\ Quiet(p)
  /\ handle[p]
  /\ handle' = [handle EXCEPT ![p] = FALSE]
  /\ UNCHANGED <<pool, calls>>

(* std::remove(path), as the callers do it: with the pool closed. *)
RemoveFile ==
  /\ \A p \in Procs : ~handle[p]
  /\ file' = FALSE
  /\ entry' = NewMap
  /\ size' = 0
  /\ undo' = NoUndo
  /\ UNCHANGED <<handle, calls>>

-----------------------------------------------------------------------------
(* The calls. *)

Invoke(t, c) ==
  /\ handle[ProcOf[t]]
  /\ stage[t] = "idle"
  /\ stage' = [stage EXCEPT ![t] = "called"]
  /\ call' = [call EXCEPT ![t] = c]
  /\ UNCHANGED <<pool, handle, ret>>

Answer(t, code, out) ==
  /\ stage' = [stage EXCEPT ![t] = "done"]
  /\ ret' = [ret EXCEPT ![t] = [code |-> code, out |-> out]]
  /\ UNCHANGED <<file, entry, handle, call>>

(* The engine writes t's update v under its undo log. *)
EngineWrite(t, k, v) ==
  /\ ~Locked(k)
  /\ undo' = [undo EXCEPT ![t] = [key |-> k, old |-> entry[k]]]
  /\ entry' = [entry EXCEPT ![k] = v]
  /\ stage' = [stage EXCEPT ![t] = "written"]
  /\ UNCHANGED <<file, size, handle, call, ret>>

pmkv_put(t) ==
  /\ stage[t] = "called"
  /\ call[t].op = "put"
  /\ \/ EngineWrite(t, call[t].key, call[t].val)
     \/ Answer(t, "OUT_OF_MEMORY", None) /\ UNCHANGED <<size, undo>>

pmkv_delete(t) ==
  /\ stage[t] = "called"
  /\ call[t].op = "delete"
  /\ \/ entry[call[t].key] # None /\ EngineWrite(t, call[t].key, None)
     \/ /\ ~Locked(call[t].key)
        /\ entry[call[t].key] = None
        /\ Answer(t, "NOT_FOUND", None)
        /\ UNCHANGED <<size, undo>>

(* How an update changes the number of entries. *)
Present(v) == IF v = None THEN 0 ELSE 1

(* Bug: an overwrite counts as an insertion. *)
DeltaOverwrite(t) == 2 * Present(entry[undo[t].key]) - 1

Delta(t) == Present(entry[undo[t].key]) - Present(undo[t].old)

EngineCount(t) ==
  /\ stage[t] = "written"
  /\ size' = size + Delta(t)
  /\ stage' = [stage EXCEPT ![t] = "counted"]
  /\ UNCHANGED <<file, entry, undo, handle, call, ret>>

EngineCommit(t) ==
  /\ stage[t] = "counted"
  /\ undo' = [undo EXCEPT ![t] = None]
  /\ Answer(t, "OK", None)
  /\ UNCHANGED size

Readable(k) == ~Locked(k)

(* pmemkv_get_copy into a buffer of MAX_VAL_LEN bytes. *)
pmkv_get(t) ==
  /\ stage[t] = "called"
  /\ call[t].op = "get"
  /\ Readable(call[t].key)
  /\ LET v == entry[call[t].key] IN
     \/ v = None /\ Answer(t, "NOT_FOUND", None)
     \/ v \in Unreadable /\ Answer(t, "OUT_OF_MEMORY", None)
     \/ v \in Values \ Unreadable /\ Answer(t, "OK", v)
  /\ UNCHANGED <<size, undo>>

(* The status OK becomes 1, anything else 0. *)
pmkv_exists(t) ==
  /\ stage[t] = "called"
  /\ call[t].op = "exists"
  /\ Readable(call[t].key)
  /\ Answer(t, "OK", Present(entry[call[t].key]))
  /\ UNCHANGED <<size, undo>>

pmkv_count_all(t) ==
  /\ stage[t] = "called"
  /\ call[t].op = "count"
  /\ Answer(t, "OK", size)
  /\ UNCHANGED <<size, undo>>

Return(t) ==
  /\ stage[t] = "done"
  /\ stage' = [stage EXCEPT ![t] = "idle"]
  /\ call' = [call EXCEPT ![t] = None]
  /\ ret' = [ret EXCEPT ![t] = None]
  /\ UNCHANGED <<pool, handle>>

(* Process p is killed: its handle and its calls are gone, the pool stays. *)
Crash(p) ==
  /\ handle[p]
  /\ handle' = [handle EXCEPT ![p] = FALSE]
  /\ stage' = [t \in Threads |-> IF ProcOf[t] = p THEN "idle" ELSE stage[t]]
  /\ call' = [t \in Threads |-> IF ProcOf[t] = p THEN None ELSE call[t]]
  /\ ret' = [t \in Threads |-> IF ProcOf[t] = p THEN None ELSE ret[t]]
  /\ UNCHANGED pool

Step(t) ==
  \/ pmkv_put(t) \/ pmkv_delete(t) \/ EngineCount(t) \/ EngineCommit(t)
  \/ pmkv_get(t) \/ pmkv_exists(t) \/ pmkv_count_all(t) \/ Return(t)

Next ==
  \/ \E p \in Procs :
       (\E force_create \in BOOLEAN : pmkv_open(p, force_create)) \/ pmkv_close(p) \/ Crash(p)
  \/ RemoveFile
  \/ \E t \in Threads : (\E c \in Store!Calls : Invoke(t, c)) \/ Step(t)

Spec == Init /\ [][Next]_vars

-----------------------------------------------------------------------------
(* Properties. *)

(* With no call under way pmkv_count_all is the number of keys pmkv_exists   *)
(* finds, after a recovery too.                                              *)
CountAgrees ==
  (\A t \in Threads : stage[t] = "idle") /\ (\E p \in Procs : handle[p])
    => size = Cardinality({k \in Keys : entry[k] # None})

(* pmemkv.c implements pmkv.h: its calls are linearizable, an update that    *)
(* returned survives any crash, and one that was cut off is there in full    *)
(* or not at all.                                                            *)
ImplementsStore == Store!Spec
=============================================================================
