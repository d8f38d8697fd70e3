----------------------------- MODULE PMKVStore ------------------------------
(***************************************************************************)
(* What include/pmkv.h promises its callers: a durable, linearizable map.  *)
(* A call takes effect at one instant between its invocation and its       *)
(* return; a crash forgets the calls under way and nothing else.           *)
(***************************************************************************)
EXTENDS Integers, FiniteSets

CONSTANTS
  Threads,      \* the callers
  Keys, Values,
  Unreadable,   \* the values longer than MAX_VAL_LEN
  None          \* no value

Calls == [op : {"put"}, key : Keys, val : Values]
         \cup [op : {"get", "delete", "exists"}, key : Keys]
         \cup [op : {"count"}]

(* The statuses of a call. *)
Codes == {"OK", "NOT_FOUND", "OUT_OF_MEMORY"}

VARIABLES
  db,      \* the value of each key, None if absent
  stage,   \* of each caller: outside a call, in it, or past its effect
  call,    \* the call under way, None outside
  ret      \* its result, None until it has one

vars == <<db, stage, call, ret>>

Present(map) == {k \in Keys : map[k] # None}

Init ==
  /\ db = [k \in Keys |-> None]
  /\ stage = [t \in Threads |-> "idle"]
  /\ call = [t \in Threads |-> None]
  /\ ret = [t \in Threads |-> None]

Invoke(t, c) ==
  /\ stage[t] = "idle"
  /\ stage' = [stage EXCEPT ![t] = "called"]
  /\ call' = [call EXCEPT ![t] = c]
  /\ UNCHANGED <<db, ret>>

(* What pmkv_get makes of a value. *)
Fetched(v) ==
  IF v = None THEN [code |-> "NOT_FOUND", out |-> None]
  ELSE IF v \in Unreadable THEN [code |-> "OUT_OF_MEMORY", out |-> None]
  ELSE [code |-> "OK", out |-> v]

(* The updates that are under way beside t's call. *)
Updating(t) ==
  {u \in Threads \ {t} : stage[u] # "idle" /\ call[u].op \in {"put", "delete"}}

(* Effect and result of a call; only an update changes the map, and         *)
(* pmkv_count_all is exact but for the updates under way.                   *)
Outcome(t, c, result, map) ==
  CASE c.op = "put" ->
         \/ map = [db EXCEPT ![c.key] = c.val] /\ result = [code |-> "OK", out |-> None]
         \/ map = db /\ result = [code |-> "OUT_OF_MEMORY", out |-> None]
    [] c.op = "delete" ->
         /\ map = [db EXCEPT ![c.key] = None]
         /\ result = [code |-> IF db[c.key] = None THEN "NOT_FOUND" ELSE "OK", out |-> None]
    [] c.op = "get" ->
         map = db /\ result = Fetched(db[c.key])
    [] c.op = "exists" ->
         map = db /\ result = [code |-> "OK", out |-> IF db[c.key] = None THEN 0 ELSE 1]
    [] c.op = "count" ->
         /\ map = db
         /\ \E d \in -Cardinality(Updating(t)) .. Cardinality(Updating(t)) :
              result = [code |-> "OK", out |-> Cardinality(Present(db)) + d]

TakeEffect(t) ==
  /\ stage[t] = "called"
  /\ stage' = [stage EXCEPT ![t] = "done"]
  /\ Outcome(t, call[t], ret'[t], db')
  /\ \A u \in Threads \ {t} : ret'[u] = ret[u]
  /\ UNCHANGED call

Return(t) ==
  /\ stage[t] = "done"
  /\ stage' = [stage EXCEPT ![t] = "idle"]
  /\ call' = [call EXCEPT ![t] = None]
  /\ ret' = [ret EXCEPT ![t] = None]
  /\ UNCHANGED db

Forget(T) ==
  /\ stage' = [t \in Threads |-> IF t \in T THEN "idle" ELSE stage[t]]
  /\ call' = [t \in Threads |-> IF t \in T THEN None ELSE call[t]]
  /\ ret' = [t \in Threads |-> IF t \in T THEN None ELSE ret[t]]

(* A process dies with the calls of its threads T. *)
Crash(T) == Forget(T) /\ UNCHANGED db

(* A new pool replaces the old one. *)
Fresh ==
  /\ \A t \in Threads : stage[t] = "idle"
  /\ db' = [k \in Keys |-> None]
  /\ UNCHANGED <<stage, call, ret>>

Next ==
  \/ \E t \in Threads : (\E c \in Calls : Invoke(t, c)) \/ TakeEffect(t) \/ Return(t)
  \/ \E T \in SUBSET Threads : Crash(T)
  \/ Fresh

Spec == Init /\ [][Next]_vars
=============================================================================
