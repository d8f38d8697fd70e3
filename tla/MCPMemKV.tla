------------------------------ MODULE MCPMemKV ------------------------------
(* One process with two threads on two keys, one of whose values is longer   *)
(* than the buffer pmkv_get copies into.                                     *)
EXTENDS PMemKV
CONSTANTS t1, t2, p1, k1, k2, short, long

MCThreads == {t1, t2}
MCProcOf == [t \in MCThreads |-> p1]
=============================================================================
