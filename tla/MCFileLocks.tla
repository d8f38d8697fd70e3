---------------------------- MODULE MCFileLocks -----------------------------
(* Three processes, the first of which calls LockFile from two threads.       *)
EXTENDS FileLocks, TLC
CONSTANTS t1, t2, t3, t4, p1, p2, p3

MCProcOf == (t1 :> p1) @@ (t2 :> p1) @@ (t3 :> p2) @@ (t4 :> p3)
=============================================================================
