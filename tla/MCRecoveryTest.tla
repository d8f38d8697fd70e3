--------------------------- MODULE MCRecoveryTest ---------------------------
(* Three keys and two iterations of each of the three tests. *)
EXTENDS RecoveryTest

MCKeys == 1 .. NUM_OP
MCThreads == {parent, child}
MCProcOf == [t \in MCThreads |-> t]
=============================================================================
