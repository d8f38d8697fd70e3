---------------------------- MODULE RecoveryTest ----------------------------
(***************************************************************************)
(* test/recovery_test.cc run against PMemKV: the fixture, the three tests, *)
(* the child that works on the inherited handle until it is killed, and    *)
(* the parent that kills it, reopens the pool and counts.                  *)
(*                                                                         *)
(* The value the tests store under key i is i itself.  POOL_SIZE is ample, *)
(* so no put runs out of memory, and sleep(1) is long enough for the       *)
(* signal to have killed the child: the parent does not wait for it in any *)
(* other way.                                                              *)
(***************************************************************************)
EXTENDS PMemKV

CONSTANTS
  parent, child,   \* the two processes, each with its one thread
  NUM_OP,          \* keys per test
  ITERATION        \* iterations per test

ASSUME RecoveryTestAssumption ==
  /\ NUM_OP \in Nat \ {0} /\ ITERATION \in Nat \ {0}
  /\ Threads = {parent, child} /\ ProcOf[parent] # ProcOf[child]
  /\ Keys = 1 .. NUM_OP /\ Values = 1 .. NUM_OP /\ Unreadable = {}

VARIABLES
  test,            \* which of the three tests runs
  ppc, cpc,        \* where the parent and the child are
  iter,            \* the parent's iteration
  i,               \* the loop variable of FillSeq or DeleteSeq
  sig,             \* SIGSEGV has been sent to the child
  j, cnt, cnt_all, \* SanityCheck's loop variable and its two counts
  failed           \* an assertion of the test has failed

script == <<test, ppc, cpc, iter, i, sig, j, cnt, cnt_all, failed>>
testvars == <<vars, script>>

Tests == {"FillSeq", "OverwriteSeq", "DeleteSeq"}

TestInit ==
  /\ Init
  /\ test \in Tests
  /\ ppc = "remove"
  /\ cpc = "none"
  /\ iter = 0
  /\ i = 1
  /\ sig = FALSE
  /\ j = 1
  /\ cnt = 0
  /\ cnt_all = 0
  /\ failed = FALSE

-----------------------------------------------------------------------------
(* The engine's part of a call: everything up to its return. *)
Work(t) ==
  /\ stage[t] \in {"called", "written", "counted"}
  /\ Step(t)
  /\ ~(stage'[t] = "done" /\ ret'[t].code = "OUT_OF_MEMORY")
  /\ UNCHANGED script

(* Bug: Cleanup leaves the pool file where it is. *)
RemoveForgotten ==
  /\ ppc = "remove"
  /\ ppc' = "create"
  /\ UNCHANGED <<vars, test, cpc, iter, i, sig, j, cnt, cnt_all, failed>>

(* std::remove(PATH), in the constructor and in Cleanup. *)
Remove ==
  /\ ppc = "remove"
  /\ RemoveFile
  /\ ppc' = "create"
  /\ UNCHANGED <<test, cpc, iter, i, sig, j, cnt, cnt_all, failed>>

(* Start(create), with its assertion that the handle is valid. *)
Start(create, next) ==
  IF CanOpen(create)
  THEN pmkv_open(ProcOf[parent], create) /\ ppc' = next /\ UNCHANGED failed
  ELSE ppc' = "end" /\ failed' = TRUE /\ UNCHANGED vars

(* The constructor's Start goes on to the first Cleanup, Cleanup's to the test. *)
Create ==
  /\ ppc = "create"
  /\ Start(TRUE, IF iter = 0 THEN "cleanup" ELSE IF test = "FillSeq" THEN "fork" ELSE "fill")
  /\ UNCHANGED <<test, cpc, iter, i, sig, j, cnt, cnt_all>>

(* Bug: the loop over the iterations does not count. *)
CleanupForever ==
  /\ ppc = "cleanup"
  /\ pmkv_close(ProcOf[parent])
  /\ iter' = 1
  /\ ppc' = "remove"
  /\ cpc' = "none"
  /\ i' = 1
  /\ UNCHANGED <<test, sig, j, cnt, cnt_all, failed>>

(* An iteration begins: Cleanup deletes kv, then removes and creates the pool. *)
Cleanup ==
  /\ ppc = "cleanup"
  /\ pmkv_close(ProcOf[parent])
  /\ IF iter < ITERATION THEN iter' = iter + 1 /\ ppc' = "remove"
                         ELSE iter' = iter /\ ppc' = "end"
  /\ cpc' = "none"
  /\ i' = 1
  /\ UNCHANGED <<test, sig, j, cnt, cnt_all, failed>>

LoopDone == i > NUM_OP

(* FillSeq in the parent, or the child's loop: one operation per key. *)
CallSeq(t, op) ==
  /\ ~LoopDone
  /\ Invoke(t, IF op = "put" THEN [op |-> "put", key |-> i, val |-> i]
                             ELSE [op |-> op, key |-> i])
  /\ UNCHANGED script

ParentFillCall == ppc = "fill" /\ CallSeq(parent, "put")

ParentFillReturn ==
  /\ ppc = "fill"
  /\ Return(parent)
  /\ failed' = (failed \/ ret[parent].code # "OK")
  /\ i' = i + 1
  /\ UNCHANGED <<test, ppc, cpc, iter, sig, j, cnt, cnt_all>>

(* fork(): the child inherits the handle. *)
Fork ==
  /\ ppc = "fork" \/ (ppc = "fill" /\ LoopDone /\ stage[parent] = "idle")
  /\ ppc' = "kill"
  /\ cpc' = "loop"
  /\ i' = 1
  /\ sig' = FALSE
  /\ handle' = [handle EXCEPT ![ProcOf[child]] = TRUE]
  /\ UNCHANGED <<pool, calls, test, iter, j, cnt, cnt_all, failed>>

ChildCall == cpc = "loop" /\ CallSeq(child, IF test = "DeleteSeq" THEN "delete" ELSE "put")

(* The loop's end, or a failed assertion, takes the child to raise(SIGSEGV). *)
ChildReturn ==
  /\ cpc = "loop"
  /\ Return(child)
  /\ i' = i + 1
  /\ cpc' = IF ret[child].code = "OK" /\ ~LoopDone' THEN "loop" ELSE "raise"
  /\ UNCHANGED <<test, ppc, iter, sig, j, cnt, cnt_all, failed>>

(* The signal takes the child wherever it is; with its loop done it raises it. *)
ChildDies ==
  /\ cpc = "raise" \/ (sig /\ cpc = "loop")
  /\ Crash(ProcOf[child])
  /\ cpc' = "dead"
  /\ UNCHANGED <<test, ppc, iter, i, sig, j, cnt, cnt_all, failed>>

(* After usleep(100000), however far the child has got. *)
Kill ==
  /\ ppc = "kill"
  /\ ppc' = "sleep"
  /\ sig' = TRUE
  /\ UNCHANGED <<vars, test, cpc, iter, i, j, cnt, cnt_all, failed>>

Sleep ==
  /\ ppc = "sleep"
  /\ cpc = "dead"
  /\ ppc' = "restart"
  /\ UNCHANGED <<vars, test, cpc, iter, i, sig, j, cnt, cnt_all, failed>>

(* Restart: delete kv, Start(false). *)
RestartClose ==
  /\ ppc = "restart"
  /\ pmkv_close(ProcOf[parent])
  /\ ppc' = "reopen"
  /\ UNCHANGED <<test, cpc, iter, i, sig, j, cnt, cnt_all, failed>>

RestartOpen ==
  /\ ppc = "reopen"
  /\ Start(FALSE, "count")
  /\ UNCHANGED <<test, cpc, iter, i, sig, j, cnt, cnt_all>>

(* SanityCheck: count_all, then one get per key. *)
CountCall ==
  /\ ppc = "count"
  /\ Invoke(parent, [op |-> "count"])
  /\ UNCHANGED script

CountReturn ==
  /\ ppc = "count"
  /\ Return(parent)
  /\ cnt_all' = ret[parent].out
  /\ ppc' = "get"
  /\ j' = 1
  /\ cnt' = 0
  /\ UNCHANGED <<test, cpc, iter, i, sig, failed>>

GetCall ==
  /\ ppc = "get"
  /\ j <= NUM_OP
  /\ Invoke(parent, [op |-> "get", key |-> j])
  /\ UNCHANGED script

GetReturn ==
  /\ ppc = "get"
  /\ Return(parent)
  /\ cnt' = IF ret[parent] = [code |-> "OK", out |-> j] THEN cnt + 1 ELSE cnt
  /\ j' = j + 1
  /\ UNCHANGED <<test, ppc, cpc, iter, i, sig, cnt_all, failed>>

SanityAssert ==
  /\ ppc = "get"
  /\ j = NUM_OP + 1
  /\ failed' = (failed \/ cnt_all # cnt)
  /\ ppc' = "cleanup"
  /\ UNCHANGED <<vars, test, cpc, iter, i, sig, j, cnt, cnt_all>>

Parent ==
  \/ Remove \/ Create \/ Cleanup \/ ParentFillCall \/ ParentFillReturn \/ Fork \/ Kill
  \/ Sleep \/ RestartClose \/ RestartOpen \/ CountCall \/ CountReturn \/ GetCall
  \/ GetReturn \/ SanityAssert \/ Work(parent)

Child == ChildCall \/ ChildReturn \/ Work(child) \/ ChildDies

TestNext == Parent \/ Child

TestSpec == TestInit /\ [][TestNext]_testvars

(* Both processes are scheduled, and a signal is delivered. *)
FairTestSpec ==
  /\ TestSpec
  /\ WF_testvars(Parent)
  /\ WF_testvars(Child)
  /\ WF_testvars(ChildDies)

-----------------------------------------------------------------------------
(* Properties. *)

Found == {k \in Keys : entry[k] # None}

(* The harness raises no false alarm: against a store that is atomic and     *)
(* durable no assertion of the tests fails, whenever the child is killed.    *)
NoFalseAlarm == ~failed

(* What the recovered pool holds is what the child's acknowledged operations *)
(* made of it, give or take the one it was in.                               *)
RecoveredPrefix ==
  ppc \in {"count", "get"} =>
    \E m \in {i - 1, i} :
      Found = CASE test = "FillSeq" -> 1 .. m \cap Keys
                [] test = "OverwriteSeq" -> Keys
                [] test = "DeleteSeq" -> Keys \ (1 .. m)

(* The test comes to its end.                                                *)
TestEnds == <>(ppc = "end")
=============================================================================
