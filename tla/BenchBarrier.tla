---------------------------- MODULE BenchBarrier ----------------------------
(***************************************************************************)
(* How bench/bench.cc runs one benchmark on n threads: RunBenchmark (the   *)
(* main thread), ThreadBody (each worker) and the loop of BGWriter, which  *)
(* all meet on one SharedState: a mutex, a condition variable and three    *)
(* fields.  SharedState lives in RunBenchmark's stack frame and nobody     *)
(* joins the workers, so the counters are the only thing that keeps the    *)
(* frame, the ThreadArg array and the ThreadState objects alive for as     *)
(* long as a worker uses them.                                             *)
(*                                                                         *)
(* A benchmark's own reads and writes are left abstract here (a worker in  *)
(* "run" returns sooner or later); BenchRun adds them.                     *)
(***************************************************************************)
EXTENDS Integers, FiniteSets

CONSTANTS
  MaxThreads,   \* the largest n RunBenchmark is called with
  Main,         \* the thread that calls RunBenchmark
  Nobody        \* "the mutex is free"

ASSUME MaxThreadsAssumption == MaxThreads \in Nat

ASSUME NamesAssumption == Main \notin Nat /\ Nobody \notin Nat /\ Main # Nobody

Tids == 0 .. MaxThreads - 1

VARIABLES
  alive,             \* the process has not aborted
  main,              \* where the main thread is in RunBenchmark
  spawned,           \* the loop index i of RunBenchmark's StartThread loop
  pc,                \* where each worker is in ThreadBody
  bgwriter,          \* the method is ReadWhileWriting: tid 0 runs BGWriter
  mu,                \* who holds shared.mu
  waiting,           \* the threads blocked in shared.cv.Wait()
  total, num_initialized, num_done, start   \* the fields of SharedState

shared == <<total, num_initialized, num_done, start>>
vars == <<alive, main, spawned, pc, bgwriter, mu, waiting, shared>>

(* The places where a thread holds shared.mu. *)
MainLocked == {"init_check", "done_check"}
Locked == {"init_cs", "start_check", "bg_check", "done_cs", "done_unlock"}

(* Worker pcs by phase of ThreadBody. *)
Preparing == {"init", "init_cs"}
AtBarrier == {"start_check", "start_wait"}
InMethod == {"run", "bg_lock", "bg_check", "bg_put"}
Finishing == {"done_lock", "done_cs"}
Finished == {"done_unlock", "exited"}

TypeOK ==
  /\ alive \in BOOLEAN
  /\ main \in {"idle", "spawn", "init_wait", "done_wait", "report"} \cup MainLocked
  /\ spawned \in 0 .. MaxThreads
  /\ pc \in [Tids -> Preparing \cup AtBarrier \cup InMethod \cup Finishing \cup Finished]
  /\ bgwriter \in BOOLEAN
  /\ mu \in Tids \cup {Main, Nobody}
  /\ waiting \subseteq Tids \cup {Main}
  /\ total \in 0 .. MaxThreads
  /\ num_initialized \in Nat
  /\ num_done \in Nat
  /\ start \in BOOLEAN

Init ==
  /\ alive = TRUE
  /\ main = "idle"
  /\ spawned = 0
  /\ pc = [t \in Tids |-> "exited"]
  /\ bgwriter = FALSE
  /\ mu = Nobody
  /\ waiting = {}
  /\ total = 0
  /\ num_initialized = 0
  /\ num_done = 0
  /\ start = FALSE

-----------------------------------------------------------------------------
(* The main thread. *)

(* The call: SharedState is constructed on the stack, ThreadArg allocated. *)
RunBenchmark(n, bg) ==
  /\ main = "idle"
  /\ main' = "spawn"
  /\ spawned' = 0
  /\ bgwriter' = bg
  /\ mu' = Nobody
  /\ waiting' = {}
  /\ total' = n
  /\ num_initialized' = 0
  /\ num_done' = 0
  /\ start' = FALSE
  /\ UNCHANGED <<alive, pc>>

(* One turn of the loop that starts the workers. *)
StartThread ==
  /\ main = "spawn"
  /\ spawned < total
  /\ pc' = [pc EXCEPT ![spawned] = "init"]
  /\ spawned' = spawned + 1
  /\ UNCHANGED <<alive, main, bgwriter, mu, waiting, shared>>

MainLock ==
  /\ main = "spawn"
  /\ spawned = total
  /\ mu = Nobody
  /\ mu' = Main
  /\ main' = "init_check"
  /\ UNCHANGED <<alive, spawned, pc, bgwriter, waiting, shared>>

(* Bug: off by one. *)
MainMustWaitInitOffByOne == num_initialized + 1 < total

MainMustWaitInit == num_initialized < total

(* while (num_initialized < n) cv.Wait(); then start = true and SignalAll. *)
MainInitWait ==
  /\ main = "init_check"
  /\ MainMustWaitInit
  /\ main' = "init_wait"
  /\ mu' = Nobody
  /\ waiting' = waiting \cup {Main}
  /\ UNCHANGED <<alive, spawned, pc, bgwriter, shared>>

MainStart ==
  /\ main = "init_check"
  /\ ~MainMustWaitInit
  /\ start' = TRUE
  /\ waiting' = {}
  /\ main' = "done_check"
  /\ UNCHANGED <<alive, spawned, pc, bgwriter, mu, total, num_initialized, num_done>>

(* Bug: off by one. *)
MainMustWaitDoneOffByOne == num_done + 1 < total

MainMustWaitDone == num_done < total

(* while (num_done < n) cv.Wait(); then Unlock. *)
MainDoneWait ==
  /\ main = "done_check"
  /\ MainMustWaitDone
  /\ main' = "done_wait"
  /\ mu' = Nobody
  /\ waiting' = waiting \cup {Main}
  /\ UNCHANGED <<alive, spawned, pc, bgwriter, shared>>

MainUnlock ==
  /\ main = "done_check"
  /\ ~MainMustWaitDone
  /\ main' = "report"
  /\ mu' = Nobody
  /\ UNCHANGED <<alive, spawned, pc, bgwriter, waiting, shared>>

(* cv.Wait() returns to the main thread: it was signalled and has the mutex. *)
MainWake ==
  /\ main \in {"init_wait", "done_wait"}
  /\ Main \notin waiting
  /\ mu = Nobody
  /\ mu' = Main
  /\ main' = IF main = "init_wait" THEN "init_check" ELSE "done_check"
  /\ UNCHANGED <<alive, spawned, pc, bgwriter, waiting, shared>>

(* The threads' statistics are reported, the ThreadStates and the ThreadArg *)
(* array deleted, and the frame that holds SharedState is left.             *)
ReportAndReturn ==
  /\ main = "report"
  /\ main' = "idle"
  /\ UNCHANGED <<alive, spawned, pc, bgwriter, mu, waiting, shared>>

-----------------------------------------------------------------------------
(* A worker t. *)

(* MutexLock's constructor, at the three places ThreadBody and BGWriter have it. *)
Lock(t, from, to) ==
  /\ pc[t] = from
  /\ mu = Nobody
  /\ mu' = t
  /\ pc' = [pc EXCEPT ![t] = to]
  /\ UNCHANGED <<alive, main, spawned, bgwriter, waiting, shared>>

InitLock(t) == Lock(t, "init", "init_cs")
BGLock(t) == Lock(t, "bg_lock", "bg_check")
DoneLock(t) == Lock(t, "done_lock", "done_cs")

(* Bug: the last arrival does not signal. *)
WaitersAfterLate(count) == IF count > total THEN {} ELSE waiting

(* The waiters left by "if (count >= total) cv.SignalAll()". *)
WaitersAfter(count) == IF count >= total THEN {} ELSE waiting

InitIncrement(t) ==
  /\ pc[t] = "init_cs"
  /\ num_initialized' = num_initialized + 1
  /\ waiting' = WaitersAfter(num_initialized')
  /\ pc' = [pc EXCEPT ![t] = "start_check"]
  /\ UNCHANGED <<alive, main, spawned, bgwriter, mu, total, num_done, start>>

(* while (!start) cv.Wait(); *)
StartWait(t) ==
  /\ pc[t] = "start_check"
  /\ ~start
  /\ pc' = [pc EXCEPT ![t] = "start_wait"]
  /\ mu' = Nobody
  /\ waiting' = waiting \cup {t}
  /\ UNCHANGED <<alive, main, spawned, bgwriter, shared>>

StartWake(t) ==
  /\ pc[t] = "start_wait"
  /\ t \notin waiting
  /\ mu = Nobody
  /\ mu' = t
  /\ pc' = [pc EXCEPT ![t] = "start_check"]
  /\ UNCHANGED <<alive, main, spawned, bgwriter, waiting, shared>>

(* The method is called; ReadWhileWriting sends tid 0 to BGWriter. *)
EnterMethod(t) ==
  /\ pc[t] = "start_check"
  /\ start
  /\ pc' = [pc EXCEPT ![t] = IF bgwriter /\ t = 0 THEN "bg_lock" ELSE "run"]
  /\ mu' = Nobody
  /\ UNCHANGED <<alive, main, spawned, bgwriter, waiting, shared>>

MethodReturn(t) ==
  /\ pc[t] = "run"
  /\ pc' = [pc EXCEPT ![t] = "done_lock"]
  /\ UNCHANGED <<alive, main, spawned, bgwriter, mu, waiting, shared>>

(* Bug: the writer counts itself twice. *)
OthersDoneOffByOne == num_done + 2 >= num_initialized

OthersDone == num_done + 1 >= num_initialized

(* BGWriter's test under the mutex: leave the loop, or put one more key. *)
BGCheck(t) ==
  /\ pc[t] = "bg_check"
  /\ pc' = [pc EXCEPT ![t] = IF OthersDone THEN "done_lock" ELSE "bg_put"]
  /\ mu' = Nobody
  /\ UNCHANGED <<alive, main, spawned, bgwriter, waiting, shared>>

BGPut(t) ==
  /\ pc[t] = "bg_put"
  /\ pc' = [pc EXCEPT ![t] = "bg_lock"]
  /\ UNCHANGED <<alive, main, spawned, bgwriter, mu, waiting, shared>>

DoneIncrement(t) ==
  /\ pc[t] = "done_cs"
  /\ num_done' = num_done + 1
  /\ waiting' = WaitersAfter(num_done')
  /\ pc' = [pc EXCEPT ![t] = "done_unlock"]
  /\ UNCHANGED <<alive, main, spawned, bgwriter, mu, total, num_initialized, start>>

(* MutexLock's destructor: the last use of shared, arg and thread by t. *)
DoneUnlock(t) ==
  /\ pc[t] = "done_unlock"
  /\ mu' = Nobody
  /\ pc' = [pc EXCEPT ![t] = "exited"]
  /\ UNCHANGED <<alive, main, spawned, bgwriter, waiting, shared>>

-----------------------------------------------------------------------------
(* pthread_cond_wait may return without a signal. *)
SpuriousWake(x) ==
  /\ x \in waiting
  /\ waiting' = waiting \ {x}
  /\ UNCHANGED <<alive, main, spawned, pc, bgwriter, mu, shared>>

(* pthread_create fails and PthreadCall aborts, or a put throws in a worker, *)
(* where nothing catches it.                                                 *)
Abort ==
  /\ \/ main = "spawn" /\ spawned < total
     \/ \E t \in Tids : pc[t] \in {"run", "bg_put"}
  /\ alive' = FALSE
  /\ UNCHANGED <<main, spawned, pc, bgwriter, mu, waiting, shared>>

MainStep ==
  \/ StartThread \/ MainLock \/ MainInitWait \/ MainStart
  \/ MainDoneWait \/ MainUnlock \/ MainWake \/ ReportAndReturn

ThreadBody(t) ==
  \/ InitLock(t) \/ InitIncrement(t) \/ StartWait(t) \/ StartWake(t)
  \/ EnterMethod(t) \/ MethodReturn(t)
  \/ BGLock(t) \/ BGCheck(t) \/ BGPut(t)
  \/ DoneLock(t) \/ DoneIncrement(t) \/ DoneUnlock(t)

Next ==
  /\ alive
  /\ \/ \E n \in 0 .. MaxThreads, bg \in BOOLEAN : RunBenchmark(n, bg)
     \/ MainStep
     \/ \E t \in Tids : ThreadBody(t)
     \/ \E x \in Tids \cup {Main} : SpuriousWake(x)
     \/ Abort

Spec == Init /\ [][Next]_vars

(* A started thread keeps running, a benchmark method terminates, and a     *)
(* thread that asks for a mutex which is released again and again gets it.  *)
Fairness ==
  /\ SF_vars(alive /\ MainStep)
  /\ \A t \in Tids : SF_vars(alive /\ ThreadBody(t))

FairSpec == Spec /\ Fairness

-----------------------------------------------------------------------------
(* Properties. *)

(* The workers whose threads RunBenchmark has started in this call. *)
Started == 0 .. spawned - 1

(* The barrier of ThreadBody: a benchmark method runs in some thread only   *)
(* when all n threads have started and counted themselves in, so that the   *)
(* measured operations really are concurrent.                               *)
NobodyRunsEarly ==
  (\E t \in Tids : pc[t] \in InMethod)
    => spawned = total /\ \A t \in Started : pc[t] \notin Preparing

(* RunBenchmark joins nobody, yet once it has seen num_done = n, and as     *)
(* long as it is not inside a call, no worker touches its stack frame, the  *)
(* ThreadArg array or the ThreadStates (whose statistics it reads).         *)
NoUseAfterReturn ==
  main \in {"report", "idle"} => \A t \in Tids : pc[t] = "exited"

(* BGWriter keeps the store busy for as long as any reader of               *)
(* readwhilewriting is still reading.                                       *)
WriterOutlastsReaders ==
  bgwriter /\ 0 \in Started /\ pc[0] \in Finishing \cup Finished
    => \A t \in Started \ {0} : pc[t] \in Finished

(* Every call of RunBenchmark returns unless the process aborts: no wakeup  *)
(* is lost at the barrier or at the end, and BGWriter stops.                *)
RunBenchmarkReturns == main # "idle" ~> main = "idle" \/ ~alive
=============================================================================
