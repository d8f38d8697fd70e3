------------------------- MODULE BenchBarrierProofs -------------------------
(***************************************************************************)
(* The safety properties of BenchBarrier, for every number of threads.     *)
(***************************************************************************)
EXTENDS BenchBarrier, FiniteSetTheorems, TLAPS

(* The threads that have counted themselves in, and out. *)
CountedIn == {t \in Started : pc[t] \notin Preparing}
CountedOut == {t \in Started : pc[t] \in Finished}

MutexInv ==
  /\ \A t \in Tids : pc[t] \in Locked <=> mu = t
  /\ main \in MainLocked <=> mu = Main

CountInv ==
  /\ num_initialized = Cardinality(CountedIn)
  /\ num_done = Cardinality(CountedOut)

PhaseInv ==
  /\ spawned <= total
  /\ main \notin {"idle", "spawn"} => spawned = total
  /\ main \in {"spawn", "init_check", "init_wait"} => ~start
  /\ start => spawned = total /\ CountedIn = Started
  /\ \A t \in Started : pc[t] \in InMethod \cup Finishing \cup Finished => start
  /\ \A t \in Tids \ Started : pc[t] = "exited"
  /\ bgwriter /\ 0 \in Started => pc[0] # "run"

(* The inductive invariant: each counter is the number of threads past its  *)
(* increment, the mutex is held by exactly the thread whose pc says so, and *)
(* start is raised only over a full barrier.                                *)
IInv == /\ TypeOK /\ MutexInv /\ CountInv /\ PhaseInv
        /\ NobodyRunsEarly /\ NoUseAfterReturn /\ WriterOutlastsReaders

-----------------------------------------------------------------------------
(* The main thread and "nobody" are no workers. *)
LEMMA TidsFacts ==
  Main \notin Tids /\ Nobody \notin Tids /\ Main # Nobody /\ Tids \subseteq Nat
BY MaxThreadsAssumption, NamesAssumption DEF Tids

(* The sets that the two counters count are finite. *)
LEMMA Finiteness ==
  ASSUME TypeOK
  PROVE  /\ IsFiniteSet(Started) /\ Cardinality(Started) = spawned
         /\ IsFiniteSet(CountedIn) /\ Cardinality(CountedIn) \in Nat
         /\ IsFiniteSet(CountedOut) /\ Cardinality(CountedOut) \in Nat
         /\ Started \subseteq Tids
<1>1. spawned \in Nat /\ spawned <= MaxThreads
  BY MaxThreadsAssumption DEF TypeOK
<1>2. IsFiniteSet(0 .. spawned - 1) /\ Cardinality(0 .. spawned - 1) = spawned
  BY <1>1, FS_Interval
<1>3. CountedIn \subseteq Started /\ CountedOut \subseteq Started
  BY DEF CountedIn, CountedOut
<1>4. Started \subseteq Tids
  BY <1>1, MaxThreadsAssumption DEF Started, Tids
<1> QED BY <1>2, <1>3, <1>4, FS_Subset, FS_CardinalityType DEF Started

(* A full counter is a full set. *)
LEMMA FullCount ==
  ASSUME NEW S, NEW T, IsFiniteSet(S), T \subseteq S,
         Cardinality(T) >= Cardinality(S)
  PROVE  T = S
<1>1. Cardinality(T) <= Cardinality(S)
  BY FS_Subset
<1>2. Cardinality(T) \in Nat /\ Cardinality(S) \in Nat
  BY FS_Subset, FS_CardinalityType
<1> QED BY <1>1, <1>2, FS_Subset

(* With no call under way the invariant holds. *)
LEMMA InitIInv == Init => IInv
<1> SUFFICES ASSUME Init PROVE IInv
  OBVIOUS
<1>1. TypeOK
  <2>1. pc \in [Tids -> Preparing \cup AtBarrier \cup InMethod \cup Finishing \cup Finished]
    BY DEF Init, Finished
  <2>2. /\ spawned \in 0 .. MaxThreads /\ total \in 0 .. MaxThreads
        /\ num_initialized \in Nat /\ num_done \in Nat
    BY MaxThreadsAssumption DEF Init
  <2> QED BY <2>1, <2>2 DEF Init, TypeOK
<1>2. Started = {} /\ CountedIn = {} /\ CountedOut = {}
  BY DEF Init, Started, CountedIn, CountedOut
<1>3. CountInv
  BY <1>2, FS_EmptySet DEF Init, CountInv
<1>4. MutexInv
  BY TidsFacts DEF Init, MutexInv, Locked, MainLocked
<1>5. PhaseInv
  BY <1>2 DEF Init, PhaseInv
<1>6. NobodyRunsEarly /\ NoUseAfterReturn /\ WriterOutlastsReaders
  BY <1>2 DEF Init, NobodyRunsEarly, NoUseAfterReturn, WriterOutlastsReaders, InMethod
<1> QED BY <1>1, <1>3, <1>4, <1>5, <1>6 DEF IInv

(* What a worker's step that changes neither counter may do to the sets. *)
LEMMA Steady ==
  ASSUME TypeOK, NEW t \in Tids, NEW to,
         pc' = [pc EXCEPT ![t] = to], spawned' = spawned,
         (pc[t] \in Preparing) <=> (to \in Preparing),
         (pc[t] \in Finished) <=> (to \in Finished)
  PROVE  CountedIn' = CountedIn /\ CountedOut' = CountedOut /\ Started' = Started
BY Finiteness DEF TypeOK, CountedIn, CountedOut, Started

(* Steps that take the mutex. *)
LEMMA Acquire ==
  ASSUME IInv, NEW t \in Tids, InitLock(t) \/ BGLock(t) \/ DoneLock(t) \/ StartWake(t)
  PROVE  IInv'
<1> USE TidsFacts DEF InitLock, BGLock, DoneLock, Lock, StartWake, shared
<1>0. TypeOK /\ Started \subseteq Tids
  BY Finiteness DEF IInv
<1>1. TypeOK'
  BY DEF IInv, TypeOK, Preparing, AtBarrier, InMethod, Finishing, Finished
<1>2. CountedIn' = CountedIn /\ CountedOut' = CountedOut /\ Started' = Started
  BY <1>0, Steady DEF Preparing, Finished
<1>3. MutexInv'
  BY DEF IInv, TypeOK, MutexInv, Locked, MainLocked
<1>4. CountInv'
  BY <1>2 DEF IInv, CountInv
<1>5. PhaseInv'
  <2>1. \A u \in Started' : pc'[u] \in InMethod \cup Finishing \cup Finished => start'
    BY <1>0, <1>2 DEF IInv, TypeOK, PhaseInv, InMethod, Finishing, Finished
  <2>2. \A u \in Tids \ Started' : pc'[u] = "exited"
    BY <1>2 DEF IInv, TypeOK, PhaseInv
  <2>3. bgwriter' /\ 0 \in Started' => pc'[0] # "run"
    BY <1>0, <1>2 DEF IInv, TypeOK, PhaseInv
  <2> QED BY <1>2, <2>1, <2>2, <2>3 DEF IInv, PhaseInv
<1>6. NobodyRunsEarly'
  BY <1>2 DEF IInv, TypeOK, NobodyRunsEarly, PhaseInv, InMethod, Preparing, CountedIn
<1>7. NoUseAfterReturn'
  BY DEF IInv, TypeOK, NoUseAfterReturn
<1>8. WriterOutlastsReaders'
  BY <1>0, <1>2 DEF IInv, TypeOK, WriterOutlastsReaders, Finishing, Finished
<1> QED BY <1>1, <1>3, <1>4, <1>5, <1>6, <1>7, <1>8 DEF IInv

(* Steps that give it up: a wait, the end of a critical section. *)
LEMMA Release ==
  ASSUME IInv, NEW t \in Tids, StartWait(t) \/ EnterMethod(t) \/ DoneUnlock(t)
  PROVE  IInv'
<1> USE TidsFacts DEF StartWait, EnterMethod, DoneUnlock, shared
<1>0. TypeOK /\ Started \subseteq Tids
  BY Finiteness DEF IInv
<1>1. TypeOK'
  BY DEF IInv, TypeOK, Preparing, AtBarrier, InMethod, Finishing, Finished
<1>2. CountedIn' = CountedIn /\ CountedOut' = CountedOut /\ Started' = Started
  BY <1>0, Steady DEF Preparing, Finished
<1>3. MutexInv'
  BY DEF IInv, TypeOK, MutexInv, Locked, MainLocked
<1>4. CountInv'
  BY <1>2 DEF IInv, CountInv
<1>5. PhaseInv'
  <2>1. \A u \in Started' : pc'[u] \in InMethod \cup Finishing \cup Finished => start'
    BY <1>0, <1>2 DEF IInv, TypeOK, PhaseInv, InMethod, Finishing, Finished
  <2>2. \A u \in Tids \ Started' : pc'[u] = "exited"
    BY <1>2 DEF IInv, TypeOK, PhaseInv
  <2>3. bgwriter' /\ 0 \in Started' => pc'[0] # "run"
    BY <1>0, <1>2 DEF IInv, TypeOK, PhaseInv
  <2> QED BY <1>2, <2>1, <2>2, <2>3 DEF IInv, PhaseInv
<1>6. NobodyRunsEarly'
  BY <1>2 DEF IInv, TypeOK, NobodyRunsEarly, PhaseInv, InMethod, Preparing, CountedIn
<1>7. NoUseAfterReturn'
  BY DEF IInv, TypeOK, NoUseAfterReturn
<1>8. WriterOutlastsReaders'
  BY <1>0, <1>2 DEF IInv, TypeOK, WriterOutlastsReaders, Finishing, Finished
<1> QED BY <1>1, <1>3, <1>4, <1>5, <1>6, <1>7, <1>8 DEF IInv

(* Steps outside the critical sections. *)
LEMMA Unlocked ==
  ASSUME IInv, NEW t \in Tids, MethodReturn(t) \/ BGPut(t)
  PROVE  IInv'
<1> USE TidsFacts DEF MethodReturn, BGPut, shared
<1>0. TypeOK /\ Started \subseteq Tids
  BY Finiteness DEF IInv
<1>1. TypeOK'
  BY DEF IInv, TypeOK, Preparing, AtBarrier, InMethod, Finishing, Finished
<1>2. CountedIn' = CountedIn /\ CountedOut' = CountedOut /\ Started' = Started
  BY <1>0, Steady DEF Preparing, Finished
<1>3. MutexInv'
  BY DEF IInv, TypeOK, MutexInv, Locked, MainLocked
<1>4. CountInv'
  BY <1>2 DEF IInv, CountInv
<1>5. PhaseInv'
  <2>1. \A u \in Started' : pc'[u] \in InMethod \cup Finishing \cup Finished => start'
    BY <1>0, <1>2 DEF IInv, TypeOK, PhaseInv, InMethod, Finishing, Finished
  <2>2. \A u \in Tids \ Started' : pc'[u] = "exited"
    BY <1>2 DEF IInv, TypeOK, PhaseInv
  <2>3. bgwriter' /\ 0 \in Started' => pc'[0] # "run"
    BY <1>0, <1>2 DEF IInv, TypeOK, PhaseInv
  <2> QED BY <1>2, <2>1, <2>2, <2>3 DEF IInv, PhaseInv
<1>6. NobodyRunsEarly'
  BY <1>2 DEF IInv, TypeOK, NobodyRunsEarly, PhaseInv, InMethod, Preparing, CountedIn
<1>7. NoUseAfterReturn'
  BY DEF IInv, TypeOK, NoUseAfterReturn
<1>8. WriterOutlastsReaders'
  BY <1>0, <1>2 DEF IInv, TypeOK, PhaseInv, WriterOutlastsReaders, Finishing, Finished
<1> QED BY <1>1, <1>3, <1>4, <1>5, <1>6, <1>7, <1>8 DEF IInv

(* BGWriter's test: leaving the loop needs every other thread counted out. *)
LEMMA BGCheckStep ==
  ASSUME IInv, NEW t \in Tids, BGCheck(t)
  PROVE  IInv'
<1> USE TidsFacts DEF BGCheck, shared
<1>0. TypeOK /\ Started \subseteq Tids
  BY Finiteness DEF IInv
<1>1. TypeOK'
  BY DEF IInv, TypeOK, Preparing, AtBarrier, InMethod, Finishing, Finished
<1>2. CountedIn' = CountedIn /\ CountedOut' = CountedOut /\ Started' = Started
  BY <1>0, Steady DEF Preparing, Finished
<1>3. MutexInv'
  BY DEF IInv, TypeOK, MutexInv, Locked, MainLocked
<1>4. CountInv'
  BY <1>2 DEF IInv, CountInv
<1>5. PhaseInv'
  <2>1. \A u \in Started' : pc'[u] \in InMethod \cup Finishing \cup Finished => start'
    BY <1>0, <1>2 DEF IInv, TypeOK, PhaseInv, InMethod, Finishing, Finished
  <2>2. \A u \in Tids \ Started' : pc'[u] = "exited"
    BY <1>2 DEF IInv, TypeOK, PhaseInv
  <2>3. bgwriter' /\ 0 \in Started' => pc'[0] # "run"
    BY <1>0, <1>2 DEF IInv, TypeOK, PhaseInv
  <2> QED BY <1>2, <2>1, <2>2, <2>3 DEF IInv, PhaseInv
<1>6. NobodyRunsEarly'
  BY <1>2 DEF IInv, TypeOK, NobodyRunsEarly, PhaseInv, InMethod, Preparing, CountedIn
<1>7. NoUseAfterReturn'
  BY DEF IInv, TypeOK, NoUseAfterReturn
<1>8. WriterOutlastsReaders'
  <2>1. CASE t # 0 \/ ~OthersDone
    BY <1>0, <1>2, <2>1 DEF IInv, TypeOK, WriterOutlastsReaders, Finishing, Finished
  <2>2. CASE t = 0 /\ OthersDone
    <3>1. t \in Started /\ start
      BY DEF IInv, PhaseInv, InMethod
    <3>2. num_initialized = spawned
      BY <1>0, <3>1, Finiteness DEF IInv, PhaseInv, CountInv
    <3>3. CountedOut \subseteq Started \ {t}
      BY DEF CountedOut, Finished
    <3>4. IsFiniteSet(Started \ {t}) /\ Cardinality(Started \ {t}) = spawned - 1
      BY <1>0, <3>1, Finiteness, FS_RemoveElement
    <3>5. num_done >= spawned - 1 /\ num_done = Cardinality(CountedOut)
      BY <2>2, <3>2 DEF OthersDone, IInv, TypeOK, CountInv
    <3>6. CountedOut = Started \ {t}
      BY <3>3, <3>4, <3>5, FullCount
    <3>7. \A u \in Started \ {0} : pc[u] \in Finished
      BY <2>2, <3>6 DEF CountedOut
    <3> QED BY <1>0, <1>2, <2>2, <3>7 DEF IInv, TypeOK, WriterOutlastsReaders, Finished
  <2> QED BY <2>1, <2>2
<1> QED BY <1>1, <1>3, <1>4, <1>5, <1>6, <1>7, <1>8 DEF IInv

(* The increments move t into the set its counter counts. *)
LEMMA InitIncrementStep ==
  ASSUME IInv, NEW t \in Tids, InitIncrement(t)
  PROVE  IInv'
<1> USE TidsFacts DEF InitIncrement, WaitersAfter
<1>0. TypeOK /\ Started \subseteq Tids
  BY Finiteness DEF IInv
<1>1. TypeOK'
  <2>1. waiting' \subseteq Tids \cup {Main}
    BY <1>0 DEF TypeOK
  <2>2. pc' \in [Tids -> Preparing \cup AtBarrier \cup InMethod \cup Finishing \cup Finished]
    BY <1>0 DEF TypeOK, AtBarrier, Finished
  <2> QED BY <1>0, <2>1, <2>2 DEF TypeOK
<1>2. t \in Started /\ t \notin CountedIn /\ ~start
  BY DEF IInv, PhaseInv, Preparing, CountedIn
<1>3. CountedIn' = CountedIn \cup {t} /\ CountedOut' = CountedOut /\ Started' = Started
  BY <1>0, <1>2 DEF TypeOK, CountedIn, CountedOut, Started, Preparing, Finished
<1>4. MutexInv'
  BY DEF IInv, TypeOK, MutexInv, Locked
<1>5. CountInv'
  BY <1>0, <1>2, <1>3, Finiteness, FS_AddElement DEF IInv, CountInv
<1>6. PhaseInv'
  <2>1. \A u \in Started' : pc'[u] \in InMethod \cup Finishing \cup Finished => start'
    BY <1>0, <1>3 DEF IInv, TypeOK, PhaseInv, InMethod, Finishing, Finished
  <2>2. \A u \in Tids \ Started' : pc'[u] = "exited"
    BY <1>2, <1>3 DEF IInv, TypeOK, PhaseInv
  <2>3. bgwriter' /\ 0 \in Started' => pc'[0] # "run"
    BY <1>0, <1>3 DEF IInv, TypeOK, PhaseInv
  <2> QED BY <1>2, <1>3, <2>1, <2>2, <2>3 DEF IInv, PhaseInv
<1>7. NobodyRunsEarly'
  BY <1>2, <1>3 DEF IInv, TypeOK, NobodyRunsEarly, PhaseInv, InMethod, Preparing
<1>8. NoUseAfterReturn'
  BY DEF IInv, TypeOK, NoUseAfterReturn
<1>9. WriterOutlastsReaders'
  BY <1>0, <1>3 DEF IInv, TypeOK, WriterOutlastsReaders, Finishing, Finished
<1> QED BY <1>1, <1>4, <1>5, <1>6, <1>7, <1>8, <1>9 DEF IInv

(* The same of num_done, which lets RunBenchmark return. *)
LEMMA DoneIncrementStep ==
  ASSUME IInv, NEW t \in Tids, DoneIncrement(t)
  PROVE  IInv'
<1> USE TidsFacts DEF DoneIncrement, WaitersAfter
<1>0. TypeOK /\ Started \subseteq Tids
  BY Finiteness DEF IInv
<1>1. TypeOK'
  <2>1. waiting' \subseteq Tids \cup {Main}
    BY <1>0 DEF TypeOK
  <2>2. pc' \in [Tids -> Preparing \cup AtBarrier \cup InMethod \cup Finishing \cup Finished]
    BY <1>0 DEF TypeOK, AtBarrier, Finished
  <2> QED BY <1>0, <2>1, <2>2 DEF TypeOK
<1>2. t \in Started /\ t \notin CountedOut /\ start
  BY DEF IInv, PhaseInv, Finishing, Finished, CountedOut
<1>3. CountedIn' = CountedIn /\ CountedOut' = CountedOut \cup {t} /\ Started' = Started
  BY <1>0, <1>2 DEF TypeOK, CountedIn, CountedOut, Started, Preparing, Finished
<1>4. MutexInv'
  BY DEF IInv, TypeOK, MutexInv, Locked
<1>5. CountInv'
  BY <1>0, <1>2, <1>3, Finiteness, FS_AddElement DEF IInv, CountInv
<1>6. PhaseInv'
  <2>1. \A u \in Started' : pc'[u] \in InMethod \cup Finishing \cup Finished => start'
    BY <1>2
  <2>2. \A u \in Tids \ Started' : pc'[u] = "exited"
    BY <1>2, <1>3 DEF IInv, TypeOK, PhaseInv
  <2>3. bgwriter' /\ 0 \in Started' => pc'[0] # "run"
    BY <1>0, <1>3 DEF IInv, TypeOK, PhaseInv
  <2> QED BY <1>2, <1>3, <2>1, <2>2, <2>3 DEF IInv, PhaseInv
<1>7. NobodyRunsEarly'
  BY <1>2, <1>3 DEF IInv, TypeOK, NobodyRunsEarly, PhaseInv, InMethod, Preparing, CountedIn
<1>8. NoUseAfterReturn'
  BY DEF IInv, TypeOK, NoUseAfterReturn
<1>9. WriterOutlastsReaders'
  BY <1>0, <1>3 DEF IInv, TypeOK, WriterOutlastsReaders, Finishing, Finished
<1> QED BY <1>1, <1>4, <1>5, <1>6, <1>7, <1>8, <1>9 DEF IInv

-----------------------------------------------------------------------------
(* The main thread, spurious wakeups and the abort. *)
LEMMA RunBenchmarkStep ==
  ASSUME IInv, NEW n \in 0 .. MaxThreads, NEW bg \in BOOLEAN, RunBenchmark(n, bg)
  PROVE  IInv'
<1> USE TidsFacts, MaxThreadsAssumption DEF RunBenchmark
<1>1. TypeOK'
  <2>1. spawned' \in 0 .. MaxThreads /\ num_initialized' \in Nat /\ num_done' \in Nat
    OBVIOUS
  <2>2. waiting' \subseteq Tids \cup {Main}
    OBVIOUS
  <2> QED BY <2>1, <2>2 DEF IInv, TypeOK
<1>2. Started' = {} /\ CountedIn' = {} /\ CountedOut' = {}
  BY DEF Started, CountedIn, CountedOut
<1>3. \A t \in Tids : pc'[t] = "exited"
  BY DEF IInv, NoUseAfterReturn
<1>4. MutexInv'
  BY <1>3 DEF MutexInv, Locked, MainLocked
<1>5. CountInv'
  BY <1>2, FS_EmptySet DEF CountInv
<1>6. PhaseInv'
  BY <1>2, <1>3 DEF PhaseInv
<1>7. NobodyRunsEarly' /\ NoUseAfterReturn' /\ WriterOutlastsReaders'
  BY <1>2, <1>3 DEF NobodyRunsEarly, NoUseAfterReturn, WriterOutlastsReaders, InMethod
<1> QED BY <1>1, <1>4, <1>5, <1>6, <1>7 DEF IInv

(* A thread starts: it is counted neither in nor out. *)
LEMMA StartThreadStep ==
  ASSUME IInv, StartThread
  PROVE  IInv'
<1> USE TidsFacts, MaxThreadsAssumption DEF StartThread, shared
<1>0. TypeOK /\ Started \subseteq Tids /\ spawned \in Tids /\ ~start
  BY Finiteness DEF IInv, TypeOK, PhaseInv, Tids
<1>1. TypeOK'
  BY <1>0 DEF TypeOK, Preparing
<1>2. Started' = Started \cup {spawned} /\ spawned \notin Started
  BY <1>0 DEF Started, TypeOK
<1>3. CountedIn' = CountedIn /\ CountedOut' = CountedOut
  BY <1>0, <1>2 DEF TypeOK, CountedIn, CountedOut, Preparing, Finished
<1>4. MutexInv'
  BY <1>0, <1>2 DEF IInv, TypeOK, MutexInv, PhaseInv, Locked, MainLocked
<1>5. CountInv'
  BY <1>3 DEF IInv, CountInv
<1>6. PhaseInv'
  <2>1. \A u \in Started' : pc'[u] \in InMethod \cup Finishing \cup Finished => start'
    BY <1>0, <1>2 DEF IInv, TypeOK, PhaseInv, InMethod, Finishing, Finished
  <2>2. \A u \in Tids \ Started' : pc'[u] = "exited"
    BY <1>0, <1>2 DEF IInv, TypeOK, PhaseInv
  <2>3. bgwriter' /\ 0 \in Started' => pc'[0] # "run"
    BY <1>0, <1>2 DEF IInv, TypeOK, PhaseInv
  <2> QED BY <1>0, <2>1, <2>2, <2>3 DEF IInv, TypeOK, PhaseInv
<1>7. \A u \in Tids : pc'[u] \notin InMethod \cup Finishing \cup {"done_unlock"}
  BY <1>0 DEF IInv, TypeOK, PhaseInv, InMethod, Finishing, Finished
<1>8. \A u \in Started' : pc'[u] \notin Finished
  BY <1>0, <1>2 DEF IInv, TypeOK, PhaseInv, Finished
<1>9. NobodyRunsEarly' /\ NoUseAfterReturn' /\ WriterOutlastsReaders'
  BY <1>0, <1>2, <1>7, <1>8 DEF NobodyRunsEarly, NoUseAfterReturn, WriterOutlastsReaders
<1> QED BY <1>1, <1>4, <1>5, <1>6, <1>9 DEF IInv

(* Main-thread steps that leave the workers and the counters alone. *)
LEMMA MainQuietStep ==
  ASSUME IInv,
         \/ MainLock \/ MainInitWait \/ MainStart \/ MainDoneWait
         \/ MainUnlock \/ MainWake \/ ReportAndReturn \/ Abort
         \/ \E x \in Tids \cup {Main} : SpuriousWake(x)
  PROVE  IInv'
<1> USE TidsFacts DEF MainLock, MainInitWait, MainStart, MainDoneWait, MainUnlock,
                      MainWake, ReportAndReturn, Abort, SpuriousWake, shared
<1>0. TypeOK /\ spawned \in Nat /\ total \in Nat
  BY MaxThreadsAssumption DEF IInv, TypeOK
<1>1. TypeOK'
  BY DEF IInv, TypeOK, MainLocked
<1>2. Started' = Started /\ CountedIn' = CountedIn /\ CountedOut' = CountedOut
  BY DEF Started, CountedIn, CountedOut
<1>3. MutexInv'
  BY DEF IInv, TypeOK, MutexInv, MainLocked
<1>4. CountInv'
  BY <1>2 DEF IInv, CountInv
<1>5. MainStart => CountedIn = Started /\ spawned = total
  <2> SUFFICES ASSUME MainStart PROVE CountedIn = Started /\ spawned = total
    OBVIOUS
  <2>1. spawned = total /\ num_initialized >= spawned
    BY <1>0 DEF IInv, TypeOK, PhaseInv, MainMustWaitInit
  <2>2. CountedIn \subseteq Started
    BY DEF CountedIn
  <2> QED BY <1>0, <2>1, <2>2, Finiteness, FullCount DEF IInv, CountInv
<1>6. PhaseInv'
  <2>1. start' => spawned' = total' /\ CountedIn' = Started'
    BY <1>2, <1>5 DEF IInv, PhaseInv
  <2>2. main' \in {"spawn", "init_check", "init_wait"} => ~start'
    BY DEF IInv, PhaseInv
  <2>3. main' \notin {"idle", "spawn"} => spawned' = total'
    BY DEF IInv, PhaseInv
  <2>4. \A u \in Started' : pc'[u] \in InMethod \cup Finishing \cup Finished => start'
    BY <1>2 DEF IInv, PhaseInv
  <2> QED BY <1>2, <2>1, <2>2, <2>3, <2>4 DEF IInv, PhaseInv
<1>7. MainUnlock => \A t \in Tids : pc[t] = "exited"
  <2> SUFFICES ASSUME MainUnlock, NEW t \in Tids PROVE pc[t] = "exited"
    OBVIOUS
  <2>1. spawned = total /\ num_done >= spawned
    BY <1>0 DEF IInv, TypeOK, PhaseInv, MainMustWaitDone
  <2>2. CountedOut \subseteq Started
    BY DEF CountedOut
  <2>3. CountedOut = Started
    BY <1>0, <2>1, <2>2, Finiteness, FullCount DEF IInv, CountInv
  <2>4. mu = Main
    BY DEF IInv, MutexInv, MainLocked
  <2> QED BY <2>3, <2>4 DEF IInv, PhaseInv, MutexInv, CountedOut, Finished, Locked
<1>8. NoUseAfterReturn'
  BY <1>7 DEF IInv, NoUseAfterReturn
<1>9. NobodyRunsEarly' /\ WriterOutlastsReaders'
  BY <1>2 DEF IInv, NobodyRunsEarly, WriterOutlastsReaders
<1> QED BY <1>1, <1>3, <1>4, <1>6, <1>8, <1>9 DEF IInv

(* Every step of a worker, of RunBenchmark or of an abort keeps the invariant. *)
LEMMA NextIInv == IInv /\ [Next]_vars => IInv'
<1> SUFFICES ASSUME IInv, [Next]_vars PROVE IInv'
  OBVIOUS
<1>1. CASE \E n \in 0 .. MaxThreads, bg \in BOOLEAN : RunBenchmark(n, bg)
  BY <1>1, RunBenchmarkStep
<1>2. CASE MainStep
  BY <1>2, StartThreadStep, MainQuietStep DEF MainStep
<1>3. CASE \E t \in Tids : ThreadBody(t)
  BY <1>3, Acquire, Release, Unlocked, BGCheckStep, InitIncrementStep, DoneIncrementStep
     DEF ThreadBody
<1>4. CASE Abort \/ \E x \in Tids \cup {Main} : SpuriousWake(x)
  BY <1>4, MainQuietStep
<1>5. CASE UNCHANGED vars
  BY <1>5 DEF vars, shared, IInv, TypeOK, MutexInv, CountInv, PhaseInv, Started,
     CountedIn, CountedOut, NobodyRunsEarly, NoUseAfterReturn, WriterOutlastsReaders
<1> QED BY <1>1, <1>2, <1>3, <1>4, <1>5 DEF Next

(* The invariant holds throughout, for every number of threads. *)
THEOREM Invariance == Spec => []IInv
BY InitIInv, NextIInv, PTL DEF Spec

(* Type correctness of the barrier's state. *)
THEOREM TypeCorrect == Spec => []TypeOK
<1>1. IInv => TypeOK
  BY DEF IInv
<1> QED BY <1>1, Invariance, PTL

(* No benchmark method runs before every thread of the call is counted in. *)
THEOREM BarrierSafe == Spec => []NobodyRunsEarly
<1>1. IInv => NobodyRunsEarly
  BY DEF IInv
<1> QED BY <1>1, Invariance, PTL

(* RunBenchmark leaves its frame only when no worker can touch it any more. *)
THEOREM FrameSafe == Spec => []NoUseAfterReturn
<1>1. IInv => NoUseAfterReturn
  BY DEF IInv
<1> QED BY <1>1, Invariance, PTL

(* BGWriter leaves its loop only when every reader has finished. *)
THEOREM WriterLast == Spec => []WriterOutlastsReaders
<1>1. IInv => WriterOutlastsReaders
  BY DEF IInv
<1> QED BY <1>1, Invariance, PTL
=============================================================================
