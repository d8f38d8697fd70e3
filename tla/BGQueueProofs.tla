--------------------------- MODULE BGQueueProofs ----------------------------
(***************************************************************************)
(* Schedule and BGThread for any number of callers and of items.  The      *)
(* inductive invariant adds to the two properties who holds the mutex      *)
(* where, and that nobody is asleep while an item is being pushed.         *)
(***************************************************************************)
EXTENDS BGQueue, SequenceTheorems, TLAPS

(* Who holds the mutex: a thread inside Schedule, or the background thread   *)
(* between its lock and its next wait or unlock.                             *)
MutexHeld ==
  /\ \A c \in Callers \cup {BG} : sched[c] # "out" => mu = c
  /\ bg = "check" => mu = BG /\ sched[BG] = "out"
  /\ sched[BG] # "out" => bg = "run"
  /\ ~started_bgthread => bg = "none"

(* The background thread sleeps only in its wait, and not on work, queued or *)
(* about to be.                                                              *)
Awake ==
  /\ waiting => bg = "wait"
  /\ waiting => queue = <<>>
  /\ \A c \in Callers \cup {BG} : sched[c] = "push" => ~waiting

Taken == IF item = 0 THEN 0 ELSE 1

(* OnceInOrder, element by element.                                          *)
Numbered ==
  /\ item # 0 <=> bg = "run"
  /\ \A i \in 1 .. Len(ran) : ran[i] = i
  /\ item # 0 => item = Len(ran) + 1
  /\ \A i \in 1 .. Len(queue) : queue[i] = Len(ran) + Taken + i
  /\ issued = Len(ran) + Taken + Len(queue)

(* A Schedule past its check has an item to push within the bound.           *)
RoomLeft == \A c \in Callers \cup {BG} : sched[c] # "out" => issued < MaxItems

IInv == TypeOK /\ MutexHeld /\ Awake /\ Numbered /\ RoomLeft

LEMMA InitIInv == Init => IInv
<1> SUFFICES ASSUME Init PROVE IInv OBVIOUS
<1>1. TypeOK
  <2>1. queue \in Seq(1 .. MaxItems) /\ ran \in Seq(1 .. MaxItems) BY DEF Init
  <2>2. item \in 0 .. MaxItems /\ issued \in 0 .. MaxItems BY BGQueueAssumption DEF Init
  <2> QED BY <2>1, <2>2 DEF Init, TypeOK
<1>2. MutexHeld BY DEF Init, MutexHeld
<1>3. Awake BY DEF Init, Awake
<1>4. Numbered BY DEF Init, Numbered, Taken
<1>5. RoomLeft BY DEF Init, RoomLeft
<1> QED BY <1>1, <1>2, <1>3, <1>4, <1>5 DEF IInv

LEMMA ScheduleLockIInv ==
  ASSUME IInv, NEW c \in Callers \cup {BG}, ScheduleLock(c)
  PROVE  IInv'
<1> USE BGQueueAssumption DEF IInv, ScheduleLock, Goto
<1>1. TypeOK' BY DEF TypeOK
<1>2. MutexHeld' BY DEF TypeOK, MutexHeld
<1>3. Awake' BY DEF TypeOK, Awake
<1>4. Numbered' BY DEF Numbered, Taken
<1>5. RoomLeft' BY DEF TypeOK, RoomLeft
<1> QED BY <1>1, <1>2, <1>3, <1>4, <1>5

LEMMA StartBGThreadIInv ==
  ASSUME IInv, NEW c \in Callers \cup {BG}, StartBGThread(c)
  PROVE  IInv'
<1> USE BGQueueAssumption DEF IInv, StartBGThread, Goto
<1>0. bg' \in {bg, "lock"} /\ (bg' # bg => bg = "none") BY DEF MutexHeld, TypeOK
<1>1. TypeOK' BY <1>0 DEF TypeOK
<1>2. MutexHeld' BY <1>0 DEF TypeOK, MutexHeld
<1>3. Awake' BY <1>0 DEF TypeOK, Awake
<1>4. Numbered' BY <1>0 DEF Numbered, Taken
<1>5. RoomLeft' BY DEF TypeOK, RoomLeft
<1> QED BY <1>1, <1>2, <1>3, <1>4, <1>5

LEMMA SignalIInv ==
  ASSUME IInv, NEW c \in Callers \cup {BG}, Signal(c)
  PROVE  IInv'
<1> USE BGQueueAssumption DEF IInv, Signal, Goto
<1>1. TypeOK' BY DEF TypeOK
<1>2. MutexHeld' BY DEF TypeOK, MutexHeld
<1>3. Awake' BY DEF TypeOK, Awake, MutexHeld
<1>4. Numbered' BY DEF Numbered, Taken
<1>5. RoomLeft' BY DEF TypeOK, RoomLeft
<1> QED BY <1>1, <1>2, <1>3, <1>4, <1>5
LEMMA PushIInv ==
  ASSUME IInv, NEW c \in Callers \cup {BG}, Push(c)
  PROVE  IInv'
<1> USE BGQueueAssumption DEF IInv, Push, Goto
<1>1. TypeOK' BY DEF TypeOK, RoomLeft
<1>2. MutexHeld' BY DEF TypeOK, MutexHeld
<1>3. Awake' BY DEF TypeOK, Awake, MutexHeld
<1>4. Numbered'
  <2>1. queue \in Seq(1 .. MaxItems) /\ issued \in Nat BY DEF TypeOK
  <2>2. Len(queue') = Len(queue) + 1 BY <2>1
  <2>3. \A i \in 1 .. Len(queue') : queue'[i] = IF i = Len(queue') THEN issued + 1 ELSE queue[i]
    BY <2>1, <2>2
  <2>4. Taken' = Taken /\ Taken \in Nat /\ Len(ran) \in Nat BY DEF Taken, TypeOK
  <2> QED BY <2>1, <2>2, <2>3, <2>4 DEF Numbered
<1>5. RoomLeft' BY DEF TypeOK, RoomLeft, MutexHeld
<1> QED BY <1>1, <1>2, <1>3, <1>4, <1>5

LEMMA BGLockIInv == IInv /\ BGLock => IInv'
<1> SUFFICES ASSUME IInv, BGLock PROVE IInv' OBVIOUS
<1> USE BGQueueAssumption DEF IInv, BGLock
<1>1. TypeOK' BY DEF TypeOK
<1>2. MutexHeld' BY DEF TypeOK, MutexHeld
<1>3. Awake' BY DEF TypeOK, Awake, MutexHeld
<1>4. Numbered' BY DEF TypeOK, Numbered, Taken
<1>5. RoomLeft' BY DEF TypeOK, RoomLeft
<1> QED BY <1>1, <1>2, <1>3, <1>4, <1>5

LEMMA BGWaitIInv == IInv /\ BGWait => IInv'
<1> SUFFICES ASSUME IInv, BGWait PROVE IInv' OBVIOUS
<1> USE BGQueueAssumption DEF IInv, BGWait
<1>1. TypeOK' BY DEF TypeOK
<1>2. MutexHeld' BY DEF TypeOK, MutexHeld
<1>3. Awake' BY DEF TypeOK, Awake, MutexHeld
<1>4. Numbered' BY DEF TypeOK, Numbered, Taken
<1>5. RoomLeft' BY DEF TypeOK, RoomLeft
<1> QED BY <1>1, <1>2, <1>3, <1>4, <1>5

LEMMA BGWakeIInv == IInv /\ BGWake => IInv'
<1> SUFFICES ASSUME IInv, BGWake PROVE IInv' OBVIOUS
<1> USE BGQueueAssumption DEF IInv, BGWake
<1>1. TypeOK' BY DEF TypeOK
<1>2. MutexHeld' BY DEF TypeOK, MutexHeld
<1>3. Awake' BY DEF TypeOK, Awake, MutexHeld
<1>4. Numbered' BY DEF TypeOK, Numbered, Taken
<1>5. RoomLeft' BY DEF TypeOK, RoomLeft
<1> QED BY <1>1, <1>2, <1>3, <1>4, <1>5

LEMMA SpuriousWakeIInv == IInv /\ SpuriousWake => IInv'
<1> SUFFICES ASSUME IInv, SpuriousWake PROVE IInv' OBVIOUS
<1> USE BGQueueAssumption DEF IInv, SpuriousWake
<1>1. TypeOK' BY DEF TypeOK
<1>2. MutexHeld' BY DEF TypeOK, MutexHeld
<1>3. Awake' BY DEF TypeOK, Awake, MutexHeld
<1>4. Numbered' BY DEF TypeOK, Numbered, Taken
<1>5. RoomLeft' BY DEF TypeOK, RoomLeft
<1> QED BY <1>1, <1>2, <1>3, <1>4, <1>5

LEMMA BGTakeIInv == IInv /\ BGTake => IInv'
<1> SUFFICES ASSUME IInv, BGTake PROVE IInv' OBVIOUS
<1> USE BGQueueAssumption DEF IInv, BGTake
<1>1. TypeOK' BY DEF TypeOK
<1>2. MutexHeld' BY DEF TypeOK, MutexHeld
<1>3. Awake' BY DEF TypeOK, Awake, MutexHeld
<1>4. Numbered' BY DEF TypeOK, Numbered, Taken
<1>5. RoomLeft' BY DEF TypeOK, RoomLeft
<1> QED BY <1>1, <1>2, <1>3, <1>4, <1>5

LEMMA BGRunIInv == IInv /\ BGRun => IInv'
<1> SUFFICES ASSUME IInv, BGRun PROVE IInv' OBVIOUS
<1> USE BGQueueAssumption DEF IInv, BGRun
<1>1. TypeOK'
  <2>1. item \in 1 .. MaxItems BY DEF TypeOK, Numbered
  <2> QED BY <2>1 DEF TypeOK
<1>2. MutexHeld' BY DEF TypeOK, MutexHeld
<1>3. Awake' BY DEF TypeOK, Awake, MutexHeld
<1>4. Numbered' BY DEF TypeOK, Numbered, Taken
<1>5. RoomLeft' BY DEF TypeOK, RoomLeft
<1> QED BY <1>1, <1>2, <1>3, <1>4, <1>5

(* The invariant holds in every reachable state.                             *)
THEOREM Invariance == Spec => []IInv
<1>1. IInv /\ [Next]_vars => IInv'
  <2> SUFFICES ASSUME IInv, [Next]_vars PROVE IInv' OBVIOUS
  <2>1. ASSUME NEW c \in Callers \cup {BG}, ScheduleLock(c) \/ InSchedule(c) PROVE IInv'
    BY <2>1, ScheduleLockIInv, StartBGThreadIInv, SignalIInv, PushIInv DEF InSchedule
  <2>2. CASE BGThread
    BY <2>2, BGLockIInv, BGWaitIInv, BGWakeIInv, BGTakeIInv, BGRunIInv DEF BGThread
  <2>3. CASE SpuriousWake BY <2>3, SpuriousWakeIInv
  <2>4. CASE UNCHANGED vars
    BY <2>4 DEF vars, IInv, TypeOK, MutexHeld, Awake, Numbered, Taken, RoomLeft
  <2> QED BY <2>1, <2>2, <2>3, <2>4 DEF Next
<1> QED BY InitIInv, <1>1, PTL DEF Spec

LEMMA SeqOfInts == ASSUME NEW N \in Nat, NEW s \in Seq(1 .. N) PROVE s \in Seq(Int)
<1>1. \A i \in 1 .. Len(s) : s[i] \in Int OBVIOUS
<1>2. s = [i \in 1 .. Len(s) |-> s[i]] /\ Len(s) \in Nat OBVIOUS
<1> QED BY <1>1, <1>2, IsASeq

LEMMA Counting ==
  ASSUME NEW n \in Nat, NEW s \in Seq(Int), Len(s) = n, \A i \in 1 .. n : s[i] = i
  PROVE  s = [i \in 1 .. n |-> i]
OBVIOUS

LEMMA NumberedOnce == TypeOK /\ Numbered => OnceInOrder
<1> SUFFICES ASSUME TypeOK, Numbered PROVE OnceInOrder OBVIOUS
<1>1. ran \in Seq(Int) /\ queue \in Seq(Int) BY BGQueueAssumption, SeqOfInts DEF TypeOK
<1>2. item \in Int /\ issued \in Nat BY DEF TypeOK
<1>3. CASE item = 0
  <2>1. ran \o InHand \o queue = ran \o queue BY <1>1, <1>3 DEF InHand
  <2>2. ran \o queue \in Seq(Int) /\ Len(ran \o queue) = issued
    BY <1>1, <1>3, ConcatProperties DEF Numbered, Taken
  <2>3. \A n \in 1 .. issued : (ran \o queue)[n] = n
    BY <1>1, <1>2, <1>3, <2>2, ConcatProperties DEF Numbered, Taken
  <2> QED BY <1>2, <2>1, <2>2, <2>3, Counting DEF OnceInOrder
<1>4. CASE item # 0
  <2> DEFINE s == ran \o <<item>>
  <2>1. s \in Seq(Int) /\ s = Append(ran, item) BY <1>1, <1>2
  <2>2. ran \o InHand \o queue = s \o queue BY <1>4 DEF InHand
  <2> HIDE DEF s
  <2>3. Len(s) = Len(ran) + 1 /\ \A n \in 1 .. Len(s) : s[n] = n
    BY <1>1, <1>2, <1>4, <2>1 DEF Numbered
  <2>4. s \o queue \in Seq(Int) /\ Len(s \o queue) = issued
    BY <1>1, <1>4, <2>1, <2>3, ConcatProperties DEF Numbered, Taken
  <2>5. \A n \in 1 .. Len(s) + Len(queue) :
          (s \o queue)[n] = IF n <= Len(s) THEN s[n] ELSE queue[n - Len(s)]
    BY <1>1, <2>1, ConcatProperties
  <2>6. Len(s) \in Nat /\ Len(queue) \in Nat /\ issued = Len(s) + Len(queue)
    BY <1>1, <1>4, <2>1, <2>3 DEF Numbered, Taken
  <2>7. \A i \in 1 .. Len(queue) : queue[i] = Len(s) + i
    BY <1>1, <1>4, <2>3 DEF Numbered, Taken
  <2>8. \A n \in 1 .. issued : (s \o queue)[n] = n
    <3> TAKE n \in 1 .. issued
    <3>1. CASE n <= Len(s) BY <2>3, <2>5, <2>6, <3>1
    <3>2. CASE ~ (n <= Len(s))
      <4>1. n - Len(s) \in 1 .. Len(queue) BY <2>6, <3>2
      <4>2. queue[n - Len(s)] = n BY <2>6, <2>7, <4>1
      <4> QED BY <2>5, <2>6, <3>2, <4>2
    <3> QED BY <3>1, <3>2
  <2> QED BY <1>2, <2>2, <2>4, <2>8, Counting DEF OnceInOrder
<1> QED BY <1>3, <1>4

(* Whatever the interleaving of the callers and the background thread, each  *)
(* item queued is run once and in the order of the Schedule calls.           *)
THEOREM OnceInOrderHolds == Spec => []OnceInOrder
<1>1. IInv => OnceInOrder BY NumberedOnce DEF IInv
<1> QED BY <1>1, Invariance, PTL

(* Signalling only when the queue was empty loses no wakeup.                 *)
THEOREM NoLostWakeupHolds == Spec => []NoLostWakeup
<1>1. IInv => NoLostWakeup BY DEF IInv, Awake, NoLostWakeup
<1> QED BY <1>1, Invariance, PTL
=============================================================================
