------------------------------ MODULE BGQueue -------------------------------
(***************************************************************************)
(* Schedule and BGThread of bench/util/env_posix.cc: callers queue work    *)
(* items, the first of them starts the one background thread, which runs   *)
(* the items outside the mutex; an item may call Schedule itself.          *)
(*                                                                         *)
(* An item is the number of its Schedule call, in the order in which the   *)
(* calls get the mutex.  bgsignal_ is a condition variable: a signal to    *)
(* nobody is lost, and a wait may return without one.                      *)
(***************************************************************************)
EXTENDS Integers, Sequences

CONSTANTS
  Callers,    \* the threads that call Schedule
  BG,         \* the background thread
  Nobody,     \* "the mutex is free"
  MaxItems    \* bound: how many items are scheduled

ASSUME BGQueueAssumption ==
  BG \notin Callers /\ Nobody \notin Callers \cup {BG} /\ MaxItems \in Nat

VARIABLES
  mu, started_bgthread, queue,   \* the fields of PosixEnv
  waiting,    \* the background thread is in pthread_cond_wait, not signalled
  bg,         \* where it is in BGThread
  item,       \* the item it has in hand
  sched,      \* per thread: where it is in Schedule
  issued,     \* history: how many calls of Schedule have queued their item
  ran         \* history: the items run, in order

vars == <<mu, started_bgthread, queue, waiting, bg, item, sched, issued, ran>>

TypeOK ==
  /\ mu \in Callers \cup {BG, Nobody}
  /\ started_bgthread \in BOOLEAN
  /\ queue \in Seq(1 .. MaxItems)
  /\ waiting \in BOOLEAN
  /\ bg \in {"none", "lock", "check", "wait", "run"}
  /\ item \in 0 .. MaxItems
  /\ sched \in [Callers \cup {BG} -> {"out", "start", "signal", "push"}]
  /\ issued \in 0 .. MaxItems
  /\ ran \in Seq(1 .. MaxItems)

Init ==
  /\ mu = Nobody
  /\ started_bgthread = FALSE
  /\ queue = <<>>
  /\ waiting = FALSE
  /\ bg = "none"
  /\ item = 0
  /\ sched = [c \in Callers \cup {BG} |-> "out"]
  /\ issued = 0
  /\ ran = <<>>

-----------------------------------------------------------------------------
(* Schedule, by a caller or, from within an item, by the background thread. *)

Goto(c, from, to) == sched[c] = from /\ sched' = [sched EXCEPT ![c] = to]

ScheduleLock(c) ==
  /\ Goto(c, "out", "start")
  /\ c = BG => bg = "run"
  /\ issued < MaxItems
  /\ mu = Nobody
  /\ mu' = c
  /\ UNCHANGED <<started_bgthread, queue, waiting, bg, item, issued, ran>>

StartBGThread(c) ==
  /\ Goto(c, "start", "signal")
  /\ started_bgthread' = TRUE
  /\ bg' = IF started_bgthread THEN bg ELSE "lock"
  /\ UNCHANGED <<mu, queue, waiting, item, issued, ran>>

(* Bug: the signal is sent when the queue has something in it. *)
SignalInverted(c) ==
  /\ Goto(c, "signal", "push")
  /\ waiting' = (waiting /\ queue = <<>>)
  /\ UNCHANGED <<mu, started_bgthread, queue, bg, item, issued, ran>>

Signal(c) ==
  /\ Goto(c, "signal", "push")
  /\ waiting' = (waiting /\ queue # <<>>)
  /\ UNCHANGED <<mu, started_bgthread, queue, bg, item, issued, ran>>

Push(c) ==
  /\ Goto(c, "push", "out")
  /\ issued' = issued + 1
  /\ queue' = Append(queue, issued')
  /\ mu' = Nobody
  /\ UNCHANGED <<started_bgthread, waiting, bg, item, ran>>

-----------------------------------------------------------------------------
(* BGThread. *)

BGLock ==
  /\ bg = "lock"
  /\ mu = Nobody
  /\ mu' = BG
  /\ bg' = "check"
  /\ UNCHANGED <<started_bgthread, queue, waiting, item, sched, issued, ran>>

BGWait ==
  /\ bg = "check"
  /\ queue = <<>>
  /\ mu' = Nobody
  /\ waiting' = TRUE
  /\ bg' = "wait"
  /\ UNCHANGED <<started_bgthread, queue, item, sched, issued, ran>>

BGWake ==
  /\ bg = "wait"
  /\ ~waiting
  /\ mu = Nobody
  /\ mu' = BG
  /\ bg' = "check"
  /\ UNCHANGED <<started_bgthread, queue, waiting, item, sched, issued, ran>>

SpuriousWake ==
  /\ waiting
  /\ waiting' = FALSE
  /\ UNCHANGED <<mu, started_bgthread, queue, bg, item, sched, issued, ran>>

(* Bug: the last item is taken. *)
BGTakeBack ==
  /\ bg = "check"
  /\ queue # <<>>
  /\ item' = queue[Len(queue)]
  /\ queue' = SubSeq(queue, 1, Len(queue) - 1)
  /\ mu' = Nobody
  /\ bg' = "run"
  /\ UNCHANGED <<started_bgthread, waiting, sched, issued, ran>>

BGTake ==
  /\ bg = "check"
  /\ queue # <<>>
  /\ item' = Head(queue)
  /\ queue' = Tail(queue)
  /\ mu' = Nobody
  /\ bg' = "run"
  /\ UNCHANGED <<started_bgthread, waiting, sched, issued, ran>>

(* Bug: the thread ends after its first item. *)
BGRunOnce ==
  /\ bg = "run"
  /\ sched[BG] = "out"
  /\ ran' = Append(ran, item)
  /\ item' = 0
  /\ bg' = "none"
  /\ UNCHANGED <<mu, started_bgthread, queue, waiting, sched, issued>>

(* The item returns, and the loop goes round. *)
BGRun ==
  /\ bg = "run"
  /\ sched[BG] = "out"
  /\ ran' = Append(ran, item)
  /\ item' = 0
  /\ bg' = "lock"
  /\ UNCHANGED <<mu, started_bgthread, queue, waiting, sched, issued>>

InSchedule(c) == StartBGThread(c) \/ Signal(c) \/ Push(c)
BGThread == BGLock \/ BGWait \/ BGWake \/ BGTake \/ BGRun

Next ==
  \/ \E c \in Callers \cup {BG} : ScheduleLock(c) \/ InSchedule(c)
  \/ BGThread \/ SpuriousWake

Spec == Init /\ [][Next]_vars

(* A thread in its critical section goes on, the background thread runs,    *)
(* its items return and it gets a mutex that is free again and again.       *)
FairSpec ==
  /\ Spec
  /\ \A c \in Callers \cup {BG} : WF_vars(InSchedule(c))
  /\ SF_vars(BGThread)

-----------------------------------------------------------------------------
(* Properties. *)

InHand == IF item = 0 THEN <<>> ELSE <<item>>

(* Every item queued so far has run, is running or is queued, once, and in   *)
(* the order of the calls.                                                   *)
OnceInOrder == ran \o InHand \o queue = [n \in 1 .. issued |-> n]

(* The background thread is never left asleep on a queue with work in it:    *)
(* signalling only when the queue was empty is enough.                       *)
NoLostWakeup == ~(waiting /\ queue # <<>>)

(* Every item is run in the end.                                             *)
AllRun == \A n \in 1 .. MaxItems : issued = n ~> Len(ran) >= n
=============================================================================
