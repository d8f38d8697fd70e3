------------------------------ MODULE BenchRun ------------------------------
(***************************************************************************)
(* The whole of bench/bench.cc on top of BenchBarrier: Benchmark::Run      *)
(* takes the names of --benchmarks in turn, replaces, opens or keeps the   *)
(* store, and calls RunBenchmark; the workers, between the barrier and the *)
(* count at its end, do what their method does.                            *)
(*                                                                         *)
(* An operation on the store is one step, which ImplementsStore of PMemKV  *)
(* justifies, and the store is the set of keys it holds.  A random key may *)
(* be any key the generator can give.  The clock moves only where          *)
(* --histogram makes the workers read it at every operation.               *)
(***************************************************************************)
EXTENDS BenchBarrier, BenchStats

CONSTANTS
  FlagSets,   \* the command lines
  Batch,      \* the operations of one batch of readrandomwriterandom: 100
  MaxNow      \* bound: where the clock stops

ASSUME BenchRunAssumption == Batch \in Nat \ {0} /\ MaxNow \in Nat

VARIABLES
  flags,   \* the FLAGS_ of this command line, and whether a pool was there
  pos,     \* how many names of FLAGS_benchmarks have been taken
  rpc,     \* where Run is in its loop
  kv,      \* kv_ is not NULL
  file,    \* there is a pool at FLAGS_db
  db,      \* the keys it holds
  loc,     \* per worker: the locals of its method
  now,     \* the time in microseconds
  stats,   \* per worker: thread->stats
  printed  \* per worker: what its Report printed last

store == <<kv, file, db>>
bench == <<flags, pos, rpc, store, loc>>
timing == <<now, stats, printed>>
runvars == <<vars, bench, timing>>

Methods == {"fillseq", "fillrandom", "overwrite", "readseq", "readrandom", "readmissing",
            "deleteseq", "deleterandom", "readwhilewriting", "readrandomwriterandom"}
Sequential == {"fillseq", "readseq", "deleteseq"}
FreshDb == {"fillseq", "fillrandom"}

name == IF pos = 0 THEN "" ELSE flags.benchmarks[pos]

(* num_, reads_ and readwrites_. *)
Reads == IF flags.reads < 0 THEN flags.num ELSE flags.reads

(* GenerateKeyFromInt: the low bytes of the integer, as many as fit the key. *)
KeyOf(k) == k % flags.key_space

NoLocals == [i |-> 0, found |-> 0, get_weight |-> 0, put_weight |-> 0,
             reads_done |-> 0, writes_done |-> 0]

RunInit ==
  /\ Init
  /\ flags \in FlagSets
  /\ pos = 0
  /\ rpc = "next"
  /\ kv = FALSE
  /\ file = (flags.pool # {})
  /\ db \in IF file THEN flags.pool ELSE {{}}
  /\ loc = [t \in Tids |-> NoLocals]
  /\ now = 0
  /\ stats = [t \in Tids |-> NoStats]
  /\ printed = [t \in Tids |-> Report(NoStats)]

-----------------------------------------------------------------------------
(* Run. *)

(* The next name; a benchmark that wants a fresh store closes the one there  *)
(* is and, unless the pool is a poolset or a device, removes it.             *)
NextBenchmark ==
  /\ rpc = "next"
  /\ pos < Len(flags.benchmarks)
  /\ pos' = pos + 1
  /\ rpc' = "open"
  /\ LET fresh_db == flags.benchmarks[pos'] \in FreshDb IN
     /\ kv' = (kv /\ ~fresh_db)
     /\ file' = (file /\ ~(fresh_db /\ flags.db_size_in_gb > 0))
  /\ db' = IF file' THEN db ELSE {}
  /\ UNCHANGED <<vars, flags, loc, timing>>

(* Bug: only a fresh store is opened. *)
OpenFreshOnly ==
  /\ rpc = "open"
  /\ rpc' = "call"
  /\ kv' = (kv \/ name \in FreshDb)
  /\ file' = (file \/ name \in FreshDb)
  /\ db' = IF name \in FreshDb THEN {} ELSE db
  /\ UNCHANGED <<vars, flags, pos, loc, timing>>

(* Open(fresh_db), if kv_ is NULL.  The pool is removed and created, or has  *)
(* to be there.                                                              *)
Open ==
  /\ rpc = "open"
  /\ \/ kv /\ UNCHANGED store
     \/ /\ ~kv
        /\ name \in FreshDb /\ flags.db_size_in_gb > 0
        /\ kv' = TRUE
        /\ file' = TRUE
        /\ db' = {}
     \/ /\ ~kv
        /\ name \notin FreshDb /\ file
        /\ kv' = TRUE
        /\ UNCHANGED <<file, db>>
  /\ rpc' = "call"
  /\ UNCHANGED <<vars, flags, pos, loc, timing>>

(* pmkv_open returns NULL and PMKVWrapper throws in main(): no pool, or no   *)
(* room for one; a pool to be replaced has been removed already.             *)
OpenThrows ==
  /\ rpc = "open"
  /\ ~kv
  /\ file' = (file /\ name \notin FreshDb)
  /\ db' = IF file' THEN db ELSE {}
  /\ alive' = FALSE
  /\ UNCHANGED <<main, spawned, pc, bgwriter, mu, waiting, shared, flags, pos, rpc, kv, loc, timing>>

Call ==
  /\ rpc = "call"
  /\ name \in Methods
  /\ IF name = "readwhilewriting" THEN RunBenchmark(flags.threads + 1, TRUE)
                                  ELSE RunBenchmark(flags.threads, FALSE)
  /\ rpc' = "calling"
  /\ loc' = [t \in Tids |-> NoLocals]
  /\ UNCHANGED <<flags, pos, store, timing>>

(* An unknown name runs nothing. *)
SkipUnknown ==
  /\ rpc = "call"
  /\ name \notin Methods
  /\ rpc' = "next"
  /\ UNCHANGED <<vars, flags, pos, store, loc, timing>>

Return ==
  /\ rpc = "calling"
  /\ main = "idle"
  /\ rpc' = "next"
  /\ UNCHANGED <<vars, flags, pos, store, loc, timing>>

(* Run returns and ~Benchmark deletes kv_. *)
End ==
  /\ rpc = "next"
  /\ pos = Len(flags.benchmarks)
  /\ rpc' = "end"
  /\ kv' = FALSE
  /\ UNCHANGED <<vars, flags, pos, file, db, loc, timing>>

-----------------------------------------------------------------------------
(* The methods, one operation at a time. *)

(* Bug: all the workers go through the same keys. *)
KeysForNoTid(t) ==
  IF name \in Sequential THEN {KeyOf(loc[t].i)}
  ELSE {KeyOf(k) : k \in 0 .. flags.num - 1}

(* The keys t may take next. *)
KeysFor(t) ==
  IF name \in Sequential THEN {KeyOf(loc[t].i + t * flags.num)}
  ELSE {KeyOf(k) : k \in 0 .. flags.num - 1}

Iterations ==
  IF name \in {"fillseq", "fillrandom", "overwrite", "deleteseq", "deleterandom"}
  THEN flags.num ELSE Reads

(* for (i = 0; i < num_ or reads_; i++), or Duration::Done(1). *)
MethodDone(t) == loc[t].i >= Iterations

Hit(k) == IF k \in db THEN 1 ELSE 0

(* thread->stats.FinishedSingleOp(), after the operation. *)
FinishOp(t) == stats' = [stats EXCEPT ![t] = FinishedSingleOp(@, flags.histogram, now)]

DoWrite(t) ==
  /\ name \in {"fillseq", "fillrandom", "overwrite"}
  /\ \E k \in KeysFor(t) : db' = db \cup {k}
  /\ loc' = [loc EXCEPT ![t].i = @ + 1]
  /\ FinishOp(t)

DoRead(t) ==
  /\ name \in {"readseq", "readrandom", "readmissing", "readwhilewriting"}
  /\ \E k \in KeysFor(t) :
       loc' = [loc EXCEPT ![t].i = @ + 1, ![t].found = @ + Hit(k)]
  /\ UNCHANGED db
  /\ FinishOp(t)

DoDelete(t) ==
  /\ name \in {"deleteseq", "deleterandom"}
  /\ \E k \in KeysFor(t) : db' = db \ {k}
  /\ loc' = [loc EXCEPT ![t].i = @ + 1]
  /\ FinishOp(t)

(* Bug: a batch has as many puts as operations. *)
WeightsFullBatch(l) ==
  IF l.get_weight = 0 /\ l.put_weight = 0
  THEN [get |-> flags.readwritepercent, put |-> Batch]
  ELSE [get |-> l.get_weight, put |-> l.put_weight]

(* The weights an iteration goes by: those left, or a new batch. *)
Weights(l) ==
  IF l.get_weight = 0 /\ l.put_weight = 0
  THEN [get |-> flags.readwritepercent, put |-> Batch - flags.readwritepercent]
  ELSE [get |-> l.get_weight, put |-> l.put_weight]

(* All the gets of a batch, then all its puts; with a percentage outside     *)
(* 0 .. 100 one of the weights is negative and never becomes 0, and the      *)
(* turns of the loop that are left do nothing.                               *)
ReadRandomWriteRandom(t) ==
  /\ name = "readrandomwriterandom"
  /\ LET w == Weights(loc[t]) IN
     \E k \in KeysFor(t) :
       \/ /\ w.get > 0
          /\ loc' = [loc EXCEPT ![t].i = @ + 1, ![t].found = @ + Hit(k),
                       ![t].get_weight = w.get - 1, ![t].put_weight = w.put,
                       ![t].reads_done = @ + 1]
          /\ FinishOp(t)
          /\ UNCHANGED db
       \/ /\ w.get <= 0 /\ w.put > 0
          /\ loc' = [loc EXCEPT ![t].i = @ + 1, ![t].get_weight = w.get,
                       ![t].put_weight = w.put - 1, ![t].writes_done = @ + 1]
          /\ FinishOp(t)
          /\ db' = db \cup {k}
       \/ /\ w.get <= 0 /\ w.put <= 0
          /\ loc' = [loc EXCEPT ![t].i = @ + 1, ![t].get_weight = w.get,
                       ![t].put_weight = w.put]
          /\ UNCHANGED <<db, stats>>

Operation(t) ==
  /\ pc[t] = "run"
  /\ ~MethodDone(t)
  /\ DoWrite(t) \/ DoRead(t) \/ DoDelete(t) \/ ReadRandomWriteRandom(t)
  /\ UNCHANGED <<vars, flags, pos, rpc, kv, file, now, printed>>

(* BGWriter's put, which no FinishedSingleOp follows. *)
BGOperation(t) ==
  /\ BGPut(t)
  /\ \E k \in KeysFor(t) : db' = db \cup {k}
  /\ UNCHANGED <<flags, pos, rpc, kv, file, loc, timing>>

(* thread->stats.Start() after the barrier; BGWriter excludes its own.       *)
EnterStats(t) ==
  IF bgwriter /\ t = 0 THEN SetExcludeFromMerge(Start(stats[t], now)) ELSE Start(stats[t], now)

(* The steps of ThreadBody around the method, which returns when it is done, *)
(* and thread->stats.Stop() after it.                                        *)
Barrier(t) ==
  /\ ThreadBody(t)
  /\ pc[t] # "bg_put"
  /\ pc[t] = "run" => MethodDone(t)
  /\ stats' = [stats EXCEPT ![t] =
       IF pc[t] \in AtBarrier /\ pc'[t] \in InMethod THEN EnterStats(t)
       ELSE IF pc[t] \in InMethod /\ pc'[t] \in Finishing THEN Stop(@, now) ELSE @]
  /\ UNCHANGED <<bench, now, printed>>

Worker(t) == Operation(t) \/ BGOperation(t) \/ Barrier(t)

(* A put that fails throws in its worker; a thread may not start. *)
Throws ==
  /\ Abort
  /\ \/ main = "spawn"
     \/ \E t \in Tids : pc[t] = "bg_put"
     \/ \E t \in Tids : pc[t] = "run" /\ ~MethodDone(t) /\
          name \in {"fillseq", "fillrandom", "overwrite", "readrandomwriterandom"}
  /\ UNCHANGED <<bench, timing>>

(* new ThreadState(i), in which the Stats are constructed, and StartThread. *)
NewThread ==
  /\ StartThread
  /\ stats' = [stats EXCEPT ![spawned] = New(now)]
  /\ UNCHANGED <<bench, now, printed>>

(* Every thread's Report, and then the ThreadStates are deleted. *)
ReportAll ==
  /\ ReportAndReturn
  /\ printed' = [t \in Tids |-> IF t < total THEN Report(stats[t]) ELSE printed[t]]
  /\ stats' = [t \in Tids |-> NoStats]
  /\ UNCHANGED <<bench, now>>

MainBarrier ==
  /\ MainLock \/ MainInitWait \/ MainStart \/ MainDoneWait \/ MainUnlock \/ MainWake
  /\ UNCHANGED <<bench, timing>>

Run ==
  \/ NextBenchmark \/ Open \/ OpenThrows \/ Call \/ SkipUnknown \/ Return \/ End
  \/ NewThread \/ ReportAll \/ MainBarrier

Tick ==
  /\ flags.histogram
  /\ rpc = "calling"
  /\ now < MaxNow
  /\ now' = now + 1
  /\ UNCHANGED <<vars, bench, stats, printed>>

RunNext ==
  /\ alive
  /\ \/ Run
     \/ \E t \in Tids : Worker(t)
     \/ (\E x \in Tids \cup {Main} : SpuriousWake(x)) /\ UNCHANGED <<bench, timing>>
     \/ Throws
     \/ Tick

RunSpec == RunInit /\ [][RunNext]_runvars

-----------------------------------------------------------------------------
(* Properties. *)

(* RunBenchmark is at the benchmark b. *)
Running(b) == rpc = "calling" /\ name = b

(* No operation meets a closed store: kv_ is open from before the first      *)
(* worker enters a method until after the last has left it, however the      *)
(* benchmarks follow each other.                                             *)
StoreOpenInMethod == (\E t \in Tids : pc[t] \in InMethod) => kv /\ file

(* fillseq starts from nothing and its workers share the work: at any time   *)
(* the store holds exactly the keys they have got to, so at the end exactly  *)
(* threads * num, or all there are when key_size leaves room for fewer.      *)
FillSeqExact ==
  Running("fillseq") =>
    db = UNION {{KeyOf(t * flags.num + i) : i \in 0 .. loc[t].i - 1} : t \in Tids}

(* "90 means 90% operations out of all reads and writes operations are       *)
(* reads": after any number of operations the reads are those of the whole   *)
(* batches and of the part of the last one, and every other one is a write.  *)
(* Nothing checks the percentage: one over 100 does that many reads and one  *)
(* below 0 a batch of writes, and then neither anything any more.            *)
ReadWriteRatio ==
  Running("readrandomwriterandom") =>
    \A t \in Tids :
      LET n == loc[t].i
          pct == flags.readwritepercent
          AtMost(k) == IF n < k THEN n ELSE k
          part == n % Batch
      IN  IF pct \in 0 .. Batch
          THEN /\ loc[t].reads_done = (n \div Batch) * pct + (IF part < pct THEN part ELSE pct)
               /\ loc[t].reads_done + loc[t].writes_done = n
          ELSE /\ loc[t].reads_done = IF pct < 0 THEN 0 ELSE AtMost(pct)
               /\ loc[t].writes_done = IF pct < 0 THEN AtMost(Batch - pct) ELSE 0

(* The values of s up to v, and those in the interval of bucket b. *)
NoMoreThan(s, v) == Cardinality({i \in DOMAIN s : s[i] <= v})
Lower(b) == IF b = 1 THEN 0 ELSE kBucketLimit[b - 1]
In(s, b) == Cardinality({i \in DOMAIN s : Lower(b) <= s[i] /\ (b = kNumBuckets \/ s[i] < kBucketLimit[b])})

(* h is what the values s come to. *)
Describes(h, s) ==
  /\ h.num_ = Len(s)
  /\ \A b \in Buckets : h.buckets_[b] = In(s, b)
  /\ s # <<>> => /\ \E i \in DOMAIN s : s[i] = h.min_ /\ NoMoreThan(s, h.min_ - 1) = 0
                 /\ \E i \in DOMAIN s : s[i] = h.max_ /\ NoMoreThan(s, h.max_) = Len(s)

(* A worker's histogram describes exactly the latencies of its operations:   *)
(* every one is in the bucket whose interval it lies in, the smallest and    *)
(* the largest are kept, and none is counted that ended before Start().      *)
HistogramExact == \A t \in Tids : Describes(stats[t].hist_, stats[t].samples)

(* Stats::Merge, which no benchmark calls, would give the histogram of all   *)
(* the operations of two workers.                                            *)
MergeExact ==
  main = "report" => \A t, u \in Tids : t < u =>
    Describes(Merge(stats[t].hist_, stats[u].hist_), stats[t].samples \o stats[u].samples)

(* A printed percentile is a number, lies between the smallest and the       *)
(* largest latency and within the bucket of the latency of that rank, and a  *)
(* higher percentile is no smaller.                                          *)
PercentileSound ==
  main = "report" => \A t \in Tids : LET h == stats[t].hist_
                      s == stats[t].samples IN
    s # <<>> => \A p \in Printed :
      LET r == Percentile(h, p)
          rank == CHOOSE i \in DOMAIN s :
                    /\ NoMoreThan(s, s[i]) * 10000 >= Len(s) * p
                    /\ NoMoreThan(s, s[i] - 1) * 10000 < Len(s) * p
          b == CHOOSE c \in Buckets : In(<<s[rank]>>, c) = 1
      IN  /\ r.d > 0
          /\ h.min_ * r.d <= r.n /\ r.n <= h.max_ * r.d
          /\ Lower(b) * r.d <= r.n /\ r.n <= kBucketLimit[b] * r.d
          /\ \A q \in Printed : p < q => r.n * Percentile(h, q).d <= Percentile(h, q).n * r.d

(* Every microsecond from the construction of the Stats to the end of the    *)
(* last operation is in exactly one latency.  Only the first operation's     *)
(* reaches back before Start(), over the wait at the barrier: the others     *)
(* lie in the interval that Report divides by.                               *)
LatencyAccounting ==
  \A t \in Tids : LET s == stats[t] IN
    s.samples # <<>> =>
      /\ s.hist_.sum_ = s.last_op_finish_ - s.made
      /\ s.made + s.samples[1] >= s.start_

(* How many operations the method of t counts: BGWriter counts none. *)
Counted(t) ==
  IF bgwriter /\ t = 0 THEN 0
  ELSE IF name = "readrandomwriterandom" THEN loc[t].reads_done + loc[t].writes_done
  ELSE Iterations

(* RunBenchmark prints, for every worker, the operations it did in this      *)
(* benchmark ("Pretend at least one op was done" for one that counts none),  *)
(* over a time that is never negative.                                       *)
ReportTruthful ==
  rpc = "calling" /\ main = "idle" =>
    \A t \in 0 .. total - 1 :
      /\ printed[t].ops = IF Counted(t) = 0 THEN 1 ELSE Counted(t)
      /\ printed[t].micros >= 0
=============================================================================
