----------------------------- MODULE MCBenchRun -----------------------------
(* Command lines for up to two threads and two keys per thread; in some the   *)
(* key is so short that two integers make the same key, in some a pool of an  *)
(* earlier run is there, in two it is a poolset, its size given as 0.         *)
EXTENDS BenchRun

Flags(list, reads, threads, key_space, percent, pool) ==
  [benchmarks |-> list, num |-> 2, reads |-> reads, threads |-> threads,
   key_space |-> key_space, db_size_in_gb |-> 1, readwritepercent |-> percent,
   pool |-> pool, histogram |-> FALSE]

MCFlagSets ==
  UNION {{Flags(<<"fillseq", "readseq", "deleteseq">>, -1, 2, n, 0, p) :
            n \in {3, 8}, p \in {{}, {{2}}}},
         {Flags(<<"fillrandom", "", "overwrite", "readrandom">>, -1, 1, 4, 0, {{}})},
         {Flags(<<"overwrite", "readmissing", "deleterandom">>, -1, 2, 4, 0, p) :
            p \in {{}, {{0}, {3}}}},
         {Flags(<<"fillrandom", "readwhilewriting">>, 1, n, 4, 0, {}) : n \in 0 .. 2},
         {Flags(<<"fillrandom", "readrandomwriterandom">>, 6, n, 4, p, {}) :
            n \in {1, 2}, p \in {-1, 0, 1, 4, 5}},
         {[Flags(<<n, "readseq">>, -1, 1, 4, 0, {{}}) EXCEPT !.db_size_in_gb = 0] :
            n \in {"fillseq", "overwrite"}},
         {[Flags(<<"fillrandom", "readrandom">>, 3, 1, 4, 0, {}) EXCEPT !.histogram = TRUE],
          [Flags(<<"fillrandom">>, 1, 2, 4, 0, {}) EXCEPT !.histogram = TRUE, !.num = 1],
          [Flags(<<"readwhilewriting">>, 1, 1, 4, 0, {{}}) EXCEPT !.histogram = TRUE]}}

MCBucketLimit == <<1, 2, 4, 100>>
=============================================================================
