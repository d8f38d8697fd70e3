---------------------------- MODULE BenchStats ------------------------------
(***************************************************************************)
(* The class Stats of bench/bench.cc as operators on its fields: one       *)
(* object per ThreadState, constructed by the main thread, then used by    *)
(* one worker, then reported by the main thread.  "now" is what            *)
(* NowMicros() returns.  The bytes, the message and the progress line are  *)
(* only printed and are left out; samples is a history of what was added   *)
(* to the histogram, and made is when the object was made.                 *)
(***************************************************************************)
EXTENDS Histogram

(* No Stats there, or a field that nobody has written yet. *)
Unset == -1

NoStats ==
  [start_ |-> Unset, last_op_finish_ |-> Unset, finish_ |-> Unset, done_ |-> 0,
   hist_ |-> Clear, exclude_from_merge_ |-> FALSE, samples |-> <<>>, made |-> Unset]

(* last_op_finish_ is taken from start_ before start_ is set, so it holds   *)
(* the time of the call before this one.                                    *)
Start(s, now) ==
  [s EXCEPT !.last_op_finish_ = s.start_, !.start_ = now, !.finish_ = now, !.done_ = 0,
            !.hist_ = Clear, !.exclude_from_merge_ = FALSE, !.samples = <<>>]

(* The constructor: start_ is not initialised when Start() reads it. *)
New(now) == [Start(NoStats, now) EXCEPT !.made = now]

(* Bug: the end of an operation is not remembered. *)
TimeOpForgets(s, now) ==
  LET micros == now - s.last_op_finish_ IN
  [s EXCEPT !.hist_ = Add(@, micros), !.samples = Append(@, micros)]

TimeOp(s, now) ==
  LET micros == now - s.last_op_finish_ IN
  [s EXCEPT !.hist_ = Add(@, micros), !.samples = Append(@, micros),
            !.last_op_finish_ = now]

FinishedSingleOp(s, histogram, now) ==
  [(IF histogram THEN TimeOp(s, now) ELSE s) EXCEPT !.done_ = @ + 1]

Stop(s, now) == [s EXCEPT !.finish_ = now]

SetExcludeFromMerge(s) == [s EXCEPT !.exclude_from_merge_ = TRUE]

(* Bug: a worker that counted nothing is reported with no operations. *)
ReportZero(s) == [ops |-> s.done_, micros |-> s.finish_ - s.start_]

(* What Report prints: the operations and the microseconds they took. *)
Report(s) == [ops |-> IF s.done_ < 1 THEN 1 ELSE s.done_, micros |-> s.finish_ - s.start_]
=============================================================================
