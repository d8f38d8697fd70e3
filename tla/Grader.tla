------------------------------- MODULE Grader -------------------------------
(***************************************************************************)
(* How a submission is graded: run_submission_locally of util/Runner.py    *)
(* runs `make bench_all` under a time limit and collects the output files, *)
(* which test/run_all.sh, test/parse_result.py and bench/summarize.py      *)
(* produce.  Several submissions may follow each other, in the user's own  *)
(* directory or each in a fresh clone.                                     *)
(*                                                                         *)
(* A timeout kills the `make` that Runner started and no more: the make of *)
(* the subdirectory it was in goes on to its end, beside whatever Runner   *)
(* does next.  A test may hang.                                            *)
(***************************************************************************)
EXTENDS Integers

CONSTANTS
  NumTests,   \* the tests of run_all.sh
  MaxRuns,    \* bound: the submissions
  Modes       \* a subset of {"local", "pristine"}

ASSUME GraderAssumption ==
  NumTests \in Nat \ {0} /\ MaxRuns \in Nat /\ Modes \subseteq {"local", "pristine"}

VARIABLES
  rpc,      \* where Runner is
  run,      \* the number of the submission
  mode,     \* run_pristine or not
  status,
  got,      \* result_files: what was collected for each output file
  next,     \* the output file to collect next
  dirs,     \* the directories: 0 is the user's own, r the clone of run r
  trees,    \* the processes of `make bench_all` of each run
  truth     \* history: what each test of each run did

runner == <<rpc, run, mode, status, got, next>>
vars == <<runner, dirs, trees, truth>>

Tests == 1 .. NumTests
Perf == NumTests + 1          \* bench/perf.csv, the last of output_files
Outputs == 1 .. Perf
Runs == 1 .. MaxRuns
Verdicts == {"none", "pass", "fail"}

(* What matters in a directory: lab.py, the test binaries (one that alone is *)
(* missing looks like a crash), the xml files, the output files of the tests *)
(* ("pass" is the empty file) and perf.csv.                                  *)
Clone == [spec |-> TRUE, bin |-> FALSE, xml |-> [t \in Tests |-> "none"],
          result |-> [t \in Tests |-> "none"], perf |-> FALSE]

Dir(r) == IF mode[r] = "local" THEN 0 ELSE r
D(r) == dirs[Dir(r)]

Init ==
  /\ rpc = "idle" /\ run = 0 /\ status = "error" /\ next = 1
  /\ mode = [r \in Runs |-> "local"]
  /\ got = [o \in Outputs |-> "unset"]
  /\ dirs = [d \in 0 .. MaxRuns |-> Clone]
  /\ trees = [r \in Runs |-> [pc |-> "off", test |-> 1, top |-> TRUE]]
  /\ truth = [r \in Runs |-> [t \in Tests |-> "none"]]

-----------------------------------------------------------------------------
(* Runner. *)

Goto(from, to) == rpc = from /\ rpc' = to

Start(m) ==
  /\ rpc \in {"idle", "done", "raised"}
  /\ run < MaxRuns
  /\ rpc' = IF m = "pristine" THEN "clone" ELSE "load"
  /\ run' = run + 1
  /\ mode' = [mode EXCEPT ![run'] = m]
  /\ status' = "error"
  /\ got' = [o \in Outputs |-> "unset"]
  /\ next' = 1
  /\ UNCHANGED <<dirs, trees, truth>>

(* log_run does not look at git's exit code: the directory may stay empty.   *)
GitClone ==
  /\ Goto("clone", "load")
  /\ \E ok \in BOOLEAN : dirs' = [dirs EXCEPT ![run].spec = ok]
  /\ UNCHANGED <<run, mode, status, got, next, trees, truth>>

LoadSpec ==
  /\ Goto("load", "options")
  /\ D(run).spec
  /\ UNCHANGED <<run, mode, status, got, next, dirs, trees, truth>>

ParseOptions ==
  /\ Goto("options", "apply")
  /\ UNCHANGED <<run, mode, status, got, next, dirs, trees, truth>>

(* A BadOptionException is passed on. *)
BadOption ==
  /\ Goto("options", "raised")
  /\ UNCHANGED <<run, mode, status, got, next, dirs, trees, truth>>

ApplyOptions ==
  /\ Goto("apply", "inputs")
  /\ UNCHANGED <<run, mode, status, got, next, dirs, trees, truth>>

WriteInputs ==
  /\ Goto("inputs", "run")
  /\ UNCHANGED <<run, mode, status, got, next, dirs, trees, truth>>

Popen ==
  /\ Goto("run", "wait")
  /\ trees' = [trees EXCEPT ![run].pc = "src"]
  /\ UNCHANGED <<run, mode, status, got, next, dirs, truth>>

(* The command ends, with whatever exit code. *)
Communicate ==
  /\ Goto("wait", "collect")
  /\ trees[run].pc = "end"
  /\ status' = "success"
  /\ UNCHANGED <<run, mode, got, next, dirs, trees, truth>>

(* Bug: the second communicate() comes before the kill. *)
TimeoutWaits ==
  /\ Goto("wait", "collect")
  /\ trees[run].pc = "end"
  /\ status' = "timeout"
  /\ trees' = [trees EXCEPT ![run].top = FALSE]
  /\ UNCHANGED <<run, mode, got, next, dirs, truth>>

(* The time limit: the make that was started is killed. *)
Timeout ==
  /\ Goto("wait", "collect")
  /\ trees[run].pc # "end"
  /\ status' = "timeout"
  /\ trees' = [trees EXCEPT ![run].top = FALSE]
  /\ UNCHANGED <<run, mode, got, next, dirs, truth>>

(* What is in the directory for an output file: "none", or its contents.     *)
Contents(o) ==
  IF o = Perf THEN IF D(run).perf THEN "csv" ELSE "none" ELSE D(run).result[o]

(* Bug: a missing file changes every status. *)
CollectAlwaysMissing ==
  /\ rpc = "collect"
  /\ next <= Perf
  /\ next' = next + 1
  /\ IF Contents(next) = "none"
     THEN /\ got' = [got EXCEPT ![next] = "missing"]
          /\ status' = "missing_output"
     ELSE got' = [got EXCEPT ![next] = Contents(next)] /\ UNCHANGED status
  /\ UNCHANGED <<rpc, run, mode, dirs, trees, truth>>

Collect ==
  /\ rpc = "collect"
  /\ next <= Perf
  /\ next' = next + 1
  /\ IF Contents(next) = "none"
     THEN /\ got' = [got EXCEPT ![next] = "missing"]
          /\ status' = IF status = "success" THEN "missing_output" ELSE status
     ELSE got' = [got EXCEPT ![next] = Contents(next)] /\ UNCHANGED status
  /\ UNCHANGED <<rpc, run, mode, dirs, trees, truth>>

Collected ==
  /\ Goto("collect", "cleanup")
  /\ next > Perf
  /\ UNCHANGED <<run, mode, status, got, next, dirs, trees, truth>>

(* Any other exception: git is missing, or lab.py; cpupower fails; an input  *)
(* file was not submitted; the command is not there; a file is unreadable.   *)
Fails ==
  /\ rpc \in {"clone", "load", "apply", "inputs", "run", "collect"}
  /\ rpc' = "cleanup"
  /\ status' = "error"
  /\ UNCHANGED <<run, mode, got, next, dirs, trees, truth>>

(* A clone is removed, which fails if a process still writes there.          *)
Cleanup ==
  /\ Goto("cleanup", "result")
  /\ \/ UNCHANGED status
     \/ /\ mode[run] = "pristine"
        /\ trees[run].pc \notin {"off", "end"}
        /\ status' = "error"
  /\ UNCHANGED <<run, mode, got, next, dirs, trees, truth>>

(* SubmissionResult looks up the file of its figure of merit: a KeyError, if *)
(* the failure came before that file was collected.                          *)
MakeResult ==
  /\ rpc = "result"
  /\ rpc' = IF got[Perf] = "unset" THEN "raised" ELSE "done"
  /\ UNCHANGED <<run, mode, status, got, next, dirs, trees, truth>>

Runner ==
  \/ GitClone \/ LoadSpec \/ ParseOptions \/ BadOption \/ ApplyOptions \/ WriteInputs \/ Popen
  \/ Communicate \/ Timeout \/ Collect \/ Collected \/ Fails \/ Cleanup \/ MakeResult

-----------------------------------------------------------------------------
(* make bench_all of run r.  A make that was killed starts no further        *)
(* subdirectory.                                                             *)

TreeGoto(r, from, to) == trees[r].pc = from /\ trees' = [trees EXCEPT ![r].pc = to]

Onward(r, to) == IF trees[r].top THEN to ELSE "end"

(* make -C src: if it fails, so does the whole. *)
MakeSrc(r) ==
  /\ TreeGoto(r, "src", Onward(r, "test")) \/ TreeGoto(r, "src", "end")
  /\ UNCHANGED <<runner, dirs, truth>>

(* make -C test run, whose errors are ignored: clean, which leaves xml/, and *)
(* the build.                                                                *)
MakeTest(r) ==
  /\ TreeGoto(r, "test", "tests")
  /\ \E ok \in BOOLEAN : dirs' = [dirs EXCEPT ![Dir(r)].bin = ok]
  /\ UNCHANGED <<runner, truth>>

(* run_all.sh: each test in a process, which writes its xml file at its end, *)
(* if it comes to it.                                                        *)
RunTest(r) ==
  LET t == trees[r].test IN
  /\ trees[r].pc = "tests"
  /\ t <= NumTests
  /\ trees' = [trees EXCEPT ![r].test = t + 1]
  /\ \E v \in IF D(r).bin THEN {"pass", "fail", "crash"} ELSE {"crash"} :
       /\ truth' = [truth EXCEPT ![r][t] = v]
       /\ dirs' = IF v = "crash" THEN dirs ELSE [dirs EXCEPT ![Dir(r)].xml[t] = v]
  /\ UNCHANGED runner

TestsDone(r) ==
  /\ trees[r].test > NumTests
  /\ TreeGoto(r, "tests", "parse")
  /\ UNCHANGED <<runner, dirs, truth>>

(* Bug: a test without an xml file has no failure. *)
ParseResultLenient(r) ==
  /\ TreeGoto(r, "parse", Onward(r, "bench"))
  /\ dirs' = [dirs EXCEPT ![Dir(r)].result =
                [t \in Tests |-> IF D(r).xml[t] = "fail" THEN "fail" ELSE "pass"]]
  /\ UNCHANGED <<runner, truth>>

(* parse_result.py: an output file for each xml file, and for each test that *)
(* has none; without the directory, which the first xml file makes, it dies. *)
ParseResult(r) ==
  /\ TreeGoto(r, "parse", Onward(r, "bench"))
  /\ dirs' = IF \A t \in Tests : D(r).xml[t] = "none"
             THEN dirs
             ELSE [dirs EXCEPT ![Dir(r)].result =
                     [t \in Tests |-> IF D(r).xml[t] = "none" THEN "fail" ELSE D(r).xml[t]]]
  /\ UNCHANGED <<runner, truth>>

(* make -C bench run: the build may fail; a benchmark that fails counts as 0 *)
(* in summarize.py, which writes perf.csv.                                   *)
MakeBench(r) ==
  /\ TreeGoto(r, "bench", "end")
  /\ \/ UNCHANGED dirs
     \/ dirs' = [dirs EXCEPT ![Dir(r)].perf = TRUE]
  /\ UNCHANGED <<runner, truth>>

Tree(r) ==
  \/ MakeSrc(r) \/ MakeTest(r) \/ RunTest(r) \/ TestsDone(r) \/ ParseResult(r) \/ MakeBench(r)

Next ==
  \/ \E m \in Modes : Start(m)
  \/ Runner
  \/ \E r \in Runs : Tree(r)

Spec == Init /\ [][Next]_vars

(* Runner's own steps are taken; nothing is assumed of make and its tests.   *)
FairSpec == Spec /\ WF_vars(Runner)

-----------------------------------------------------------------------------
(* Properties. *)

(* A clone that was graded with success tells the truth: each output file    *)
(* says that its test passed just if it did, in this run, whatever earlier   *)
(* runs left behind or are still doing.                                      *)
Graded ==
  rpc = "done" /\ status = "success" /\ mode[run] = "pristine" =>
    \A t \in Tests : got[t] = "pass" <=> truth[run][t] = "pass"

(* In the user's own directory too, an output file that says "pass" was       *)
(* earned there: in this run or, since nothing removes the xml files, in an  *)
(* earlier one that a test which now crashes has not overwritten.            *)
PassEarned ==
  rpc = "done" /\ status = "success" =>
    \A t \in Tests : got[t] = "pass" =>
      \E r \in 1 .. run : Dir(r) = Dir(run) /\ truth[r][t] = "pass"

(* Success is reported only for a command that came to its end and left all  *)
(* its files; a command that was killed is a timeout, or an error, whatever  *)
(* files it left.                                                            *)
StatusTruthful ==
  rpc = "done" =>
    /\ status = "success" => trees[run].top /\ \A o \in Outputs : got[o] \notin {"unset", "missing"}
    /\ ~trees[run].top => status \in {"timeout", "error"}

(* Every submission comes to an end, even one whose tests hang. *)
RunnerReturns == rpc = "wait" ~> rpc \in {"done", "raised"}
=============================================================================
