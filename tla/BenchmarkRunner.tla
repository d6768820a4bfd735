--------------------------- MODULE BenchmarkRunner ---------------------------
(***************************************************************************)
(* scripts/run_all_benchmarks.sh: build, run the suite one benchmark after *)
(* the other under a time limit, then write a summary (simple mode), the   *)
(* analysis report and the decision matrix, and publish the matrix.        *)
(*                                                                         *)
(* The child is a benchmark executable.  It opens its result file at once, *)
(* writes into it while it runs, completes it, and exits; on the way it    *)
(* may crash or hang.  Nothing stops the script when a step fails: there   *)
(* is no `set -e', and nobody looks at what run_benchmark returns.         *)
(***************************************************************************)
EXTENDS Integers, DecisionMatrix

CONSTANTS SimpleSuite,  \* lines 189-194: the benchmarks in the order they run
          FullSuite,    \* lines 232-256
          Functions,    \* the functions that each executable registers, in order
          Args,         \* the arguments of each function, in order
          Filter        \* the function that simple mode runs, at its first argument

Benchmarks == ToSet(Sorted)

\* Each executable registers functions, and none that another one registers; in
\* simple mode each runs one of its own.
SuitesFit ==
    /\ Sorted \in Seq(Benchmarks)
    /\ SimpleSuite \in Seq(Benchmarks) /\ FullSuite \in Seq(Benchmarks)
    /\ Args \in Seq(ToSet(Args)) \ {<<>>}
    /\ \A b \in Benchmarks : Functions[b] \in Seq(ToSet(Functions[b])) \ {<<>>}
    /\ \A b, d \in Benchmarks : b # d => ToSet(Functions[b]) \cap ToSet(Functions[d]) = {}
    /\ \A b \in ToSet(SimpleSuite) : Filter[b] \in ToSet(Functions[b])

ASSUME RunnerAssumption == SuitesFit

VARIABLES
    mode,
    python,    \* python3 is installed
    built,     \* the executables in build/
    place,     \* where the script is
    next,      \* position in the suite
    child,     \* the benchmark process: "none", "working", "stuck"
    dir,       \* the result files of this run
    outcome,   \* history: how each benchmark ended
    summary,   \* simple_summary.txt
    report,    \* analysis_report.md: what it shows of each benchmark in it
    generated, \* matrix/generated/decision_matrix.json
    status     \* exit status of the script

runner_vars == <<mode, python, built, place, next, child, dir, outcome, summary, report,
                 generated, status>>
host == <<mode, python, built>>
results == <<summary, report, generated, status>>

Suite == IF mode = "simple" THEN SimpleSuite ELSE FullSuite
Current == Suite[next]

NoFile  == [state |-> "none", rows |-> <<>>]
Partial == [state |-> "partial", rows |-> <<>>]
Error   == [state |-> "error", rows |-> <<>>]

Old == <<>>   \* the matrix of an earlier run
Unwritten == <<>>

RunnerInit == /\ mode \in {"simple", "full"}
              /\ python \in BOOLEAN
              /\ built \in {{}, Benchmarks} \* a generator may put them elsewhere than in build/
              /\ place = "build"
              /\ next = 1
              /\ child = "none"
              /\ dir = [b \in Benchmarks |-> NoFile]
              /\ outcome = [b \in Benchmarks |-> "not run"]
              /\ summary = Unwritten
              /\ report = Unwritten
              /\ generated = Old
              /\ status = 0

Go(from, to) == place = from /\ place' = to

-----------------------------------------------------------------------------
(* build_all: lines 164-179 *)

Build == /\ Go("build", "run")
         /\ UNCHANGED <<host, next, child, dir, outcome, results>>

\* Lines 33-34 and 175-176: no timeout command, or no build.
BuildFails == /\ Go("build", "over")
              /\ status' = 1
              /\ UNCHANGED <<host, next, child, dir, outcome, summary, report, generated>>

-----------------------------------------------------------------------------
(* run_benchmark: lines 70-132 *)

\* The function returns, and what it returns is dropped.
Return(o) == /\ place' = "run"
             /\ outcome' = [outcome EXCEPT ![Current] = o]
             /\ next' = next + 1
             /\ child' = "none"

\* Lines 85-88.
NotFound == /\ place = "run" /\ next <= Len(Suite)
            /\ Current \notin built
            /\ Return("missing")
            /\ UNCHANGED <<host, dir, results>>

\* Lines 93-109.
Start == /\ place = "run" /\ next <= Len(Suite)
         /\ Current \in built
         /\ place' = "wait"
         /\ child' = "working"
         /\ dir' = [dir EXCEPT ![Current] = Partial]
         /\ UNCHANGED <<host, next, outcome, results>>

\* With three repetitions and --benchmark_report_aggregates_only.
Aggregates == <<"mean", "median", "stddev", "cv">>

Written(b) ==
    LET functions == IF mode = "simple" THEN <<Filter[b]>> ELSE Functions[b]
        args      == IF mode = "simple" THEN <<Args[1]>> ELSE Args
        Of(f, a)  == [k \in DOMAIN Aggregates |-> Row(b, f, a, Aggregates[k])]
    IN FlattenSeq([i \in DOMAIN functions |->
         FlattenSeq([j \in DOMAIN args |-> Of(functions[i], args[j])])])

\* The child completes its file; it has still to exit.
WriteFile == /\ child = "working" /\ dir[Current].state = "partial"
             /\ dir' = [dir EXCEPT ![Current] = [state |-> "complete", rows |-> Written(Current)]]
             /\ UNCHANGED <<host, place, next, child, outcome, results>>

\* The child deadlocks in a benchmark.
Hang == /\ child = "working" /\ dir[Current].state = "partial"
        /\ child' = "stuck"
        /\ UNCHANGED <<host, place, next, dir, outcome, results>>

\* Lines 115-116.
Completed == /\ child = "working" /\ dir[Current].state = "complete"
             /\ Return("completed")
             /\ UNCHANGED <<host, dir, results>>

\* Lines 128-131: the child has crashed, and its file is as it left it.
Failed == /\ child = "working"
          /\ Return("failed")
          /\ UNCHANGED <<host, dir, results>>

\* Seeded fault: the time limit is for a child that works too long.
TimedOut_IfWorking == /\ child = "working"
                      /\ Return("timed out")
                      /\ dir' = [dir EXCEPT ![Current] = Error]
                      /\ UNCHANGED <<host, results>>

\* Seeded fault: the file of a child that was killed is left as it is.
TimedOut_KeepsFile == /\ child # "none"
                      /\ Return("timed out")
                      /\ UNCHANGED <<host, dir, results>>

\* Lines 117-127: `timeout' has killed the child, which may have completed its
\* file meanwhile; the file is replaced by one with an error.
TimedOut == /\ child # "none"
            /\ Return("timed out")
            /\ dir' = [dir EXCEPT ![Current] = Error]
            /\ UNCHANGED <<host, results>>

-----------------------------------------------------------------------------
(* Summary, report, matrix: lines 196-224 and 259-332 *)

\* Lines 134-161.  The file of a timeout has nothing in it that jq could find.
\* jq fails on a file that does not parse, and printf turns its empty output to 0.
Zero == [source |-> "0.00"]
NotAvailable == [source |-> "N/A"]
extract_summary(file) == CASE file.state \in {"none", "error"} -> NotAvailable
                           [] file.state = "partial"           -> Zero
                           [] OTHER                            -> Head(file.rows)

Summarise == /\ next > Len(Suite)
             /\ Go("run", "report")
             /\ summary' = IF mode = "full" THEN Unwritten
                           ELSE [i \in DOMAIN SimpleSuite |-> extract_summary(dir[SimpleSuite[i]])]
             /\ UNCHANGED <<host, next, child, dir, outcome, report, generated, status>>

ParseError == [source |-> "parse error"]
Timeout == [source |-> "timeout"]

\* Lines 269-287.
Line(file) == CASE file.state = "partial" -> ParseError
                [] file.state = "error"   -> Timeout
                [] OTHER                  -> Head(file.rows)

\* Seeded fault: a file without results gets no line.
Listed_Complete(b) == dir[b].state = "complete"

\* Lines 268-272: a line for each file there is.
Listed(b) == dir[b].state # "none"

\* Lines 262-318: what the report shows of each benchmark that it lists.
WriteReport == /\ Go("report", "matrix")
               /\ report' = IF python
                            THEN [b \in {d \in Benchmarks : Listed(d)} |-> Line(dir[b])]
                            ELSE Unwritten
               /\ UNCHANGED <<host, next, child, dir, outcome, summary, generated, status>>

\* Lines 323-332: the matrix of this run replaces the one that was published.
Publish == /\ Go("matrix", "monitor")
           /\ generated' = IF python THEN Matrix(dir) ELSE generated
           /\ UNCHANGED <<host, next, child, dir, outcome, summary, report, status>>

\* Line 361: the status of the script tells whether a process is left over.
Monitor == /\ Go("monitor", "over")
           /\ status' = IF child = "none" THEN 0 ELSE 1
           /\ UNCHANGED <<host, next, child, dir, outcome, summary, report, generated>>

-----------------------------------------------------------------------------
ChildStep == WriteFile \/ Hang \/ Completed \/ Failed

ScriptStep == \/ Build \/ BuildFails
              \/ NotFound \/ Start
              \/ Summarise \/ WriteReport \/ Publish \/ Monitor

RunOver == place = "over" /\ UNCHANGED runner_vars

RunnerNext == ScriptStep \/ ChildStep \/ TimedOut \/ RunOver

\* The script goes on and the clock of `timeout' runs; a child owes nothing.
RunnerSpec == /\ RunnerInit /\ [][RunnerNext]_runner_vars
              /\ WF_runner_vars(ScriptStep) /\ WF_runner_vars(TimedOut)

-----------------------------------------------------------------------------
(* Properties *)

Published == place = "over" /\ generated # Old

\* Function f was among those that benchmark b was asked to run.
Asked(b, f) == b \in ToSet(Suite) /\ f \in ToSet(Functions[b]) /\ (mode = "full" \/ Filter[b] = f)

\* A published matrix has measured numbers only, and has them: the entry of a
\* function is the mean over the repetitions with its first argument if its
\* benchmark completed, it is empty if the benchmark is missing, was killed at
\* the time limit (its file complete or not) or was not asked for the function,
\* and it is one of the two if the benchmark crashed.  No other benchmark's end
\* makes a difference.
MatrixFaithful ==
    Published => \A c \in Cells, b \in Benchmarks :
        c.pattern \in ToSet(Functions[b]) =>
            LET mean == Row(b, c.pattern, Args[1], "mean")
            IN IF ~Asked(b, c.pattern) \/ outcome[b] \in {"missing", "timed out"}
               THEN generated[c] = NoRow
               ELSE IF outcome[b] = "completed" THEN generated[c] = mean
               ELSE generated[c] \in {NoRow, mean}

Measured(shown) == shown \notin {ParseError, Timeout, NotAvailable, Zero}

\* The report, the summary and the matrix, which three programs make of the
\* same files, tell the same story: the report has a line for each benchmark that
\* was started, and says which were killed; the matrix takes numbers from just the
\* files whose line has some, and they are the same numbers if it is the same
\* function; and so does the summary.
OutputsAgree ==
    Published =>
        /\ DOMAIN report = {b \in Benchmarks : outcome[b] \notin {"not run", "missing"}}
        /\ \A b \in DOMAIN report : report[b] = Timeout <=> outcome[b] = "timed out"
        /\ \A c \in Cells : generated[c] # NoRow =>
              LET b == generated[c].source IN b \in DOMAIN report /\ Measured(report[b])
        /\ \A b \in DOMAIN report, c \in Cells :
              Measured(report[b]) /\ report[b].function = c.pattern => generated[c] = report[b]
        /\ mode = "simple" => \A i \in DOMAIN SimpleSuite :
              Measured(summary[i]) => summary[i] = report[SimpleSuite[i]]

\* Whatever the benchmarks do, the run comes to its end, and by then each of the
\* suite has had its turn: a hung one is killed, and a failure stops nothing.
RunEnds == (place = "run") ~> (place = "over" /\ \A b \in ToSet(Suite) : outcome[b] # "not run")
=============================================================================
