--------------------------- MODULE DecisionMatrix ---------------------------
(***************************************************************************)
(* scripts/build_decision_matrix.py as a function from a directory of      *)
(* result files to the matrix.  A result file is known by the benchmark    *)
(* that wrote it and has                                                   *)
(*   state   "none" (there is no such file), "partial" (it does not parse  *)
(*           as JSON), "error" (it has a top-level "error"), "complete"    *)
(*   rows    the entries of "benchmarks", in order.                        *)
(* A row names its function, its argument and its aggregate; the numbers   *)
(* go with it.  A pattern of WORKLOAD_RULES is the function whose names it *)
(* finds, as none of the patterns finds those of two.                      *)
(***************************************************************************)
EXTENDS Sequences, SequencesExt

CONSTANTS Sorted,  \* the names of all result files, in the order of sorted()
          Cells    \* [workload, pattern]: the primitives of WORKLOAD_RULES

NoRow == [source |-> "none"]

Row(source, function, arg, aggregate) ==
    [source |-> source, function |-> function, arg |-> arg, aggregate |-> aggregate]

\* Lines 76-84: the rows of a file that parses and has no error.
Kept(file) == IF file.state = "complete" THEN file.rows ELSE <<>>

\* Lines 73-89.  The rows that line 86 drops are those that pick_best, which
\* alone reads the list, does not look at.
load_benchmarks(dir) == FlattenSeq([i \in DOMAIN Sorted |-> Kept(dir[Sorted[i]])])

Dropped == {"stddev", "cv", "median"}

\* Seeded fault: the row that was found last is taken.
pick_best_Last(rows, function) ==
    LET matches == {i \in DOMAIN rows : /\ rows[i].function = function
                                        /\ rows[i].aggregate \notin Dropped}
    IN IF matches # {} THEN rows[Max(matches)] ELSE NoRow

\* Lines 92-101: the first mean that matches, or else the first match.
pick_best(rows, function) ==
    LET matches == {i \in DOMAIN rows : /\ rows[i].function = function
                                        /\ rows[i].aggregate \notin Dropped}
        means   == {i \in matches : rows[i].aggregate = "mean"}
    IN IF means # {} THEN rows[Min(means)]
       ELSE IF matches # {} THEN rows[Min(matches)]
       ELSE NoRow

\* Lines 130-159: NoRow stands for an entry of nulls.
Matrix(dir) == LET rows == load_benchmarks(dir)
               IN [c \in Cells |-> pick_best(rows, c.pattern)]
=============================================================================
