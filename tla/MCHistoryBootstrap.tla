------------------------- MODULE MCHistoryBootstrap -------------------------
(***************************************************************************)
(* Small instances of HistoryBootstrap: dates 1 and 2 of one month, 3, 4   *)
(* and the anchor 5 of the next; date 0 is before the retention window and *)
(* date 2 a holiday.  The answers to small questions of FamilyQuestions    *)
(* and FamilyEvidence are checked in the same run.                         *)
(***************************************************************************)
EXTENDS HistoryBootstrap, FamilyChecks

MCMonth == [d \in 0..5 |-> IF d <= 2 THEN 1 ELSE 2]

Found(a, b, c, d) ==
    [x \in 0..5 |-> CASE x = 0 -> "ready" [] x = 1 -> a [] x = 2 -> b [] x = 3 -> c
                      [] x = 4 -> d [] x = 5 -> "complete"]

LongRetention(cursor) ==
    [status |-> "RUNNING", phase |-> "none", cursor |-> cursor, target |-> 0]

\* A first deployment; one over dates that are partly complete or indexed; a
\* state of the longer retention without a phase, its cursor inside.
MCStarts ==
    {[state |-> NoState, manifest |-> Found("partial", "partial", "partial", "partial")],
     [state |-> NoState, manifest |-> Found("legacy", "partial", "complete", "ready")],
     [state |-> LongRetention(3), manifest |-> Found("complete", "closed", "partial", "ready")]}
=============================================================================
