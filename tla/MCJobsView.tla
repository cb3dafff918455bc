---------------------------- MODULE MCJobsView ----------------------------
(* JobsView on a small instance.                                           *)
EXTENDS JobsView

\* Two failures, one of which both words match, before a success.
MCListedJobs == <<"j1", "j2", "j3">>
MCStatusOf == [j1 |-> "testfailed", j2 |-> "testfailed", j3 |-> "success"]
MCWordsOf == [j1 |-> {"x"}, j2 |-> {"x", "y"}, j3 |-> {"y"}]

\* Pushes that arrive with a refusal, with a link, with changes of jobs under
\* two polls at once, and a job selected before and after a `get next`.
MCBudgets ==
    LET B(newest, jobs, changes, moves, nexts, failures, polls) ==
            [newest |-> newest, jobs |-> jobs, changes |-> changes, moves |-> moves,
             nexts |-> nexts, failures |-> failures, polls |-> polls]
    IN  {B(1, 0, 0, 0, 0, 1, 1), B(1, 0, 0, 1, 0, 0, 1), B(2, 0, 1, 1, 0, 1, 1),
         B(2, 0, 1, 0, 0, 0, 2), B(2, 1, 0, 2, 0, 0, 1), B(3, 1, 0, 1, 1, 0, 1)}

\* Fewer jobs are like the selected one when both boxes are ticked.
MCSimilarTo == [b \in SUBSET Boxes |-> IF b = Boxes THEN <<"a", "b">> ELSE <<"a", "c", "b">>]
=============================================================================
