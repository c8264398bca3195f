--------------------------- MODULE CronSchedulerMC ---------------------------
(* Instances of CronScheduler for TLC. *)
EXTENDS CronScheduler

CONSTANTS r1, r2

OneRunner  == {r1}
TwoRunners == {r1, r2}

\* The jobs the server registers are reentrant, the every_plan job of the
\* tests is not.  A bucket of three lets a lease lapse, and a retry come due,
\* within it; with a bucket of two, missed plans are caught up with.
KnownJobs == {[mode |-> "latest_only", cadence |-> 3, reentry |-> TRUE],
              [mode |-> "automation", cadence |-> 3, reentry |-> TRUE],
              [mode |-> "every_plan", cadence |-> 2, reentry |-> FALSE]}
EveryPlan == [mode : {"every_plan"}, cadence : {2}, reentry : {TRUE}]
=============================================================================
