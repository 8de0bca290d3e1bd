---------------------------- MODULE MCScheduler ----------------------------
(* Instances of Scheduler for TLC: a manager above two workers.             *)
EXTENDS Scheduler

CONSTANTS idle, main, a, b

MCThread == {idle, main, a, b}
MCBooted == (0 :> <<main>>) @@ (1 :> <<>>) @@ (2 :> <<idle>>)
MCInitPriority == (idle :> 2) @@ (main :> 0) @@ (a :> 1) @@ (b :> 1)
MCInitTick == (idle :> 1) @@ (main :> 1) @@ (a :> 1) @@ (b :> 1)
MCManages == {main} \X {a, b}

\* Two workers below their manager that close and are made anew, of the idle
\* thread's priority, so that it shares the processor with them.
FairBooted == (0 :> <<main>>) @@ (1 :> <<idle>>)
FairInitPriority == (idle :> 1) @@ (main :> 0) @@ (a :> 1) @@ (b :> 1)

=============================================================================
