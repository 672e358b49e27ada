----------------------------- MODULE MCScheduler -----------------------------
(* Instances of SchedulerProperties for TLC. *)
EXTENDS SchedulerProperties

Loop == [interval |-> 1, recurring |-> TRUE, durable |-> TRUE, immediate |-> FALSE]
Once == [interval |-> 1, recurring |-> FALSE, durable |-> TRUE, immediate |-> FALSE]
LoopNow == [Loop EXCEPT !.immediate = TRUE]

LoopAndOnce == {LoopNow, Once}
Asked == {Loop}
=============================================================================
