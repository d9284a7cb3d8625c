---------------------------- MODULE MCScheduler ----------------------------
(* Two instants, three priorities and four schedules: a reentrant pair, a    *)
(* cancellation and a compaction all fit.                                    *)
EXTENDS Scheduler
=============================================================================
