------------------------------ MODULE MCLiveRun ------------------------------
(* Three steps, a channel and a lead of one, two runs: the kernel gets      *)
(* ahead, blocks, is stopped while it sends, and the window slides.         *)
EXTENDS LiveRun
==============================================================================
