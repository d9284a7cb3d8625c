--------------------------- MODULE MCNodeReceive ---------------------------
\* Small node configurations for TLC: software cryptography, an accelerator with the
\* prioritized policy, a parallel verifier with the on-demand policy, and a profile that
\* parses slowly.
EXTENDS NodeReceive

MCBanks == {"cpu", "accel"}
OneEach == [b \in MCBanks |-> 1]
Base == [policy |-> "verify-all", rxCapacity |-> 1, capacity |-> 1, parse |-> NoCost,
         verify |-> 2, sign |-> 2, verifyOn |-> "cpu", signOn |-> "cpu", servers |-> OneEach]

Software == [Base EXCEPT !.verify = 1]
Accelerated == [Base EXCEPT !.policy = "prioritized", !.capacity = 2, !.verifyOn = "accel"]
NoRoom == [Accelerated EXCEPT !.capacity = 0]
Parallel == [Base EXCEPT !.policy = "on-demand", !.verifyOn = "accel",
                         !.servers = [OneEach EXCEPT !["accel"] = 2]]
SlowParse == [Base EXCEPT !.verifyOn = "accel", !.parse = 2]
Uncosted == [Accelerated EXCEPT !.capacity = 1, !.verify = NoCost]

\* The later a frame is decoded, the closer its sender.
Nearing == [t \in 1..MaxFrames |-> t]

MCProfiles == {Software, Accelerated, NoRoom, Parallel, SlowParse, Uncosted}
=============================================================================
