----------------------------- MODULE MCVwpStream -----------------------------
(* Instances of VwpStream for TLC.                                         *)
EXTENDS VwpStream

SmallFrames == [key |-> 2, delta |-> 1, prov |-> 1, data |-> 1]
LargeData   == [key |-> 2, delta |-> 1, prov |-> 1, data |-> 4]

NoneOrAll == {0, 3}
NoneOrOne == {0, 1}

Following  == [events |-> {"drop", "expire", "pause", "data"}, maxSeq |-> 15]
Revisiting == [events |-> {"drop", "seek", "data"}, maxSeq |-> 4]
Seeking    == [events |-> {"drop", "seek", "other_seek", "step"}, maxSeq |-> 5]
Restarting == [events |-> {"start", "drop", "pause", "step", "data"}, maxSeq |-> 5]

FollowOrRevisit == {Following, Revisiting}
SeekOrRestart   == {Seeking, Restarting}

=============================================================================
