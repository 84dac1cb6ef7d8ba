---------------------------- MODULE MCVideoIngest ----------------------------
(* TLC instances of VideoIngest.                                           *)
EXTENDS VideoIngest

CONSTANTS u1, u2, yt, r1, r2

Twins      == {u1, u2}        \* two uploads of one file
OnlyYoutube == {yt}
NoUploads  == {}
OneFile    == [v \in Uploads |-> "file"]

OneRun  == {r1}
TwoRuns == {r1, r2}

Outages      == {"refused"}
Slow         == {"slow"}
SlowAndLossy == {"slow", "qdrant"}
Stormy       == {"slow", "refused", "database"}
=============================================================================
