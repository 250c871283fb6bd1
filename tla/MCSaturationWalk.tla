-------------------------- MODULE MCSaturationWalk --------------------------
(* Suites small enough to walk every ladder with every reading.            *)
EXTENDS SaturationWalk

OneCount  == <<8>>

\* Two builds pushed under one tag, and an image under another.
Builds == {"dev-1", "dev-2", "release"}
MovedTag ==
  [b \in Builds |-> IF b = "release" THEN "durable-streams:v1" ELSE "durable-streams:dev"]

\* cap_ladder makes the last rung one of 8 pods.
ShortLadder == [s \in {2, 8} |-> <<1, 2, 4, 16>>]

\* One rung for 1 stream, where no gain exists, and three for 8 streams.
MixedCounts == <<1, 8>>
MixedLadder == [s \in {1, 8} |-> <<1, 4, 16>>]
=============================================================================
