---------------------------- MODULE MCLevelSweep ----------------------------
(* Two stream counts, two levels each.                                     *)
EXTENDS LevelSweep, TLC

TwoCounts == <<10, 20>>
TwoLevels == {<<1, 8>>}
OneLevel  == {<<0>>}

\* Two builds pushed under one tag, and an image under another.
Builds == {"dev-1", "dev-2", "release"}
MovedTag ==
  [b \in Builds |-> IF b = "release" THEN "durable-streams:v1" ELSE "durable-streams:dev"]

\* The suite file gains a level between two invocations.
EditedLevels == {<<1>>, <<1, 8>>}
=============================================================================
