------------------------------ MODULE MCReplay ------------------------------
(* Small command lines of the three replay loads.                          *)
EXTENDS Replay

\* Two clients on one stream, which one setup append after the other fills.
CatchUp ==
  [command |-> "catch-up", pods |-> 1, streams |-> 1, clients |-> 2, events |-> 2,
   permits |-> 1, snapshot |-> FALSE]

CatchUpPods == [CatchUp EXCEPT !.pods = 2, !.clients = 1]

\* With a snapshot, on a shared stream and on one of each client.
Bootstrap ==
  [CatchUp EXCEPT !.command = "bootstrap", !.permits = 2, !.snapshot = TRUE]

BootstrapOwn == [Bootstrap EXCEPT !.streams = 2, !.events = 1]

\* A reader on each of two streams, and two pods that seed one stream.
Reads == [CatchUp EXCEPT !.command = "reads", !.streams = 2, !.permits = 2]

ReadsPods == [Reads EXCEPT !.pods = 2, !.streams = 1, !.clients = 1, !.events = 1]

CatchUpFleet == {CatchUpPods}
ReadsFleet   == {ReadsPods}

AllLoads == {CatchUp, CatchUpPods, Bootstrap, BootstrapOwn, Reads, ReadsPods}
=============================================================================
