----------------------------- MODULE MCSseDrive -----------------------------
(* Small command lines of the three loads.                                 *)
EXTENDS SseDrive

\* A subscriber, an unpaced writer and a paced reader on one stream.
Mixed ==
  [command |-> "mixed", pods |-> 1, streams |-> 1, writers |-> 1, subs |-> 1,
   readers |-> 1, writerPace |-> 0, readerPace |-> 2, warmup |-> 0, duration |-> 2,
   idle |-> 0, timeout |-> 4]

\* Two readers, staggered over the interval.
MixedReaders == [Mixed EXCEPT !.subs = 0, !.readers = 2]

Fanout ==
  [command |-> "fanout", pods |-> 1, streams |-> 1, writers |-> 1, subs |-> 2,
   readers |-> 0, writerPace |-> 1, readerPace |-> 0, warmup |-> 0, duration |-> 1,
   idle |-> 1, timeout |-> 4]

\* One stream on one pod, and on two, of which the second has no writer.
Multi ==
  [Fanout EXCEPT !.command = "multi-fanout", !.subs = 1, !.warmup = 1, !.duration = 2,
                 !.timeout = 5]

MultiPods ==
  [Multi EXCEPT !.pods = 2, !.subs = 2, !.warmup = 0, !.duration = 1,
                !.writerPace = 2, !.timeout = 2]

OneMixed     == {Mixed}
OneFanout    == {Fanout}
OneMulti     == {[Multi EXCEPT !.warmup = 0]}
OneMultiPods == {MultiPods}

\* The window is as long as the timeout, as the 30 s of canonical-mixed-delivery.json
\* are: lib-mixed.sh leaves --request-timeout-secs at its default.
ShortTimeout == {[Mixed EXCEPT !.timeout = 2]}

AllRuns == {Mixed, MixedReaders, Fanout, Multi, MultiPods}
=============================================================================
