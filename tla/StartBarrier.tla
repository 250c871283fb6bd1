---------------------------- MODULE StartBarrier ----------------------------
(***************************************************************************)
(* What the fleet start barrier promises (ds-bench/src/barrier.rs 1-22):   *)
(* no pod of a pass begins to load the server until every pod of that pass *)
(* has finished its setup, unless the leader forced the barrier open or    *)
(* that pod gave up waiting on its own.  A pass may be recycled at any     *)
(* time, and a pod may leave (preempted, OOM-killed) at any time.          *)
(*                                                                         *)
(* FleetBarrier is shown to implement this module.                         *)
(***************************************************************************)
CONSTANT Pods

VARIABLES
  arrived,  \* pods of this pass that announced the end of their setup
  open,     \* the start time of this pass has been published
  forced,   \* the leader stopped waiting before every pod had arrived
  gaveUp,   \* pods that stopped waiting for the start time
  started   \* pods that left the barrier and load the server

vars == <<arrived, open, forced, gaveUp, started>>

TypeOK ==
  /\ arrived \in SUBSET Pods
  /\ open \in BOOLEAN
  /\ forced \in BOOLEAN
  /\ gaveUp \in SUBSET Pods
  /\ started \in SUBSET Pods

Init ==
  /\ arrived = {}
  /\ open = FALSE
  /\ forced = FALSE
  /\ gaveUp = {}
  /\ started = {}

Arrive(p) ==
  /\ arrived' = arrived \cup {p}
  /\ UNCHANGED <<open, forced, gaveUp, started>>

Open ==
  /\ arrived = Pods
  /\ open' = TRUE
  /\ UNCHANGED <<arrived, forced, gaveUp, started>>

Force ==
  /\ forced' = TRUE
  /\ open' \in BOOLEAN
  /\ UNCHANGED <<arrived, gaveUp, started>>

Start(p) ==
  /\ open
  /\ started' = started \cup {p}
  /\ UNCHANGED <<arrived, open, forced, gaveUp>>

GiveUp(p) ==
  /\ gaveUp' = gaveUp \cup {p}
  /\ started' = started \cup {p}
  /\ UNCHANGED <<arrived, open, forced>>

Leave(p) ==
  /\ started' = started \ {p}
  /\ UNCHANGED <<arrived, open, forced, gaveUp>>

Recycle ==
  /\ arrived' = {}
  /\ open' = FALSE
  /\ forced' = FALSE
  /\ gaveUp' = {}
  /\ started' = {}

Next ==
  \/ Open \/ Force \/ Recycle
  \/ \E p \in Pods : Arrive(p) \/ Start(p) \/ GiveUp(p) \/ Leave(p)

Spec == Init /\ [][Next]_vars

(***************************************************************************)
(* No early start: a pod that loads the server and neither gave up nor was *)
(* let through by a forced release does so with the whole fleet arrived.   *)
(***************************************************************************)
NoEarlyStart ==
  (started \ gaveUp # {} /\ ~forced) => arrived = Pods

=============================================================================
