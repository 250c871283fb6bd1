------------------------------ MODULE Watchdog ------------------------------
(***************************************************************************)
(* scripts/teardown-watchdog.sh: a detached loop that deletes every        *)
(* bench-* cluster at a deadline, unless the campaign signalled clean      *)
(* completion (DONE_MARKER) first and no cluster is left.                  *)
(*                                                                         *)
(* Module Campaign puts it beside the suite that creates the clusters.     *)
(***************************************************************************)
EXTENDS FiniteSets

CONSTANTS
  Clusters,   \* names the filter ^bench- matches
  ListFaults  \* `gcloud clusters list` may fail

VARIABLES
  cloud,    \* clusters that exist
  marker,   \* DONE_MARKER exists
  deadline, \* the deadline is reached
  dog,      \* where the watchdog stands
  forced,   \* the loop behind the deadline is entered
  listed    \* clusters left of the listing that _sweep works through

TypeOK ==
  /\ cloud \in SUBSET Clusters
  /\ marker \in BOOLEAN
  /\ deadline \in BOOLEAN /\ forced \in BOOLEAN
  /\ dog \in {"unarmed", "poll", "leftover", "list", "sweep", "check", "clean", "off"}
  /\ listed \in SUBSET Clusters

\* The marker of an earlier campaign may still be there.
Init ==
  /\ marker \in BOOLEAN /\ deadline = FALSE
  /\ dog = "unarmed" /\ forced = FALSE /\ listed = {}

\* The script is started.
Arms ==
  /\ dog = "unarmed"
  /\ dog' = "poll"
  /\ UNCHANGED <<deadline, forced, listed>>

DeadlinePasses ==
  /\ dog = "poll" /\ ~deadline
  /\ deadline' = TRUE
  /\ UNCHANGED <<cloud, marker, dog, forced, listed>>

\* _matching: the listing, or nothing at all when the call fails.
Matching == {cloud} \cup (IF ListFaults THEN {{}} ELSE {})

\* The top of the polling loop, before the deadline.
SeesMarker ==
  /\ dog = "poll" /\ ~deadline /\ marker
  /\ dog' = "leftover"
  /\ UNCHANGED <<cloud, marker, deadline, forced, listed>>

\* Marker present: stand down if nothing is listed, else sweep.
ChecksLeftover ==
  /\ dog = "leftover"
  /\ \E left \in Matching : dog' = IF left = {} THEN "clean" ELSE "list"
  /\ UNCHANGED <<cloud, marker, deadline, forced, listed>>

\* Mutant: the deadline fires only for campaigns that left their marker.
MutantSeesDeadline ==
  /\ dog = "poll" /\ ~forced /\ deadline /\ marker
  /\ forced' = TRUE /\ dog' = "list"
  /\ UNCHANGED <<cloud, marker, deadline, listed>>

\* The polling loop is over.
SeesDeadline ==
  /\ dog = "poll" /\ ~forced /\ deadline
  /\ forced' = TRUE /\ dog' = "list"
  /\ UNCHANGED <<cloud, marker, deadline, listed>>

\* _sweep: list, delete one by one, list again.
SweepLists ==
  /\ dog = "list"
  /\ listed' \in Matching
  /\ dog' = "sweep"
  /\ UNCHANGED <<cloud, marker, deadline, forced>>

\* A listed cluster may already be gone.
Deletes(c) ==
  /\ dog = "sweep" /\ c \in listed
  /\ listed' = listed \ {c} /\ cloud' = cloud \ {c}
  /\ UNCHANGED <<marker, deadline, dog, forced>>

\* The delete is refused while the cluster is PROVISIONING or RECONCILING.
DeleteRefused(c) ==
  /\ dog = "sweep" /\ c \in listed
  /\ listed' = listed \ {c}
  /\ UNCHANGED <<cloud, marker, deadline, dog, forced>>

SweepDone ==
  /\ dog = "sweep" /\ listed = {}
  /\ dog' = "check"
  /\ UNCHANGED <<cloud, marker, deadline, forced, listed>>

\* Sleep and sweep again (behind the deadline), or poll again, while anything is
\* listed.
ChecksSweep ==
  /\ dog = "check"
  /\ \E left \in Matching :
       dog' = IF left = {} THEN "clean" ELSE IF forced THEN "list" ELSE "poll"
  /\ UNCHANGED <<cloud, marker, deadline, forced, listed>>

\* The script ends; a cluster created since the empty listing is not seen.
StandsDown ==
  /\ dog = "clean"
  /\ dog' = "off"
  /\ UNCHANGED <<cloud, marker, deadline, forced, listed>>

DogNext ==
  \/ SeesMarker \/ ChecksLeftover \/ SeesDeadline
  \/ SweepLists \/ SweepDone \/ ChecksSweep \/ StandsDown
  \/ \E c \in Clusters : Deletes(c) \/ DeleteRefused(c)
=============================================================================
