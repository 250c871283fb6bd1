------------------------------ MODULE Campaign ------------------------------
(***************************************************************************)
(* A campaign (scripts/run-fullmatrix-2026-07-02.sh and its like): it      *)
(* removes the marker of an earlier one, arms the watchdog, runs its       *)
(* suites and tears everything down in the trap of EXIT, INT and TERM.     *)
(* Suite and watchdog share nothing but the cloud's clusters and a marker. *)
(*                                                                         *)
(* The suite is SuiteRun, the watchdog is Watchdog; here is what joins     *)
(* them: the campaign's start, its trap with its own deletions, its death. *)
(***************************************************************************)
EXTENDS SuiteRun

CONSTANT ListFaults \* `gcloud clusters list` may fail

VARIABLES
  campaign, \* where the campaign's script stands
  exiting,  \* the trap runs for EXIT
  cut,      \* history: a signal set off the trap
  marker, deadline, dog, forced, listed \* the watchdog's

W == INSTANCE Watchdog WITH Clusters <- Modes

dogVars  == <<marker, deadline, dog, forced, listed>>
ownVars  == <<campaign, exiting, cut>>
\* All of the suite's but the clusters.
jobVars  == <<main, sub, seen, image, runs, operator, todo, ours, file, cells, report,
              measured, kills>>
campVars == <<vars, ownVars, dogVars>>

CampaignTypeOK ==
  /\ TypeOK /\ W!TypeOK
  /\ campaign \in {"new", "on", "trap", "sweep", "over"}
  /\ exiting \in BOOLEAN /\ cut \in BOOLEAN

CampaignInit ==
  /\ Init /\ W!Init
  /\ campaign = "new" /\ exiting = FALSE /\ cut = FALSE

\* Mutant: the marker of an earlier campaign stays.
MutantStarts ==
  /\ campaign = "new"
  /\ campaign' = "on"
  /\ W!Arms /\ UNCHANGED marker
  /\ \E left \in SUBSET cloud : cloud' = left
  /\ UNCHANGED <<jobVars, exiting, cut>>

\* The clean slate, best effort, and the watchdog.
Starts ==
  /\ campaign = "new"
  /\ campaign' = "on"
  /\ W!Arms /\ marker' = FALSE
  /\ \E left \in SUBSET cloud : cloud' = left
  /\ UNCHANGED <<jobVars, exiting, cut>>

\* bench, run by the campaign or by its operator; only `bench run` waits for the
\* campaign to begin, and is not started behind it.
SuiteStep ==
  /\ Next
  /\ runs' # runs => campaign = "on"
  /\ UNCHANGED <<ownVars, dogVars>>

\* teardown_all, at the end of the script or for a signal, between two commands of
\* the script.
TrapFires ==
  /\ campaign = "on" /\ main = "idle"
  /\ campaign' = "trap"
  /\ exiting' \in BOOLEAN
  /\ cut' = (cut \/ ~exiting')
  /\ UNCHANGED <<vars, dogVars>>

\* First `bench teardown` ...
TrapTearsDown ==
  /\ campaign = "trap" /\ operator = "idle"
  /\ campaign' = "sweep"
  /\ \/ OperatorTeardown
     \/ file = NoFile /\ UNCHANGED vars
  /\ UNCHANGED <<exiting, cut, dogVars>>

\* ... then the clusters listed are deleted one after the other, a failed listing or
\* deletion is ignored, and the marker is touched.  Behind the trap of a signal the
\* script goes on.
TrapEnds ==
  /\ campaign = "sweep" /\ operator = "idle"
  /\ campaign' = IF exiting THEN "over" ELSE "on"
  /\ \E left \in SUBSET cloud : cloud' = left
  /\ marker' = TRUE /\ exiting' = FALSE
  /\ UNCHANGED <<jobVars, cut, deadline, dog, forced, listed>>

\* The campaign's shell dies, and the trap with it; any of the suite's processes may
\* die with it, or live on.
CampaignDies ==
  /\ campaign \notin {"new", "over"}
  /\ campaign' = "over"
  /\ KillAny
  /\ UNCHANGED <<exiting, cut, dogVars>>

DogStep(A) == A /\ UNCHANGED <<jobVars, ownVars>>

CampaignNext ==
  \/ Starts
  \/ SuiteStep
  \/ TrapFires \/ TrapTearsDown \/ TrapEnds
  \/ CampaignDies
  \/ DogStep(W!DeadlinePasses) \/ DogStep(W!DogNext)

CampaignSpec == CampaignInit /\ [][CampaignNext]_campVars

\* The watchdog runs, its deadline comes, and a cluster it tries to delete again and
\* again is not RECONCILING every time.
CampaignFairSpec ==
  /\ CampaignSpec
  /\ WF_campVars(DogStep(W!DogNext))
  /\ SF_campVars(DogStep(W!DeadlinePasses))
  /\ \A m \in Modes : SF_campVars(DogStep(W!Deletes(m)))

-----------------------------------------------------------------------------
(***************************************************************************)
(* Properties.                                                             *)
(***************************************************************************)
\* No process was killed, and the campaign ran to its own end if it ended.
Undisturbed == kills = 0 /\ ~cut

\* "only stand down once truly clean" (teardown-watchdog.sh 44-45), the listing and
\* the exit being two steps: once the watchdog has stood down before its deadline,
\* no cluster exists and none comes any more.  This takes the campaign's part as
\* well: no marker before the last subshell has ended, none of an earlier campaign.
\* Subshells that outlived an interrupted parent can break it.
StandsDownForGood ==
  Undisturbed /\ ~forced /\ dog = "off" => cloud = {}

\* The same of every end of the watchdog: not true of a campaign that is still at work
\* at the deadline, nor of one that was interrupted.
StandsDownClean == dog = "off" => cloud = {}

\* A mode that is being brought up, recorded or measured does not lose its cluster
\* to the run's own teardown, nor to the campaign's, nor to a watchdog that saw the
\* marker: the parent waits (bench:90), the marker comes last.  `bench teardown`
\* beside the run may take it (bench:229), and the watchdog behind its deadline.
NothingTakenUnderWork ==
  [][Undisturbed /\ operator = "idle" /\ ~forced =>
       \A j \in Jobs :
         sub[j] # "off" /\ j[1] \in cloud => j[1] \in cloud']_campVars

\* Nobody is left who creates clusters.
Quiet == campaign = "over" /\ \A j \in Jobs : sub[j] = "off"

\* "guaranteeing clusters never bill indefinitely" (teardown-watchdog.sh 5-6): what
\* a campaign leaves behind, clusters lost from the state file, deletions given up
\* and subshells killed in the middle included, is deleted in the end, unless the
\* watchdog made its last listing before.
ClustersNeverBillForever ==
  Quiet /\ dog \notin {"clean", "off"} ~> cloud = {}
=============================================================================
