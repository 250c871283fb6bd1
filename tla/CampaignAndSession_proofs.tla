-------------------- MODULE CampaignAndSession_proofs ---------------------
(***************************************************************************)
(* Two components that have nothing in common but this module: they share  *)
(* no name and no variable, and no step of one argument is used in the     *)
(* other.                                                                  *)
(*                                                                         *)
(* The first part is about Campaign, the suite and its watchdog, for every *)
(* set of modes and images: types, what keeps a cluster under a mode that  *)
(* works, and that nothing is left once the watchdog has stood down.  The  *)
(* second is about ProducerSession, for every number of pods and writers:  *)
(* types, and that successes and records agree for the two workloads whose *)
(* writers have a session of their own.                                    *)
(***************************************************************************)
EXTENDS Campaign, ProducerSession, TLAPS

-----------------------------------------------------------------------------
(***************************************************************************)
(* The suite, alone and as a part of the campaign.                         *)
(***************************************************************************)
\* A subshell deploys an image its invocation has taken; as long as no process is
\* killed, subshells run only while their own parent waits for them.
WorkInv ==
  \A j \in Jobs : sub[j] # "off" =>
    /\ image[j[2]] \in Images
    /\ kills = 0 => main = "wait" /\ j[2] = runs

SuiteInv == TypeOK /\ WorkInv

LEMMA SuiteInit == ASSUME Init PROVE SuiteInv
<1> USE SuiteAssumption DEF Init
<1>1. WorkInv
  BY DEF WorkInv
<1>2. runs \in 0..MaxRuns /\ kills \in 0..MaxKills
  OBVIOUS
<1>3. file \in [form : {"none", "torn", "text"}, names : SUBSET Modes]
  BY DEF NoFile
<1> QED  BY <1>1, <1>2, <1>3 DEF SuiteInv, TypeOK

LEMMA JobFacts ==
  ASSUME NEW j \in Jobs
  PROVE  j[1] \in Modes /\ j[2] \in Runs /\ j = <<j[1], j[2]>>
BY DEF Jobs

\* A subshell's step is its own, and it was on.
LEMMA SubFrame ==
  ASSUME NEW j \in Jobs, SubNext(j)
  PROVE  /\ sub[j] # "off"
         /\ \E place \in {"load", "truncate", "write", "deploy", "walk", "off"} :
              sub' = [sub EXCEPT ![j] = place]
         /\ UNCHANGED <<parent, teardown, kills>>
  BY DEF SubNext, ClusterUp, RecordLoads, RecordFails, RecordTruncates, RecordWrites,
         DeployFails, Deploys, WorksThroughCells, Goto, histories

LEMMA SubStep ==
  ASSUME SuiteInv, NEW j \in Jobs, SubNext(j)
  PROVE  SuiteInv'
<1> USE JobFacts DEF SuiteInv, TypeOK, Recording
<1>1. /\ sub[j] # "off" /\ UNCHANGED <<parent, teardown, kills>>
      /\ sub' \in [Jobs -> {"off", "up", "deploy", "walk"} \cup Recording]
      /\ \A i \in Jobs : sub'[i] # "off" => sub[i] # "off"
  BY SubFrame
<1>2. WorkInv'
  BY <1>1 DEF WorkInv, parent
<1> USE DEF parent, teardown, histories, Goto
<1>3. CASE ClusterUp(j)
  BY <1>1, <1>2, <1>3 DEF ClusterUp
<1>4. CASE RecordLoads(j)
  BY <1>1, <1>2, <1>4 DEF RecordLoads
<1>5. CASE RecordFails(j)
  BY <1>1, <1>2, <1>5 DEF RecordFails
<1>6. CASE RecordTruncates(j)
  BY <1>1, <1>2, <1>6 DEF RecordTruncates, Torn
<1>7. CASE RecordWrites(j)
  <2>1. file' \in [form : {"none", "torn", "text"}, names : SUBSET Modes]
    <3>1. seen[j] \cup {j[1]} \in SUBSET Modes
      OBVIOUS
    <3> QED  BY <1>7, <3>1 DEF RecordWrites, Torn, Text
  <2> QED  BY <1>1, <1>2, <1>7, <2>1 DEF RecordWrites
<1>8. CASE DeployFails(j)
  BY <1>1, <1>2, <1>8 DEF DeployFails
<1>9. CASE Deploys(j)
  BY <1>1, <1>2, <1>9 DEF Deploys
<1>10. CASE WorksThroughCells(j)
  <2>1. image[j[2]] \in Images
    BY <1>1 DEF WorkInv
  <2>2. cells' \in [Modes -> [digest : Images, status : {"ok", "error"}] \cup {None}]
    BY <2>1, <1>10 DEF WorksThroughCells
  <2> QED  BY <1>1, <1>2, <1>10, <2>2 DEF WorksThroughCells
<1> QED
  BY <1>3, <1>4, <1>5, <1>6, <1>7, <1>8, <1>9, <1>10 DEF SubNext

\* The steps of the parent and of the two teardowns.
ParentNext ==
  \/ AllExited \/ Reports \/ LeaveUp \/ KeepCluster \/ AutoTeardown
  \/ OperatorTeardown \/ TeardownNext

\* They leave the subshells alone, begin no invocation and create no cluster; the
\* parent does not wait any more only when its own subshells are off.
LEMMA ParentFrame ==
  ASSUME ParentNext
  PROVE  /\ UNCHANGED <<sub, seen, image, runs, ours, cells, measured, kills>>
         /\ main = "wait" /\ main' # "wait" =>
              \A m \in Modes : sub[<<m, runs>>] = "off"
         /\ main = "idle" => main' = "idle"
         /\ cloud' \subseteq cloud
<1> USE DEF parent, teardown, histories
<1>1. CASE AllExited \/ Reports \/ LeaveUp \/ KeepCluster \/ AutoTeardown
  BY <1>1 DEF AllExited, Reports, LeaveUp, KeepCluster, AutoTeardown
<1>2. CASE OperatorTeardown
  BY <1>2 DEF OperatorTeardown
<1>3. ASSUME NEW t \in Tearers, NEW m \in Modes, DeleteCluster(t, m) \/ DeleteGivenUp(t, m)
      PROVE  UNCHANGED <<parent, sub, seen, histories, cells>> /\ cloud' \subseteq cloud
  BY <1>3 DEF DeleteCluster, DeleteGivenUp
<1>4. ASSUME NEW t \in Tearers, TeardownEnds(t)
      PROVE  /\ UNCHANGED <<sub, seen, image, runs, histories, cells, cloud>>
             /\ main' = main \/ (main = "auto" /\ main' = "idle")
  BY <1>4 DEF TeardownEnds, Tearing
<1>5. ASSUME TeardownNext
      PROVE  /\ UNCHANGED <<sub, seen, image, runs, histories, cells>>
             /\ cloud' \subseteq cloud
             /\ main' = main \/ (main = "auto" /\ main' = "idle")
  BY <1>3, <1>4, <1>5 DEF TeardownNext
<1> QED  BY <1>1, <1>2, <1>5 DEF ParentNext

LEMMA ParentStep ==
  ASSUME SuiteInv, ParentNext
  PROVE  SuiteInv'
<1> USE DEF SuiteInv, TypeOK
<1>1. UNCHANGED <<sub, seen, image, runs, ours, cells, measured, kills>>
  BY ParentFrame
<1>2. WorkInv'
  <2> SUFFICES ASSUME NEW j \in Jobs, sub[j] # "off", kills = 0 PROVE main' = "wait"
    BY <1>1 DEF WorkInv
  <2>1. main = "wait" /\ j = <<j[1], runs>> /\ j[1] \in Modes
    BY JobFacts DEF WorkInv
  <2> QED  BY <2>1, ParentFrame
<1> USE DEF parent, teardown, histories
<1>3. /\ main' \in {"idle", "wait", "report", "decide", "auto"}
      /\ operator' \in {"idle", "teardown"} /\ todo' \in [Tearers -> SUBSET Modes]
      /\ cloud' \in SUBSET Modes /\ report' \in BOOLEAN
      /\ file' \in [form : {"none", "torn", "text"}, names : SUBSET Modes]
  <2>1. CASE AllExited \/ Reports \/ LeaveUp \/ KeepCluster
    BY <2>1 DEF AllExited, Reports, LeaveUp, KeepCluster
  <2>2. CASE AutoTeardown
    BY <2>2 DEF AutoTeardown
  <2>3. CASE OperatorTeardown
    BY <2>3 DEF OperatorTeardown
  <2>4. ASSUME NEW t \in Tearers, NEW m \in Modes, DeleteCluster(t, m) \/ DeleteGivenUp(t, m)
        PROVE  /\ main' = main /\ operator' = operator /\ report' = report /\ file' = file
               /\ todo' \in [Tearers -> SUBSET Modes] /\ cloud' \in SUBSET Modes
    BY <2>4 DEF DeleteCluster, DeleteGivenUp
  <2>5. ASSUME NEW t \in Tearers, TeardownEnds(t)
        PROVE  /\ main' \in {main, "idle"} /\ operator' \in {operator, "idle"}
               /\ report' = report /\ file' = NoFile /\ todo' = todo /\ cloud' = cloud
    BY <2>5 DEF TeardownEnds
  <2> QED  BY <2>1, <2>2, <2>3, <2>4, <2>5 DEF ParentNext, TeardownNext, NoFile
<1> QED  BY <1>1, <1>2, <1>3

LEMMA InvokeStep ==
  ASSUME SuiteInv, NEW img \in Images, Invoke(img)
  PROVE  SuiteInv'
<1> USE SuiteAssumption DEF SuiteInv, TypeOK, Invoke, teardown, histories
<1>1. runs + 1 \in Runs /\ runs' \in 0..MaxRuns
  BY DEF Runs
<1>2. image' \in [Runs -> Images \cup {None}]
  BY <1>1
<1>3. sub' \in [Jobs -> {"off", "up", "deploy", "walk"} \cup Recording]
  BY DEF Recording
<1>4. WorkInv'
  <2> SUFFICES ASSUME NEW j \in Jobs, sub'[j] # "off"
               PROVE  image'[j[2]] \in Images /\ (kills' = 0 => main' = "wait" /\ j[2] = runs')
    BY DEF WorkInv
  <2>1. CASE j[2] = runs + 1
    BY <1>1, <2>1
  <2>2. CASE j[2] # runs + 1
    <3>1. sub[j] # "off"
      BY <2>2
    <3>2. image[j[2]] \in Images /\ kills # 0
      BY <3>1 DEF WorkInv
    <3> QED  BY <3>2, <2>2, JobFacts
  <2> QED  BY <2>1, <2>2
<1> QED  BY <1>1, <1>2, <1>3, <1>4

LEMMA KillStep ==
  ASSUME SuiteInv, KillAny
  PROVE  SuiteInv'
<1> USE SuiteAssumption DEF SuiteInv, TypeOK, KillAny
<1>1. /\ sub' \in [Jobs -> {"off", "up", "deploy", "walk"} \cup Recording]
      /\ seen' \in [Jobs -> SUBSET Modes]
      /\ \A j \in Jobs : sub'[j] # "off" => sub[j] # "off"
  BY DEF Recording
<1>2. todo' \in [Tearers -> SUBSET Modes]
  BY DEF Tearers
<1>3. kills' \in 0..MaxKills /\ kills' # 0
  OBVIOUS
<1>4. WorkInv'
  BY <1>1, <1>3 DEF WorkInv
<1> QED  BY <1>1, <1>2, <1>3, <1>4

LEMMA NextCases ==
  Next => \/ \E img \in Images : Invoke(img)
          \/ \E j \in Jobs : SubNext(j)
          \/ ParentNext
          \/ KillAny
  BY DEF Next, ParentNext, Killed

LEMMA SuiteStepKeeps == ASSUME SuiteInv, Next PROVE SuiteInv'
  BY NextCases, InvokeStep, SubStep, ParentStep, KillStep

LEMMA SuiteStutters == ASSUME SuiteInv, UNCHANGED vars PROVE SuiteInv'
  BY DEF vars, SuiteInv, TypeOK, WorkInv

\* The variables of the suite keep their types for every number of modes, images,
\* invocations and faults.
THEOREM SuiteTypes == Spec => []TypeOK
<1>1. SuiteInv /\ [Next]_vars => SuiteInv'
  BY SuiteStepKeeps, SuiteStutters
<1>2. SuiteInv => TypeOK
  BY DEF SuiteInv
<1> QED  BY <1>1, <1>2, SuiteInit, PTL DEF Spec

-----------------------------------------------------------------------------
(***************************************************************************)
(* The state file of a suite with one mode, and nobody else's clusters.    *)
(***************************************************************************)
\* Nothing goes wrong that the scripts only report: deletions succeed in the end,
\* no process is killed, and run and teardown are not started beside one another.
Smooth == ~ApiFaults /\ MaxKills = 0 /\ ~Beside

\* What the state file says of mode m: it is half-written exactly between the two
\* halves of a writing, it names m's cluster whenever none is being recorded, and a
\* teardown that has begun has the cluster before it.
Kept(m) ==
  /\ \A j \in Jobs : sub[j] = "write" => file = Torn
  /\ file = Torn => \E j \in Jobs : sub[j] = "write"
  /\ (\A j \in Jobs : sub[j] \notin Recording) /\ m \in cloud \cap ours =>
       m \in file.names
  /\ \A t \in Tearers : Tearing(t) /\ m \in cloud \cap ours => m \in todo[t]
  /\ operator = "teardown" => main = "idle"

RecordInv == SuiteInv /\ kills = 0 /\ \A m \in Modes : Kept(m)

LEMMA RecordInit == ASSUME Init PROVE RecordInv
  BY SuiteInit DEF Init, RecordInv, Kept, NoFile, Torn, Tearing

\* The one subshell records its cluster without another one's interference.
LEMMA RecordSub ==
  ASSUME Smooth, RecordInv, NEW m, Modes = {m}, NEW j \in Jobs, SubNext(j)
  PROVE  Kept(m)'
<1>1. /\ sub[j] # "off" /\ j[1] = m /\ m \in Modes
      /\ \A i \in Jobs : sub[i] # "off" => i = j
  BY SubFrame, JobFacts DEF RecordInv, SuiteInv, WorkInv
<1>2. main = "wait" /\ operator = "idle" /\ UNCHANGED <<main, operator, todo>>
  BY <1>1, SubFrame DEF RecordInv, SuiteInv, WorkInv, TypeOK, Kept, parent, teardown
<1>3. sub \in [Jobs -> {"off", "up", "deploy", "walk"} \cup Recording]
  BY DEF RecordInv, SuiteInv, TypeOK
<1>4. /\ ~Tearing("auto")' /\ ~Tearing("operator")'
      /\ \A t \in Tearers : t = "auto" \/ t = "operator"
  BY <1>2 DEF Tearing, Tearers
<1>5. file = Torn <=> sub[j] = "write"
  BY <1>1 DEF RecordInv, Kept
<1>6. /\ \A i \in Jobs : sub'[i] = "write" => file' = Torn
      /\ file' = Torn => \E i \in Jobs : sub'[i] = "write"
      /\ (\A i \in Jobs : sub'[i] \notin Recording) /\ m \in cloud' \cap ours' =>
           m \in file'.names
  <2> USE DEF Goto, Recording, histories
  <2>1. CASE ClusterUp(j)
    BY <1>1, <1>3, <1>5, <2>1 DEF ClusterUp
  <2>2. CASE RecordLoads(j)
    BY <1>1, <1>3, <1>5, <2>2 DEF RecordLoads
  <2>3. CASE RecordFails(j)
    BY <1>5, <2>3 DEF RecordFails
  <2>4. CASE RecordTruncates(j)
    BY <1>1, <1>3, <2>4 DEF RecordTruncates
  <2>5. CASE RecordWrites(j)
    BY <1>1, <1>3, <1>5, <2>5 DEF RecordWrites, Text, Torn, NoFile, Smooth, RecordInv
  <2>6. CASE DeployFails(j) \/ Deploys(j) \/ WorksThroughCells(j)
    <3>1. /\ sub[j] \in {"deploy", "walk"} /\ UNCHANGED <<file, cloud, ours>>
          /\ sub' \in {[sub EXCEPT ![j] = "off"], [sub EXCEPT ![j] = "walk"]}
      BY <2>6 DEF DeployFails, Deploys, WorksThroughCells
    <3>2. \A i \in Jobs : sub[i] \notin Recording
      BY <1>1, <3>1
    <3> QED  BY <1>1, <1>3, <1>5, <3>1, <3>2 DEF RecordInv, Kept
  <2> QED  BY <2>1, <2>2, <2>3, <2>4, <2>5, <2>6 DEF SubNext
<1> QED  BY <1>2, <1>4, <1>6 DEF Kept, Tearing

\* A cluster is forgotten, in todo or in the file, only when it is gone.
LEMMA RecordParent ==
  ASSUME Smooth, RecordInv, NEW m, Modes = {m}, ParentNext
  PROVE  Kept(m)'
<1>0. /\ SuiteInv /\ TypeOK /\ Kept(m) /\ m \in Modes
      /\ UNCHANGED <<sub, ours>>
  BY ParentFrame DEF RecordInv, SuiteInv
<1>1. main # "wait" => \A j \in Jobs : sub[j] = "off"
  BY DEF RecordInv, SuiteInv, WorkInv, TypeOK
<1> USE <1>0 DEF Kept, Tearing, Tearers, histories, parent, teardown
<1>2. CASE AllExited \/ Reports \/ LeaveUp \/ KeepCluster
  BY <1>2 DEF AllExited, Reports, LeaveUp, KeepCluster
<1>3. CASE AutoTeardown
  BY <1>1, <1>3 DEF AutoTeardown, TypeOK, Recording
<1>4. CASE OperatorTeardown
  BY <1>1, <1>4 DEF OperatorTeardown, TypeOK, Recording, Smooth
<1>5. ASSUME NEW t \in Tearers, NEW n \in Modes, DeleteCluster(t, n) \/ DeleteGivenUp(t, n)
      PROVE  Kept(m)'
  <2>1. n = m /\ cloud' = cloud \ {m} /\ UNCHANGED <<main, operator, file>>
    BY <1>5 DEF DeleteCluster, DeleteGivenUp, Smooth
  <2> QED  BY <2>1
<1>6. ASSUME NEW t \in Tearers, TeardownEnds(t) PROVE Kept(m)'
  <2>1. /\ Tearing(t) /\ todo[t] = {} /\ file' = NoFile /\ UNCHANGED <<cloud, todo>>
        /\ IF t = "auto" THEN main' = "idle" /\ UNCHANGED operator
                         ELSE operator' = "idle" /\ UNCHANGED main
    BY <1>6 DEF TeardownEnds
  <2>2. m \notin cloud \cap ours /\ main \in {"auto", "idle"}
    BY <2>1
  <2>3. \A j \in Jobs : sub[j] = "off"
    BY <1>1, <2>2
  <2>4. operator' = "teardown" => main' = "idle"
    BY <2>1
  <2> QED  BY <2>1, <2>2, <2>3, <2>4 DEF NoFile, Torn
<1> QED  BY <1>2, <1>3, <1>4, <1>5, <1>6 DEF ParentNext, TeardownNext

LEMMA RecordInvoke ==
  ASSUME Smooth, RecordInv, NEW m, Modes = {m}, NEW img \in Images, Invoke(img)
  PROVE  Kept(m)'
<1>1. Kept(m) /\ TypeOK /\ \A j \in Jobs : sub[j] = "off"
  BY DEF RecordInv, SuiteInv, WorkInv, Invoke
<1> QED
  BY <1>1 DEF Invoke, Kept, Tearing, Tearers, teardown, histories, Smooth, Recording, TypeOK

\* _record_cluster is the "idempotent append" it is meant to be (bench:218) for a
\* suite with one mode, as long as no deletion is given up, no process is killed and
\* run and teardown take turns: however often it is run and torn down, the state
\* file names the cluster.  With a second mode it does not (run suite_lost_record).
THEOREM OneModeAccounted ==
  ASSUME Smooth, NEW m, Modes = {m}
  PROVE  Spec => []ClusterAccounted
<1>1. RecordInv /\ [Next]_vars => RecordInv'
  <2> SUFFICES ASSUME RecordInv, [Next]_vars PROVE RecordInv'
    OBVIOUS
  <2>0. m \in Modes
    OBVIOUS
  <2>1. SuiteInv'
    BY SuiteStepKeeps, SuiteStutters DEF RecordInv
  <2>2. ~KillAny
    BY DEF KillAny, Smooth, RecordInv
  <2>3. ASSUME UNCHANGED vars PROVE Kept(m)' /\ kills' = kills
    BY <2>0, <2>3 DEF vars, RecordInv, Kept, Tearing
  <2>4. Kept(m)'
    BY <2>2, <2>3, NextCases, RecordInvoke, RecordSub, RecordParent
  <2>5. kills' = 0
    <3>1. ASSUME NEW img \in Images, Invoke(img) PROVE kills' = kills
      BY <3>1 DEF Invoke, histories
    <3> QED  BY <3>1, <2>2, <2>3, NextCases, SubFrame, ParentFrame DEF RecordInv
  <2> QED  BY <2>1, <2>4, <2>5 DEF RecordInv
<1>2. RecordInv => ClusterAccounted
  BY DEF RecordInv, Kept, ClusterAccounted
<1> QED  BY <1>1, <1>2, RecordInit, PTL DEF Spec

\* "ONLY the clusters this suite created" (bench:8): with any number of modes, when
\* no name is in use beforehand, nothing that the suite did not create is ever
\* deleted, kills and deletions given up included.  A cluster it adopts by its
\* name is deleted with the others.
THEOREM OwnClustersOnly ==
  ASSUME Foreign = {}
  PROVE  Spec => OnlyOwnClustersDeleted
<1>1. Init => cloud \subseteq ours
  BY DEF Init
<1>2. cloud \subseteq ours /\ [Next]_vars => (cloud \subseteq ours)'
  <2> SUFFICES ASSUME cloud \subseteq ours, [Next]_vars PROVE cloud' \subseteq ours'
    OBVIOUS
  <2>1. ASSUME NEW j \in Jobs, SubNext(j) PROVE cloud' \subseteq ours'
    BY <2>1 DEF SubNext, ClusterUp, RecordLoads, RecordFails, RecordTruncates,
                RecordWrites, DeployFails, Deploys, WorksThroughCells, histories
  <2>2. CASE ParentNext
    BY <2>2, ParentFrame
  <2>3. CASE KillAny \/ UNCHANGED vars
    BY <2>3 DEF KillAny, vars
  <2>4. ASSUME NEW img \in Images, Invoke(img) PROVE cloud' \subseteq ours'
    BY <2>4 DEF Invoke, histories
  <2> QED  BY <2>1, <2>2, <2>3, <2>4, NextCases
<1>3. cloud \subseteq ours => cloud \ ours \subseteq cloud'
  OBVIOUS
<1> QED  BY <1>1, <1>2, <1>3, PTL DEF Spec, OnlyOwnClustersDeleted

-----------------------------------------------------------------------------
(***************************************************************************)
(* The campaign: the suite and the watchdog over the same clusters.        *)
(***************************************************************************)
\* The parent works, undisturbed, only while the campaign is at its suites.
IdleInv == Undisturbed /\ campaign # "on" => main = "idle"

\* The marker is of this campaign and comes at its end, a signal's trap apart.
MarkInv ==
  /\ campaign = "new" <=> dog = "unarmed"
  /\ Undisturbed /\ campaign \in {"trap", "sweep"} => exiting
  /\ Undisturbed /\ marker => campaign \in {"new", "over"}

\* The watchdog acts before the deadline only on the marker.
DogInv == dog \notin {"unarmed", "poll"} /\ ~forced => marker

CampInv == SuiteInv /\ CampaignTypeOK /\ IdleInv /\ MarkInv /\ DogInv

\* What the watchdog's exit rests on.
CleanInv == Undisturbed /\ ~forced /\ dog \in {"clean", "off"} => cloud = {}

\* Undisturbed, nobody works unless the campaign is at its suites.
LEMMA NobodyWorks ==
  ASSUME CampInv, Undisturbed, campaign # "on"
  PROVE  main = "idle" /\ \A j \in Jobs : sub[j] = "off"
BY DEF CampInv, IdleInv, SuiteInv, WorkInv, Undisturbed

\* The watchdog's marker means that nobody works.
LEMMA MarkerAtTheEnd ==
  ASSUME CampInv, Undisturbed, ~forced, dog \notin {"unarmed", "poll"}
  PROVE  campaign = "over"
BY DEF CampInv, MarkInv, DogInv

\* Disturbances are never undone, and `bench run` alone wakes the parent.
LEMMA NextFrame ==
  ASSUME SuiteInv, Next
  PROVE  /\ kills' = 0 => kills = 0 /\ ~KillAny
         /\ main = "idle" /\ runs' = runs => main' = "idle"
<1>1. ASSUME NEW img \in Images, Invoke(img) PROVE kills' = kills /\ runs' # runs
  BY <1>1 DEF Invoke, histories, SuiteInv, TypeOK
<1>2. ASSUME NEW j \in Jobs, SubNext(j) PROVE kills' = kills /\ main' = main
  BY <1>2, SubFrame DEF parent
<1>3. KillAny => kills' # 0 /\ main' \in {main, "idle"}
  BY DEF KillAny, SuiteInv, TypeOK
<1>4. ASSUME NEW img \in Images, Invoke(img) PROVE kills' # kills + 1
  BY <1>1, <1>4 DEF SuiteInv, TypeOK
<1> QED  BY <1>1, <1>2, <1>3, NextCases, ParentFrame

LEMMA CampInit == CampaignInit => CampInv /\ CleanInv
<1> SUFFICES ASSUME CampaignInit PROVE CampInv /\ CleanInv
  OBVIOUS
<1>1. SuiteInv
  BY SuiteInit DEF CampaignInit
<1>2. CampaignTypeOK
  BY <1>1 DEF CampaignInit, CampaignTypeOK, SuiteInv, W!Init, W!TypeOK, TypeOK
<1>3. IdleInv /\ MarkInv /\ DogInv /\ CleanInv
  BY DEF CampaignInit, W!Init, Init, IdleInv, MarkInv, DogInv, CleanInv
<1> QED  BY <1>1, <1>2, <1>3 DEF CampInv

LEMMA SuitePart ==
  ASSUME CampInv, SuiteStep
  PROVE  CampInv' /\ (CleanInv => CleanInv')
<1>0. /\ TypeOK /\ W!TypeOK /\ WorkInv /\ SuiteInv /\ CampaignTypeOK
      /\ IdleInv /\ MarkInv /\ DogInv
  BY DEF CampInv, CampaignTypeOK, SuiteInv
<1>1. /\ SuiteInv' /\ Next /\ UNCHANGED <<ownVars, dogVars>>
      /\ runs' # runs => campaign = "on"
  BY <1>0, SuiteStepKeeps DEF SuiteStep
<1>2. CampaignTypeOK'
  <2>1. TypeOK' /\ cloud' \in SUBSET Modes
    BY <1>1 DEF SuiteInv, TypeOK
  <2>2. W!TypeOK'
    BY <1>0, <1>1, <2>1 DEF W!TypeOK, dogVars
  <2> QED  BY <1>0, <1>1, <2>1, <2>2 DEF CampaignTypeOK, ownVars
<1>3. Undisturbed' => Undisturbed /\ ~KillAny
  BY <1>0, <1>1, NextFrame DEF Undisturbed, ownVars
<1>4. IdleInv'
  BY <1>0, <1>1, <1>3, NextFrame DEF IdleInv, ownVars
<1>5. MarkInv' /\ DogInv'
  BY <1>0, <1>1, <1>3 DEF MarkInv, DogInv, ownVars, dogVars
<1>6. ASSUME CleanInv, Undisturbed', ~forced', dog' \in {"clean", "off"} PROVE cloud' = {}
  <2>1. Undisturbed /\ ~forced /\ dog \in {"clean", "off"} /\ cloud = {}
    BY <1>1, <1>3, <1>6 DEF CleanInv, dogVars
  <2>2. /\ campaign = "over" /\ main = "idle" /\ \A j \in Jobs : sub[j] = "off"
    BY <2>1, MarkerAtTheEnd, NobodyWorks
  <2>3. \A j \in Jobs : ~SubNext(j)
    BY <2>2, SubFrame
  <2>4. ASSUME NEW img \in Images, Invoke(img) PROVE FALSE
    BY <1>0, <1>1, <2>2, <2>4 DEF Invoke, TypeOK
  <2>5. ParentNext
    BY <1>1, <1>3, <1>6, <2>3, <2>4, NextCases
  <2> QED  BY <2>1, <2>5, ParentFrame
<1> QED  BY <1>1, <1>2, <1>4, <1>5, <1>6 DEF CampInv, CleanInv

\* The campaign's own steps: start, trap, death.
LEMMA OwnPart ==
  ASSUME CampInv, Starts \/ TrapFires \/ TrapTearsDown \/ TrapEnds \/ CampaignDies
  PROVE  CampInv' /\ (CleanInv => CleanInv')
<1>0. /\ TypeOK /\ W!TypeOK /\ WorkInv /\ SuiteInv /\ CampaignTypeOK
      /\ IdleInv /\ MarkInv /\ DogInv
  BY DEF CampInv, CampaignTypeOK, SuiteInv
<1>1. CASE Starts
  <2>1. cloud' \in SUBSET Modes
    BY <1>0, <1>1 DEF Starts, TypeOK
  <2>2. TypeOK' /\ WorkInv'
    BY <1>0, <1>1, <2>1 DEF Starts, TypeOK, WorkInv, jobVars
  <2>3. W!TypeOK' /\ CampaignTypeOK'
    BY <1>0, <1>1, <2>1, <2>2 DEF Starts, W!Arms, W!TypeOK, CampaignTypeOK
  <2>4. IdleInv' /\ MarkInv' /\ DogInv' /\ CleanInv'
    BY <1>0, <1>1
    DEF Starts, W!Arms, IdleInv, MarkInv, DogInv, CleanInv, Undisturbed, jobVars
  <2> QED  BY <2>2, <2>3, <2>4 DEF CampInv, SuiteInv
<1>2. CASE TrapFires
  <2>1. UNCHANGED <<vars, dogVars>>
    BY <1>2 DEF TrapFires
  <2>2. SuiteInv'
    BY <1>0, <2>1, SuiteStutters
  <2>3. CampaignTypeOK'
    BY <1>0, <1>2, <2>1, <2>2
    DEF TrapFires, CampaignTypeOK, W!TypeOK, SuiteInv, vars, dogVars
  <2>4. /\ UNCHANGED <<main, sub, cloud, kills, marker, dog, forced>>
        /\ campaign = "on" /\ campaign' = "trap" /\ main = "idle"
    BY <1>2, <2>1 DEF TrapFires, vars, parent, histories, dogVars
  <2>5. ~cut' => ~cut /\ exiting'
    BY <1>2 DEF TrapFires
  <2>6. IdleInv'
    BY <2>4 DEF IdleInv
  <2>7. MarkInv' /\ DogInv' /\ (CleanInv => CleanInv')
    BY <1>0, <2>4, <2>5 DEF IdleInv, MarkInv, DogInv, CleanInv, Undisturbed
  <2> QED  BY <2>2, <2>3, <2>6, <2>7 DEF CampInv
<1>3. CASE TrapTearsDown
  <2>1. /\ UNCHANGED <<main, sub, cloud, kills, exiting, cut, dogVars>>
        /\ campaign = "trap" /\ campaign' = "sweep"
    BY <1>3 DEF TrapTearsDown, OperatorTeardown, vars, parent, histories
  <2>2. SuiteInv'
    BY <1>0, <1>3, ParentStep, SuiteStutters DEF TrapTearsDown, ParentNext
  <2>3. CampaignTypeOK'
    BY <1>0, <2>1, <2>2 DEF CampaignTypeOK, W!TypeOK, SuiteInv, dogVars
  <2>4. IdleInv' /\ MarkInv' /\ DogInv' /\ (CleanInv => CleanInv')
    BY <1>0, <2>1
    DEF IdleInv, MarkInv, DogInv, CleanInv, Undisturbed, dogVars
  <2> QED  BY <2>2, <2>3, <2>4 DEF CampInv
<1>4. CASE TrapEnds
  <2>1. cloud' \in SUBSET Modes /\ cloud' \subseteq cloud
    BY <1>0, <1>4 DEF TrapEnds, TypeOK
  <2>2. TypeOK' /\ WorkInv'
    BY <1>0, <1>4, <2>1 DEF TrapEnds, TypeOK, WorkInv, jobVars
  <2>3. W!TypeOK' /\ CampaignTypeOK'
    BY <1>0, <1>4, <2>1, <2>2 DEF TrapEnds, W!TypeOK, CampaignTypeOK
  <2>4. IdleInv' /\ MarkInv' /\ DogInv' /\ (CleanInv => CleanInv')
    BY <1>0, <1>4, <2>1
    DEF TrapEnds, IdleInv, MarkInv, DogInv, CleanInv, Undisturbed, jobVars
  <2> QED  BY <2>2, <2>3, <2>4 DEF CampInv, SuiteInv
<1>5. CASE CampaignDies
  <2>1. /\ SuiteInv' /\ kills' # 0 /\ UNCHANGED <<cloud, exiting, cut, dogVars>>
        /\ campaign # "new" /\ campaign' = "over"
    BY <1>0, <1>5, KillStep DEF CampaignDies, KillAny, TypeOK
  <2>2. CampaignTypeOK'
    BY <1>0, <2>1 DEF CampaignTypeOK, W!TypeOK, SuiteInv, dogVars
  <2>3. IdleInv' /\ MarkInv' /\ DogInv' /\ CleanInv'
    BY <1>0, <2>1 DEF IdleInv, MarkInv, DogInv, CleanInv, Undisturbed, dogVars
  <2> QED  BY <2>1, <2>2, <2>3 DEF CampInv
<1> QED  BY <1>1, <1>2, <1>3, <1>4, <1>5

\* What the watchdog does to the clusters leaves the suite's own state alone.
LEMMA DogPart ==
  ASSUME CampInv, DogStep(W!DeadlinePasses) \/ DogStep(W!DogNext)
  PROVE  CampInv'
<1>1. /\ TypeOK /\ W!TypeOK /\ WorkInv /\ CampaignTypeOK /\ IdleInv /\ MarkInv /\ DogInv
      /\ UNCHANGED <<jobVars, ownVars>> /\ (W!DeadlinePasses \/ W!DogNext)
  BY DEF CampInv, CampaignTypeOK, SuiteInv, DogStep
<1>2. /\ W!TypeOK' /\ marker' = marker /\ (forced => forced')
      /\ dog # "unarmed" /\ dog' # "unarmed"
      /\ dog' # "poll" /\ ~forced' => dog # "poll" \/ marker
  <2> USE DEF W!TypeOK
  <2>1. CASE W!DeadlinePasses
    BY <1>1, <2>1 DEF W!DeadlinePasses
  <2>2. CASE W!SeesMarker \/ W!SeesDeadline \/ W!SweepDone \/ W!StandsDown
    BY <1>1, <2>2 DEF W!SeesMarker, W!SeesDeadline, W!SweepDone, W!StandsDown
  <2>3. CASE W!ChecksLeftover
    BY <1>1, <2>3 DEF W!ChecksLeftover
  <2>4. CASE W!ChecksSweep
    BY <1>1, <2>4 DEF W!ChecksSweep
  <2>5. CASE W!SweepLists
    BY <1>1, <2>5 DEF W!SweepLists, W!Matching
  <2>6. ASSUME NEW m \in Modes, W!Deletes(m) \/ W!DeleteRefused(m)
        PROVE  /\ W!TypeOK' /\ UNCHANGED <<marker, forced, dog>> /\ dog = "sweep"
    BY <1>1, <2>6 DEF W!Deletes, W!DeleteRefused
  <2> QED  BY <1>1, <2>1, <2>2, <2>3, <2>4, <2>5, <2>6 DEF W!DogNext
<1>3. cloud' \in SUBSET Modes
  BY <1>2 DEF W!TypeOK
<1>4. TypeOK' /\ WorkInv' /\ CampaignTypeOK'
  BY <1>1, <1>2, <1>3 DEF TypeOK, WorkInv, jobVars, ownVars, CampaignTypeOK
<1>5. IdleInv' /\ MarkInv' /\ DogInv'
  BY <1>1, <1>2 DEF IdleInv, MarkInv, DogInv, Undisturbed, jobVars, ownVars
<1> QED  BY <1>4, <1>5 DEF CampInv, SuiteInv

\* The watchdog finds everything clean by a listing that works.
LEMMA DogClean ==
  ASSUME ~ListFaults, CampInv, CleanInv, DogStep(W!DeadlinePasses) \/ DogStep(W!DogNext)
  PROVE  CleanInv'
<1>1. UNCHANGED <<jobVars, ownVars>> /\ (W!DeadlinePasses \/ W!DogNext)
  BY DEF DogStep
<1> USE <1>1 DEF CleanInv, Undisturbed, jobVars, ownVars
<1>2. CASE W!DeadlinePasses
  BY <1>2 DEF W!DeadlinePasses
<1>3. CASE W!SeesMarker \/ W!SeesDeadline \/ W!SweepDone \/ W!StandsDown
  BY <1>3 DEF W!SeesMarker, W!SeesDeadline, W!SweepDone, W!StandsDown
<1>4. CASE W!ChecksLeftover
  BY <1>4 DEF W!ChecksLeftover, W!Matching
<1>5. CASE W!ChecksSweep
  BY <1>5 DEF W!ChecksSweep, W!Matching
<1>6. CASE W!SweepLists
  BY <1>6 DEF W!SweepLists
<1>7. ASSUME NEW m \in Modes, W!Deletes(m) \/ W!DeleteRefused(m) PROVE CleanInv'
  BY <1>7 DEF W!Deletes, W!DeleteRefused
<1> QED  BY <1>2, <1>3, <1>4, <1>5, <1>6, <1>7 DEF W!DogNext

LEMMA CampStutters ==
  ASSUME CampInv, UNCHANGED campVars
  PROVE  CampInv' /\ (CleanInv => CleanInv')
<1>1. UNCHANGED vars /\ UNCHANGED <<ownVars, dogVars, cloud, main, kills>>
  BY DEF campVars, vars
<1>2. SuiteInv'
  BY <1>1, SuiteStutters DEF CampInv
<1>3. CampaignTypeOK'
  BY <1>1, <1>2 DEF CampInv, CampaignTypeOK, SuiteInv, W!TypeOK, ownVars, dogVars
<1> QED
  BY <1>1, <1>2, <1>3
  DEF CampInv, IdleInv, MarkInv, DogInv, CleanInv, Undisturbed, ownVars, dogVars

LEMMA CampStep == CampInv /\ [CampaignNext]_campVars => CampInv'
  BY SuitePart, OwnPart, DogPart, CampStutters DEF CampaignNext

THEOREM CampaignInvariant == CampaignSpec => []CampInv
  BY CampInit, CampStep, PTL DEF CampaignSpec

\* Suite, watchdog and campaign keep their types, whoever deletes which cluster and
\* whenever the campaign ends, is interrupted or dies; a cell always names a deployed
\* image.
THEOREM CampaignTypes == CampaignSpec => []CampaignTypeOK
<1>1. CampInv => CampaignTypeOK
  BY DEF CampInv
<1> QED  BY <1>1, CampaignInvariant, PTL

\* "only stand down once truly clean" (teardown-watchdog.sh 44-45): for any number of
\* modes and invocations, as long as the listing works and nobody interrupts the
\* campaign, nothing exists and nothing comes any more once the watchdog has stood
\* down before its deadline, though it lists and leaves in two steps: its marker is of
\* this campaign, and comes when every subshell has ended.
THEOREM StoodDownForGood ==
  ASSUME ~ListFaults
  PROVE  CampaignSpec => []StandsDownForGood
<1>1. CampInv /\ CleanInv /\ [CampaignNext]_campVars => CleanInv'
  BY SuitePart, OwnPart, DogClean, CampStutters DEF CampaignNext
<1>2. CampInv /\ CleanInv => StandsDownForGood
  BY DEF CleanInv, StandsDownForGood
<1> QED  BY <1>1, <1>2, CampInit, CampaignInvariant, PTL DEF CampaignSpec

\* The parent's wait (bench:90) and the order of the trap are enough, for any number
\* of modes: no working mode loses its cluster to the run, the campaign or a watchdog
\* before its deadline, unless somebody runs `bench teardown` or kills a process.
THEOREM NothingTaken == CampaignSpec => NothingTakenUnderWork
<1>1. ASSUME CampInv, [CampaignNext]_campVars, Undisturbed, operator = "idle", ~forced,
             NEW j \in Jobs, sub[j] # "off", j[1] \in cloud
      PROVE  j[1] \in cloud'
  <2>0. /\ campaign = "on" /\ main = "wait" /\ dog \in {"unarmed", "poll"}
        /\ SuiteInv /\ MarkInv
    <3>1. campaign = "on"
      BY <1>1, NobodyWorks
    <3>2. dog \in {"unarmed", "poll"}
      BY <1>1, <3>1, MarkerAtTheEnd
    <3> QED  BY <1>1, <3>1, <3>2 DEF CampInv, SuiteInv, WorkInv, Undisturbed
  <2>1. CASE SuiteStep
    <3>1. ASSUME NEW i \in Jobs, SubNext(i) PROVE cloud \subseteq cloud'
      BY <3>1 DEF SubNext, ClusterUp, RecordLoads, RecordFails, RecordTruncates,
                  RecordWrites, DeployFails, Deploys, WorksThroughCells
    <3>2. CASE ParentNext
      <4>1. \A t \in Tearers : ~Tearing(t)
        BY <1>1, <2>0 DEF Tearing
      <4> QED
        BY <1>1, <3>2, <4>1
        DEF ParentNext, TeardownNext, AllExited, Reports, LeaveUp, KeepCluster,
            AutoTeardown, OperatorTeardown, DeleteCluster, DeleteGivenUp, TeardownEnds
    <3>3. CASE KillAny
      BY <1>1, <3>3 DEF KillAny
    <3>4. ASSUME NEW img \in Images, Invoke(img) PROVE cloud' = cloud
      BY <3>4 DEF Invoke
    <3> QED  BY <1>1, <2>1, <3>1, <3>2, <3>3, <3>4, NextCases DEF SuiteStep
  <2>2. CASE Starts \/ TrapTearsDown \/ TrapEnds
    BY <2>0, <2>2 DEF Starts, TrapTearsDown, TrapEnds
  <2>3. CASE TrapFires \/ CampaignDies \/ UNCHANGED campVars
    BY <1>1, <2>3 DEF TrapFires, CampaignDies, KillAny, campVars, vars
  <2>4. CASE DogStep(W!DeadlinePasses) \/ DogStep(W!DogNext)
    <3>1. cloud' = cloud
      BY <2>0, <2>4 DEF DogStep, W!DeadlinePasses, W!DogNext, W!SeesMarker,
           W!ChecksLeftover, W!SeesDeadline, W!SweepLists, W!SweepDone, W!ChecksSweep,
           W!StandsDown, W!Deletes, W!DeleteRefused
    <3> QED  BY <1>1, <3>1
  <2> QED  BY <1>1, <2>1, <2>2, <2>3, <2>4 DEF CampaignNext
<1>2. CampInv /\ [CampaignNext]_campVars =>
        [Undisturbed /\ operator = "idle" /\ ~forced =>
           \A j \in Jobs :
             sub[j] # "off" /\ j[1] \in cloud => j[1] \in cloud']_campVars
  BY <1>1
<1> QED  BY <1>2, CampaignInvariant, PTL DEF CampaignSpec, NothingTakenUnderWork

-----------------------------------------------------------------------------
(***************************************************************************)
(* The sessions.                                                           *)
(***************************************************************************)
\* The workloads that put the pod into the name of the stream or the producer.
Named == Workload \in {"multi-stream", "append"}

\* Two writers of such a workload never meet in one session.
LEMMA SessionsApart ==
  ASSUME Named, NEW v \in Writers, NEW w \in Writers, Session(v) = Session(w)
  PROVE  v = w
<1>1. CASE Workload = "multi-stream"
  <2>1. <<v, v[2]>> = <<w, w[2]>>
    BY <1>1 DEF Session
  <2>2. v = <<v, v[2]>>[1] /\ w = <<w, w[2]>>[1]
    BY Zenon
  <2> QED  BY <2>1, <2>2, Zenon
<1>2. CASE Workload = "append"
  <2>1. <<"stream", v>> = <<"stream", w>>
    BY <1>2 DEF Session
  <2>2. v = <<"stream", v>>[2] /\ w = <<"stream", w>>[2]
    BY Zenon
  <2> QED  BY <2>1, <2>2, Zenon
<1> QED  BY <1>1, <1>2 DEF Named

\* Every writer has a pod and a session.
LEMMA WriterFacts ==
  ASSUME NEW w \in Writers
  PROVE  w[1] \in Pods /\ Session(w) \in Sessions
BY DEF Writers, Sessions

\* All variables keep their types.
THEOREM TypeCorrect == SessionSpec => []SessionTypeOK
<1>1. SessionInit => SessionTypeOK
  BY DEF SessionInit, SessionTypeOK, FirstPhase
<1>2. ASSUME SessionTypeOK, [SessionNext]_sessionVars PROVE SessionTypeOK'
  <2> USE <1>2 DEF SessionTypeOK
  <2>1. ASSUME NEW p \in Pods, TimePasses(p) PROVE SessionTypeOK'
    <3>1. After[phase[p]] \in {"warmup", "settle", "measure", "over"}
      BY <2>1 DEF TimePasses, After
    <3> QED  BY <2>1, <3>1 DEF TimePasses, writer, counters, server, history
  <2>2. ASSUME NEW w \in Writers, Send(w) PROVE SessionTypeOK'
    BY <2>2, WriterFacts DEF Send, Bump, counters, server
  <2>3. ASSUME NEW w \in Writers, Reacts(w) PROVE SessionTypeOK'
    <3> USE WriterFacts DEF Counted, Bump, Rest, server, history, counters
    <3>1. CASE OnSuccess(w)
      BY <3>1 DEF OnSuccess
    <3>2. CASE OnBusy(w)
      BY <3>2 DEF OnBusy
    <3>3. CASE OnFailure(w)
      BY <3>3 DEF OnFailure
    <3>4. CASE OnTimeout(w)
      <4>1. limbo' \in SUBSET (Sessions \X Nat)
        BY <3>4 DEF OnTimeout
      <4> QED  BY <3>4, <4>1 DEF OnTimeout
    <3> QED  BY <2>3, <3>1, <3>2, <3>3, <3>4 DEF Reacts
  <2>4. ASSUME NEW w \in Writers, ServerNext(w) PROVE SessionTypeOK'
    <3> USE WriterFacts DEF Answer, Bump, server, history, counters
    <3>1. CASE ServerAppends(w)
      BY <3>1 DEF ServerAppends
    <3>2. CASE ServerRecognises(w)
      BY <3>2 DEF ServerRecognises
    <3>3. CASE ServerRefuses(w)
      BY <3>3 DEF ServerRefuses
    <3> QED  BY <2>4, <3>1, <3>2, <3>3 DEF ServerNext
  <2>5. ASSUME NEW req \in limbo, LateArrival(req) PROVE SessionTypeOK'
    BY <2>5 DEF LateArrival, Bump, writer, counters, history
  <2>6. CASE UNCHANGED sessionVars
    BY <2>6 DEF sessionVars, writer, counters, server, history
  <2> QED  BY <2>1, <2>2, <2>3, <2>4, <2>5, <2>6 DEF SessionNext
<1> QED  BY <1>1, <1>2, PTL DEF SessionSpec

-----------------------------------------------------------------------------
\* What ties a writer to its session: its number is the count of its successes,
\* the session expects that number or the next, the next one as soon as the
\* server has answered with success, and no straggler carries a later number.
InStep(w) ==
  /\ acked[w] = seq[w]
  /\ next[Session(w)] \in {seq[w], seq[w] + 1}
  /\ reply[w] = "success" => next[Session(w)] = seq[w] + 1
  /\ reply[w] # "gap"
  /\ \A n \in Nat : <<Session(w), n>> \in limbo => n <= seq[w]

AllInStep == \A w \in Writers : InStep(w)

IInv == SessionTypeOK /\ AllInStep

\* A step of writer v leaves the session of another writer alone.
LEMMA OthersInStep ==
  ASSUME Named, IInv, NEW v \in Writers, NEW w \in Writers, v # w,
         Send(v) \/ Reacts(v) \/ ServerNext(v)
  PROVE  InStep(w)'
<1> USE DEF IInv, AllInStep, SessionTypeOK, InStep
<1>1. Session(v) # Session(w)
  BY SessionsApart
<1>2. Session(v) \in Sessions /\ Session(w) \in Sessions
  BY WriterFacts
<1>3. /\ acked'[w] = acked[w] /\ seq'[w] = seq[w] /\ reply'[w] = reply[w]
  BY DEF Send, Reacts, OnSuccess, OnBusy, OnFailure, OnTimeout, ServerNext,
         ServerAppends, ServerRecognises, ServerRefuses, Answer, Rest, Bump,
         history, counters, server
<1>4. next'[Session(w)] = next[Session(w)]
  BY <1>1, <1>2 DEF Send, Reacts, OnSuccess, OnBusy, OnFailure, OnTimeout, ServerNext,
         ServerAppends, ServerRecognises, ServerRefuses, Bump, server
<1>5. \A n \in Nat : <<Session(w), n>> \in limbo' => <<Session(w), n>> \in limbo
  <2>1. CASE OnTimeout(v)
    BY <1>1, <2>1 DEF OnTimeout
  <2>2. CASE ~OnTimeout(v)
    BY <2>2 DEF Send, Reacts, OnSuccess, OnBusy, OnFailure, ServerNext,
         ServerAppends, ServerRecognises, ServerRefuses, server
  <2> QED  BY <2>1, <2>2
<1> QED  BY <1>3, <1>4, <1>5

\* A step of a writer, or of the server for it, keeps it in step.
LEMMA SelfInStep ==
  ASSUME IInv, NEW w \in Writers, Send(w) \/ Reacts(w) \/ ServerNext(w)
  PROVE  InStep(w)'
<1> USE WriterFacts DEF IInv, AllInStep, SessionTypeOK, InStep, Bump
<1>1. CASE Send(w)
  BY <1>1 DEF Send, server
<1>2. CASE OnSuccess(w)
  BY <1>2 DEF OnSuccess, Rest, server
<1>3. CASE OnBusy(w) \/ OnFailure(w)
  BY <1>3 DEF OnBusy, OnFailure, Rest, server, history
<1>4. CASE OnTimeout(w)
  <2>1. \A n \in Nat : <<Session(w), n>> \in limbo' => n <= seq[w]
    BY <1>4 DEF OnTimeout
  <2> QED  BY <1>4, <2>1 DEF OnTimeout, Rest, history
<1>5. CASE ServerAppends(w)
  BY <1>5 DEF ServerAppends, Answer, history
<1>6. CASE ServerRecognises(w)
  BY <1>6 DEF ServerRecognises, Answer, server, history
<1>7. CASE ServerRefuses(w)
  BY <1>7 DEF ServerRefuses, Answer, server, history
<1> QED  BY <1>1, <1>2, <1>3, <1>4, <1>5, <1>6, <1>7 DEF Reacts, ServerNext

\* A straggler that is appended is the append its writer is about to send again.
LEMMA StragglerInStep ==
  ASSUME IInv, NEW req \in limbo, LateArrival(req), NEW w \in Writers
  PROVE  InStep(w)'
<1> USE WriterFacts DEF IInv, AllInStep, SessionTypeOK, InStep
<1>1. /\ acked'[w] = acked[w] /\ seq'[w] = seq[w] /\ reply'[w] = reply[w]
      /\ \A n \in Nat : <<Session(w), n>> \in limbo' => n <= seq[w]
  BY DEF LateArrival, writer, history
<1>2. CASE next'[Session(w)] = next[Session(w)]
  BY <1>1, <1>2
<1>3. CASE next'[Session(w)] # next[Session(w)]
  <2>1. req \in Sessions \X Nat
    OBVIOUS
  <2>2. /\ req[1] = Session(w) /\ next[Session(w)] = req[2]
        /\ next'[Session(w)] = next[Session(w)] + 1
    BY <1>3, <2>1 DEF LateArrival, Bump
  <2>3. req = <<Session(w), req[2]>> /\ req[2] \in Nat
    BY <2>1, <2>2
  <2>4. req[2] <= seq[w]
    BY <2>3
  <2>5. next[Session(w)] = seq[w]
    BY <2>2, <2>4
  <2> QED  BY <1>1, <2>2, <2>5
<1> QED  BY <1>2, <1>3

LEMMA IInvHolds == ASSUME Named PROVE SessionSpec => []IInv
<1>1. SessionInit => AllInStep
  BY WriterFacts DEF SessionInit, InStep, AllInStep
<1>2. ASSUME IInv, [SessionNext]_sessionVars PROVE AllInStep'
  <2> SUFFICES ASSUME NEW w \in Writers PROVE InStep(w)'
    BY DEF AllInStep
  <2>1. ASSUME NEW p \in Pods, TimePasses(p) PROVE InStep(w)'
    BY <1>2, <2>1 DEF TimePasses, writer, server, history, IInv, AllInStep, InStep
  <2>2. ASSUME NEW v \in Writers, Send(v) \/ Reacts(v) \/ ServerNext(v)
        PROVE  InStep(w)'
    BY <1>2, <2>2, OthersInStep, SelfInStep
  <2>3. ASSUME NEW req \in limbo, LateArrival(req) PROVE InStep(w)'
    BY <1>2, <2>3, StragglerInStep
  <2>4. CASE UNCHANGED sessionVars
    BY <1>2, <2>4 DEF sessionVars, writer, server, history, IInv, AllInStep, InStep
  <2> QED  BY <1>2, <2>1, <2>2, <2>3, <2>4 DEF SessionNext
<1>3. SessionSpec => []SessionTypeOK
  BY TypeCorrect
<1>4. SessionTypeOK /\ AllInStep => IInv
  BY DEF IInv
<1> QED  BY <1>1, <1>2, <1>3, <1>4, PTL DEF SessionSpec

\* Every reported success is a record of its own, and at most one record of each
\* writer goes unreported (append.rs 214-217, multi_stream.rs 264-265).
THEOREM SuccessesAgree == ASSUME Named PROVE SessionSpec => []SuccessesAreRecords
<1>1. IInv => SuccessesAreRecords
  BY WriterFacts DEF IInv, AllInStep, SessionTypeOK, InStep, SuccessesAreRecords
<1> QED  BY <1>1, IInvHolds, PTL

\* The server never has to refuse a number as running ahead of its session.
THEOREM NoGapEver == ASSUME Named PROVE SessionSpec => []NoGap
<1>1. IInv => NoGap
  BY DEF IInv, AllInStep, InStep, NoGap
<1> QED  BY <1>1, IInvHolds, PTL
=============================================================================
