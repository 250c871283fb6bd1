------------------------ MODULE FleetBarrier_proofs ------------------------
(***************************************************************************)
(* Theorems about FleetBarrier, for every fleet, window length, headroom   *)
(* and number of passes.                                                   *)
(***************************************************************************)
EXTENDS FleetBarrier, FiniteSetTheorems, TLAPS

GoFiles     == [time : Nat, pass : Nat]
ResultFiles == [start : Nat, pass : Nat]

\* The write workload with a Kubernetes API that answers.
Reliable == UseBarrier /\ ~ApiFaults

-----------------------------------------------------------------------------
(* Lemmas about the operators of the model. *)

\* A part of the fleet as large as the fleet is the fleet: what the leader's
\* count of ready markers, and the merge's count of result files, rely on.
LEMMA WholeFleet ==
  ASSUME NEW S \in SUBSET Pods, Cardinality(S) >= Cardinality(Pods)
  PROVE  S = Pods
<1>1. IsFiniteSet(Pods)
  BY FleetAssumption
<1>2. Cardinality(S) <= Cardinality(Pods) /\ (Cardinality(S) = Cardinality(Pods) => S = Pods)
  BY <1>1, FS_Subset
<1>3. Cardinality(S) \in Nat /\ Cardinality(Pods) \in Nat
  BY <1>1, FS_Subset, FS_CardinalityType
<1>. QED  BY <1>2, <1>3

-----------------------------------------------------------------------------
(* Every variable keeps its type, whatever fails. *)
THEOREM TypeCorrect == Spec => []TypeOK
<1>. USE FleetAssumption
<1>0. /\ NoFiles \in [Pods -> [time : Nat, pass : Nat] \cup {None}]
      /\ NoFiles \in [Pods -> [start : Nat, pass : Nat] \cup {None}]
  BY DEF NoFiles
<1>1. Init => TypeOK
  <2>. SUFFICES ASSUME Init PROVE TypeOK
    OBVIOUS
  <2>1. /\ forced \in BOOLEAN /\ fault \in BOOLEAN
        /\ ready \in SUBSET Pods /\ arrived \in SUBSET Pods /\ gaveUp \in SUBSET Pods
    BY DEF Init
  <2>2. /\ pod \in [Pods -> {"off", "setup", "waiting", "measuring", "done", "dead"}]
        /\ relay \in [Pods -> {"idle", "polling", "delivered"}]
        /\ begin \in [Pods -> Nat]
    BY DEF Init
  <2>3. /\ leader \in {"idle", "reset", "apply", "await", "running", "merge"}
        /\ verdict \in {"none", "accepted", "rejected"}
        /\ now \in Nat /\ pass \in Nat /\ jobPass \in Nat
        /\ go = None /\ localGo = NoFiles /\ results = NoFiles /\ merged = NoFiles
    BY DEF Init
  <2>. QED  BY <1>0, <2>1, <2>2, <2>3 DEF TypeOK
<1>2. ASSUME TypeOK, [Next]_vars PROVE TypeOK'
  <2>. USE <1>0, <1>2 DEF TypeOK
  <2>1. CASE CleanJobs
    <3>. USE <2>1 DEF CleanJobs, storeVars
    <3>1. CASE JobDeleted
      <4>1. /\ forced' \in BOOLEAN /\ fault' \in BOOLEAN
            /\ arrived' \in SUBSET Pods /\ gaveUp' \in SUBSET Pods
        BY <3>1 DEF JobDeleted
      <4>2. /\ pod' \in [Pods -> {"off", "setup", "waiting", "measuring", "done", "dead"}]
            /\ relay' \in [Pods -> {"idle", "polling", "delivered"}]
            /\ begin' \in [Pods -> Nat]
            /\ localGo' = NoFiles
        BY <3>1 DEF JobDeleted
      <4>. QED  BY <4>1, <4>2
    <3>2. CASE JobSurvives
      BY <3>2 DEF JobSurvives, history
    <3>. QED  BY <3>1, <3>2
  <2>2. CASE BarrierReset
    BY <2>2 DEF BarrierReset, PrefixRemoved, podVars, storeVars, history
  <2>3. CASE ApplyCreates
    BY <2>3 DEF ApplyCreates, AfterApply, storeVars, history
  <2>4. CASE ApplyUnchanged \/ ApplyFails
    BY <2>4 DEF ApplyUnchanged, ApplyFails, AfterApply, podVars, storeVars, history
  <2>5. CASE ReleaseFleet \/ ReleaseOnTimeout
    <3>1. go' \in GoFiles \cup {None}
      BY <2>5 DEF ReleaseFleet, ReleaseOnTimeout, GoFile, GoFiles
    <3>. QED
      BY <2>5, <3>1 DEF ReleaseFleet, ReleaseOnTimeout, GoFiles, podVars, history
  <2>6. CASE FleetCompletes \/ FleetTimesOut
    BY <2>6 DEF FleetCompletes, FleetTimesOut, podVars, storeVars, history
  <2>7. CASE Merge \/ MergeUnavailable
    BY <2>7 DEF Merge, MergeUnavailable, podVars, storeVars, history
  <2>8. CASE HostCrash
    BY <2>8 DEF HostCrash, podVars, storeVars, history
  <2>9. ASSUME NEW p \in Pods, PodNext(p) PROVE TypeOK'
    <3>1. CASE ReachBarrier(p)
      BY <3>1 DEF ReachBarrier, leaderVars, storeVars
    <3>2. CASE StartUnsynchronised(p)
      BY <3>2 DEF StartUnsynchronised, LeaveBarrier, leaderVars, storeVars, history
    <3>3. CASE RelayUploadsReady(p) \/ RelayGivesUpUpload(p)
      BY <3>3 DEF RelayUploadsReady, RelayGivesUpUpload, leaderVars, storeVars, history
    <3>4. CASE RelayFetchesGo(p)
      BY <3>4 DEF RelayFetchesGo, leaderVars, storeVars, history
    <3>5. CASE SeeGo(p)
      <4>1. localGo[p].time \in Nat
        BY <3>5 DEF SeeGo
      <4>. QED  BY <3>5, <4>1 DEF SeeGo, LeaveBarrier, leaderVars, storeVars, history
    <3>6. CASE ProceedUnaligned(p)
      BY <3>6 DEF ProceedUnaligned, LeaveBarrier, leaderVars, storeVars
    <3>7. CASE UploadResult(p)
      <4>1. Result(begin[p], jobPass) \in ResultFiles
        BY DEF Result, ResultFiles
      <4>. QED  BY <3>7, <4>1 DEF UploadResult, ResultFiles, leaderVars, history
    <3>8. CASE PodDies(p)
      BY <3>8 DEF PodDies, leaderVars, storeVars, history
    <3>. QED
      BY <2>9, <3>1, <3>2, <3>3, <3>4, <3>5, <3>6, <3>7, <3>8
         DEF PodNext, Arrive
  <2>10. CASE Tick
    BY <2>10 DEF Tick, leaderVars, podVars, storeVars, history
  <2>11. CASE UNCHANGED vars
    BY <2>11 DEF vars, leaderVars, podVars, storeVars, history
  <2>. QED
    BY <1>2, <2>1, <2>2, <2>3, <2>4, <2>5, <2>6, <2>7, <2>8, <2>9, <2>10, <2>11
       DEF Next, LeaderNext
<1>. QED  BY <1>1, <1>2, PTL DEF Spec

-----------------------------------------------------------------------------
(***************************************************************************)
(* Nothing of an earlier pass survives.  With an API that answers, the     *)
(* order of run_fleet_and_coordinator is what makes the store belong to    *)
(* one Job: first the pods go, then the prefix is cleared, then a new Job  *)
(* starts, then its start time is published, once.                         *)
(***************************************************************************)
NoPods == \A p \in Pods : pod[p] = "off" /\ localGo[p] = None

OneJob ==
  /\ \A p \in Pods : pod[p] # "off" => jobPass = pass
  /\ leader \in {"reset", "apply"} => NoPods /\ jobPass < pass
  /\ leader \in {"await", "running", "merge"} => jobPass = pass
  /\ jobPass <= pass

StoreOfJob ==
  /\ leader = "apply" => ready = {} /\ results = NoFiles
  /\ leader \in {"apply", "await"} => go = None
  /\ go # None => go.pass = jobPass
  /\ \A p \in Pods : localGo[p] # None => localGo[p] = go
  /\ \A p \in Pods : results[p] # None => results[p].pass = jobPass
  /\ leader \in {"await", "running", "merge"} => ready \subseteq arrived

MergedOfPass ==
  verdict = "accepted" => \A p \in Pods : merged[p] # None => merged[p].pass = pass

PassInv == OneJob /\ StoreOfJob /\ MergedOfPass

LEMMA PassInvInit == Init => PassInv
<1>. SUFFICES ASSUME Init PROVE PassInv
  OBVIOUS
<1>1. OneJob
  BY DEF Init, OneJob
<1>2. StoreOfJob
  BY DEF Init, StoreOfJob, NoFiles
<1>. QED  BY <1>1, <1>2 DEF Init, PassInv, MergedOfPass

LEMMA PassInvStep ==
  ASSUME Reliable, TypeOK, PassInv, [Next]_vars
  PROVE  PassInv'
<1>. USE DEF PassInv
<1>. DEFINE PassUnchanged == UNCHANGED <<pass, jobPass, merged, verdict>>
<1>1. CASE CleanJobs
  <2>1. /\ pass' = pass + 1 /\ leader' = "reset" /\ verdict' = "none"
        /\ UNCHANGED <<jobPass, ready, go, results>>
        /\ \A p \in Pods : pod'[p] = "off" /\ localGo'[p] = None
    BY <1>1 DEF CleanJobs, JobDeleted, JobSurvives, Reliable, NoFiles, storeVars
  <2>2. OneJob'
    BY <2>1 DEF OneJob, NoPods, TypeOK
  <2>3. StoreOfJob'
    BY <2>1 DEF StoreOfJob
  <2>. QED  BY <2>1, <2>2, <2>3 DEF MergedOfPass
<1>2. CASE BarrierReset
  <2>1. /\ leader = "reset" /\ leader' = "apply"
        /\ ready' = {} /\ go' = None /\ results' = NoFiles
        /\ PassUnchanged /\ UNCHANGED <<pod, localGo>>
    BY <1>2 DEF BarrierReset, PrefixRemoved, Reliable, podVars
  <2>2. OneJob'
    BY <2>1 DEF OneJob, NoPods
  <2>3. StoreOfJob'
    BY <2>1 DEF StoreOfJob, OneJob, NoPods, NoFiles
  <2>. QED  BY <2>1, <2>2, <2>3 DEF MergedOfPass
<1>3. CASE ApplyCreates
  <2>1. /\ leader = "apply" /\ leader' = "await"
        /\ jobPass' = pass
        /\ UNCHANGED <<pass, merged, verdict, localGo, ready, go, results, arrived>>
    BY <1>3 DEF ApplyCreates, AfterApply, Reliable, storeVars, history
  <2>2. OneJob'
    BY <2>1 DEF OneJob, TypeOK
  <2>3. StoreOfJob'
    BY <2>1 DEF StoreOfJob, OneJob, NoPods, NoFiles
  <2>. QED  BY <2>1, <2>2, <2>3 DEF MergedOfPass
<1>4. CASE ApplyUnchanged \/ ApplyFails
  BY <1>4 DEF ApplyUnchanged, ApplyFails, JobExists, Reliable, OneJob, NoPods
<1>5. CASE ReleaseFleet \/ ReleaseOnTimeout
  <2>1. /\ leader = "await" /\ leader' = "running"
        /\ go' = GoFile(now + Headroom, pass)
        /\ PassUnchanged /\ UNCHANGED <<pod, localGo, ready, results, arrived>>
    BY <1>5 DEF ReleaseFleet, ReleaseOnTimeout, Reliable, podVars, history
  <2>2. OneJob'
    BY <2>1 DEF OneJob
  <2>3. go'.pass = pass /\ pass = jobPass
    BY <2>1 DEF GoFile, OneJob
  <2>4. StoreOfJob'
    BY <2>1, <2>3 DEF StoreOfJob
  <2>. QED  BY <2>1, <2>2, <2>4 DEF MergedOfPass
<1>6. CASE FleetCompletes \/ FleetTimesOut
  <2>1. /\ leader = "running" /\ leader' = "merge"
        /\ PassUnchanged /\ UNCHANGED <<pod, localGo, ready, go, results, arrived>>
    BY <1>6 DEF FleetCompletes, FleetTimesOut, podVars, storeVars, history
  <2>. QED  BY <2>1 DEF OneJob, StoreOfJob, MergedOfPass
<1>7. CASE Merge
  <2>1. /\ leader = "merge" /\ leader' = "idle" /\ merged' = results
        /\ UNCHANGED <<pass, jobPass, pod, localGo, ready, go, results, arrived>>
    BY <1>7 DEF Merge, podVars, storeVars, history
  <2>2. MergedOfPass'
    BY <2>1 DEF MergedOfPass, StoreOfJob, OneJob
  <2>. QED  BY <2>1, <2>2 DEF OneJob, StoreOfJob
<1>8. CASE MergeUnavailable \/ HostCrash
  <2>1. /\ leader' = "idle" /\ (verdict' = "rejected" \/ UNCHANGED <<merged, verdict>>)
        /\ UNCHANGED <<pass, jobPass, pod, localGo, ready, go, results, arrived>>
    BY <1>8 DEF MergeUnavailable, HostCrash, podVars, storeVars, history
  <2>. QED  BY <2>1 DEF OneJob, StoreOfJob, MergedOfPass
<1>9. ASSUME NEW p \in Pods, PodNext(p) PROVE PassInv'
  <2>1. /\ UNCHANGED <<leader, pass, jobPass, merged, verdict, go>>
        /\ pod[p] # "off"
        /\ \A q \in Pods : q # p => pod'[q] = pod[q] /\ localGo'[q] = localGo[q]
        /\ localGo'[p] # None => localGo'[p] = localGo[p] \/ localGo'[p] = go
        /\ UNCHANGED results
              \/ results' = [results EXCEPT ![p] = Result(begin[p], jobPass)]
        /\ UNCHANGED ready \/ (ready' = ready \cup {p} /\ p \in arrived)
        /\ arrived \subseteq arrived'
    BY <1>9 DEF PodNext, Arrive, ReachBarrier, StartUnsynchronised, RelayUploadsReady,
                RelayAlive,
                RelayGivesUpUpload, RelayFetchesGo, SeeGo, ProceedUnaligned,
                UploadResult, PodDies, Running, LeaveBarrier, leaderVars, storeVars,
                history, TypeOK
  <2>2. leader \notin {"reset", "apply"} /\ jobPass = pass
    BY <2>1 DEF OneJob, NoPods
  <2>3. OneJob'
    BY <2>1, <2>2 DEF OneJob
  <2>4. \A q \in Pods : results'[q] # None => results'[q].pass = jobPass
    BY <2>1 DEF StoreOfJob, Result, TypeOK
  <2>5. \A q \in Pods : localGo'[q] # None => localGo'[q] = go
    BY <2>1 DEF StoreOfJob
  <2>6. StoreOfJob'
    BY <2>1, <2>2, <2>4, <2>5 DEF StoreOfJob
  <2>. QED  BY <2>1, <2>3, <2>6 DEF MergedOfPass
<1>10. CASE Tick \/ UNCHANGED vars
  BY <1>10 DEF Tick, vars, leaderVars, podVars, storeVars, history, OneJob, NoPods,
              StoreOfJob, MergedOfPass
<1>. QED
  BY <1>1, <1>2, <1>3, <1>4, <1>5, <1>6, <1>7, <1>8, <1>9, <1>10 DEF Next, LeaderNext

LEMMA PassInvAlways == ASSUME Reliable PROVE Spec => []PassInv
<1>1. TypeOK /\ PassInv /\ [Next]_vars => PassInv'
  BY PassInvStep
<1>. QED  BY <1>1, PassInvInit, TypeCorrect, PTL DEF Spec

\* With the barrier in use and an API that answers, no accepted fleet sum holds
\* a result of an earlier pass, whichever pods or hosts died in between.
THEOREM NoCrossPassResult == ASSUME Reliable PROVE Spec => []AcceptedFresh
<1>1. PassInv => AcceptedFresh
  BY DEF PassInv, MergedOfPass, AcceptedFresh
<1>. QED  BY <1>1, PassInvAlways, PTL

\* Under the same conditions no pod is released by an earlier pass's go file.
THEOREM NoStaleRelease == ASSUME Reliable PROVE Spec => []NoStaleGo
<1>1. TypeOK /\ PassInv => NoStaleGo
  <2>. SUFFICES ASSUME TypeOK, PassInv, NEW p \in Pods, localGo[p] # None
                PROVE  localGo[p].pass >= jobPass
    BY DEF NoStaleGo
  <2>1. localGo[p].pass = jobPass
    BY DEF PassInv, StoreOfJob
  <2>. QED  BY <2>1 DEF TypeOK
<1>. QED  BY <1>1, PassInvAlways, TypeCorrect, PTL

-----------------------------------------------------------------------------
(***************************************************************************)
(* The barrier implements StartBarrier.  A pod has started when it left    *)
(* the barrier and lives; the barrier is open when the store holds the go  *)
(* file of the leader's pass.  The count of ready markers opens it only    *)
(* when every pod has arrived because the markers are those of this Job    *)
(* (StoreOfJob), and a pod that saw a go file saw the one in the store.    *)
(***************************************************************************)
IsOpen  == go # None /\ go.pass = pass
Started == {p \in Pods : pod[p] \in {"measuring", "done"}}

LEMMA BarrierStep ==
  ASSUME Reliable, TypeOK, PassInv, [Next]_vars
  PROVE  [Barrier!Next]_(Barrier!vars)
<1>. USE DEF PassInv
<1>. DEFINE Stutter == UNCHANGED <<arrived, forced, gaveUp, IsOpen, Started>>
<1>0. Stutter => UNCHANGED Barrier!vars
  BY DEF Barrier!vars, IsOpen, Started
<1>1. CASE CleanJobs
  <2>1. /\ pass' = pass + 1 /\ UNCHANGED <<jobPass, go>>
        /\ arrived' = {} /\ forced' = FALSE /\ gaveUp' = {}
        /\ \A p \in Pods : pod'[p] = "off"
    BY <1>1 DEF CleanJobs, JobDeleted, JobSurvives, Reliable, storeVars
  <2>2. IsOpen' = FALSE
    BY <2>1 DEF IsOpen, StoreOfJob, OneJob, TypeOK
  <2>3. Started' = {}
    BY <2>1 DEF Started
  <2>. QED  BY <2>1, <2>2, <2>3 DEF Barrier!Next, Barrier!Recycle, IsOpen, Started
<1>2. CASE BarrierReset
  <2>1. /\ leader = "reset" /\ go' = None
        /\ UNCHANGED <<pass, pod, arrived, forced, gaveUp>>
    BY <1>2 DEF BarrierReset, PrefixRemoved, Reliable, podVars, history
  <2>2. ~IsOpen /\ ~IsOpen'
    BY <2>1 DEF IsOpen, StoreOfJob, OneJob, TypeOK
  <2>3. IsOpen' = IsOpen
    BY <2>2 DEF IsOpen
  <2>. QED  BY <2>1, <2>3, <1>0 DEF Started
<1>3. CASE ApplyCreates
  <2>1. /\ leader = "apply" /\ \A p \in Pods : pod'[p] = "setup"
        /\ UNCHANGED <<pass, go, arrived, forced, gaveUp>>
    BY <1>3 DEF ApplyCreates, storeVars, history
  <2>2. Started = {} /\ Started' = {}
    BY <2>1 DEF OneJob, NoPods, Started
  <2>. QED  BY <2>1, <2>2, <1>0 DEF IsOpen
<1>4. CASE ApplyUnchanged \/ ApplyFails
  BY <1>4 DEF ApplyUnchanged, ApplyFails, JobExists, Reliable, OneJob, NoPods
<1>5. CASE ReleaseFleet
  <2>1. /\ leader = "await" /\ AllReady
        /\ go' = GoFile(now + Headroom, pass)
        /\ UNCHANGED <<pass, pod, arrived, forced, gaveUp>>
    BY <1>5 DEF ReleaseFleet, Reliable, podVars, history
  <2>2. ready = Pods
    BY <2>1, WholeFleet DEF AllReady, TypeOK
  <2>3. arrived = Pods
    BY <2>1, <2>2 DEF StoreOfJob, TypeOK
  <2>4. go' # None /\ go'.pass = pass
    BY <2>1, FleetAssumption DEF GoFile, TypeOK
  <2>5. IsOpen'
    BY <2>1, <2>4 DEF IsOpen
  <2>. QED  BY <2>1, <2>3, <2>5 DEF Barrier!Next, Barrier!Open, IsOpen, Started
<1>6. CASE ReleaseOnTimeout
  <2>1. forced' = TRUE /\ UNCHANGED <<pass, pod, arrived, gaveUp>>
    BY <1>6 DEF ReleaseOnTimeout, podVars
  <2>2. Started' = Started
    BY <2>1 DEF Started
  <2>3. IsOpen' \in BOOLEAN
    BY DEF IsOpen
  <2>. QED  BY <2>1, <2>2, <2>3 DEF Barrier!Next, Barrier!Force, IsOpen, Started
<1>7. ASSUME NEW p \in Pods, PodNext(p)
      PROVE  [Barrier!Next]_(Barrier!vars)
  <2>1. /\ UNCHANGED <<pass, go, forced>>
        /\ \A q \in Pods : q # p => pod'[q] = pod[q]
        /\ pod[p] # "off"
    BY <1>7 DEF PodNext, Arrive, ReachBarrier, StartUnsynchronised, RelayUploadsReady,
                RelayAlive,
                RelayGivesUpUpload, RelayFetchesGo, SeeGo, ProceedUnaligned,
                UploadResult, PodDies, Running, LeaveBarrier, leaderVars, storeVars,
                history, TypeOK
  <2>2. IsOpen' = IsOpen
    BY <2>1 DEF IsOpen
  <2>3. CASE Arrive(p)
    <3>1. arrived' = arrived \cup {p} /\ gaveUp' = gaveUp
      BY <2>3 DEF Arrive, ReachBarrier, Reliable
    <3>2. Started' = Started
      BY <2>3, <2>1 DEF Arrive, ReachBarrier, Reliable, Started, TypeOK
    <3>. QED  BY <2>1, <2>2, <3>1, <3>2 DEF Barrier!Next, Barrier!Arrive, IsOpen, Started
  <2>4. CASE SeeGo(p)
    <3>1. /\ UNCHANGED <<arrived, gaveUp>>
          /\ localGo[p] # None /\ pod'[p] = "measuring"
      BY <2>4 DEF SeeGo, LeaveBarrier, history, TypeOK
    <3>2. IsOpen
      BY <3>1, <2>1 DEF IsOpen, StoreOfJob, OneJob
    <3>3. Started' = Started \cup {p}
      BY <3>1, <2>1 DEF Started
    <3>. QED  BY <2>1, <2>2, <3>1, <3>2, <3>3 DEF Barrier!Next, Barrier!Start, IsOpen, Started
  <2>5. CASE ProceedUnaligned(p)
    <3>1. arrived' = arrived /\ gaveUp' = gaveUp \cup {p} /\ pod'[p] = "measuring"
      BY <2>5 DEF ProceedUnaligned, LeaveBarrier, TypeOK
    <3>2. Started' = Started \cup {p}
      BY <3>1, <2>1 DEF Started
    <3>. QED  BY <2>1, <2>2, <3>1, <3>2 DEF Barrier!Next, Barrier!GiveUp, IsOpen, Started
  <2>6. CASE PodDies(p)
    <3>1. UNCHANGED <<arrived, gaveUp>> /\ pod'[p] = "dead"
      BY <2>6 DEF PodDies, history, TypeOK
    <3>2. Started' = Started \ {p}
      BY <3>1, <2>1 DEF Started
    <3>. QED  BY <2>1, <2>2, <3>1, <3>2 DEF Barrier!Next, Barrier!Leave, IsOpen, Started
  <2>7. CASE UploadResult(p) \/ RelayUploadsReady(p) \/ RelayGivesUpUpload(p)
             \/ RelayFetchesGo(p)
    <3>1. /\ UNCHANGED <<arrived, gaveUp>>
          /\ (pod[p] \in {"measuring", "done"}) = (pod'[p] \in {"measuring", "done"})
      BY <2>7 DEF UploadResult, RelayUploadsReady, RelayGivesUpUpload, RelayFetchesGo,
                  history, TypeOK
    <3>2. Started' = Started
      BY <3>1, <2>1 DEF Started
    <3>. QED  BY <1>0, <2>1, <2>2, <3>1, <3>2
  <2>. QED  BY <1>7, <2>3, <2>4, <2>5, <2>6, <2>7 DEF PodNext
<1>8. CASE UNCHANGED <<pass, pod, go, arrived, forced, gaveUp>>
  <2>1. Stutter
    BY <1>8 DEF IsOpen, Started
  <2>. QED  BY <1>0, <2>1
<1>. QED
  BY <1>1, <1>2, <1>3, <1>4, <1>5, <1>6, <1>7, <1>8
     DEF Next, LeaderNext, FleetCompletes, FleetTimesOut, Merge, MergeUnavailable,
         HostCrash, Tick, vars, leaderVars, podVars, storeVars, history

\* The barrier of the code keeps the promise of StartBarrier: every step of the
\* leader, a client, a relay or a crash is a step of StartBarrier or changes
\* nothing that StartBarrier speaks of.
THEOREM ImplementsBarrier == ASSUME Reliable PROVE Spec => BarrierSpec
<1>1. Init => Barrier!Init
  BY DEF Init, Barrier!Init
<1>2. TypeOK /\ PassInv /\ [Next]_vars => [Barrier!Next]_(Barrier!vars)
  BY BarrierStep
<1>. QED
  BY <1>1, <1>2, PassInvAlways, TypeCorrect, PTL DEF Spec, BarrierSpec, Barrier!Spec

\* A barrier that was not forced opens when the fleet has arrived, not before; a
\* pod that started and did not give up started through an open barrier.
BarrierInv ==
  /\ Barrier!TypeOK
  /\ IsOpen /\ ~forced => arrived = Pods
  /\ Started \subseteq gaveUp \/ forced \/ arrived = Pods

\* The leader publishes go "once every pod's ready marker is up" (barrier.rs 14-16):
\* if a pod loads the server that did not give up waiting, and the leader did not
\* force the barrier, the whole fleet has arrived.  It is shown of the abstract
\* barrier, and the fleet inherits it.
THEOREM NoEarlyStart == ASSUME Reliable PROVE Spec => []Barrier!NoEarlyStart
<1>1. Barrier!Init => BarrierInv
  BY DEF Barrier!Init, BarrierInv, Barrier!TypeOK, IsOpen, Started
<1>2. BarrierInv /\ [Barrier!Next]_(Barrier!vars) => BarrierInv'
  <2>. SUFFICES ASSUME BarrierInv, [Barrier!Next]_(Barrier!vars) PROVE BarrierInv'
    OBVIOUS
  <2>. USE DEF BarrierInv, Barrier!TypeOK, IsOpen, Started
  <2>1. CASE Barrier!Open \/ Barrier!Force \/ Barrier!Recycle
    BY <2>1 DEF Barrier!Open, Barrier!Force, Barrier!Recycle
  <2>2. ASSUME NEW p \in Pods,
               Barrier!Arrive(p) \/ Barrier!Start(p) \/ Barrier!GiveUp(p) \/ Barrier!Leave(p)
        PROVE  BarrierInv'
    BY <2>2 DEF Barrier!Arrive, Barrier!Start, Barrier!GiveUp, Barrier!Leave
  <2>3. CASE UNCHANGED Barrier!vars
    BY <2>3 DEF Barrier!vars
  <2>. QED  BY <2>1, <2>2, <2>3 DEF Barrier!Next
<1>3. BarrierInv => Barrier!NoEarlyStart
  BY DEF BarrierInv, Barrier!NoEarlyStart, IsOpen, Started
<1>4. Barrier!Spec => []Barrier!NoEarlyStart
  BY <1>1, <1>2, <1>3, PTL DEF Barrier!Spec
<1>. QED  BY <1>4, ImplementsBarrier, PTL DEF BarrierSpec

-----------------------------------------------------------------------------
(***************************************************************************)
(* No false rejection.  While nothing has failed, every window starts at   *)
(* the published time, so the windows coincide and the test passes.        *)
(***************************************************************************)
OnTime ==
  \A p \in Pods :
    /\ pod[p] # "dead"
    /\ pod[p] \in {"measuring", "done"} => go # None /\ begin[p] = go.time
    /\ pod[p] = "done" => results[p] # None /\ results[p].start = begin[p]

OnTimeInv ==
  /\ ~fault => OnTime
  /\ ~fault /\ leader = "merge" => FleetDone
  /\ verdict = "rejected" => fault

\* Result files of a whole fleet that started together pass the test.
LEMMA TogetherAccepts ==
  ASSUME NEW files, NEW t \in Nat,
         \A p \in Pods : files[p] # None /\ files[p].start = t
  PROVE  Accepts(files)
<1>1. Reported(files) = Pods
  BY DEF Reported
<1>2. \A p, q \in Pods : 4 * (files[p].start - files[q].start + Window) <= 5 * Window
  BY FleetAssumption
<1>3. Cardinality(Pods) \in Nat
  BY FleetAssumption, FS_CardinalityType
<1>. QED  BY <1>1, <1>2, <1>3, FleetAssumption DEF Accepts, WindowsAligned

LEMMA OnTimeStep ==
  ASSUME Reliable, TypeOK, PassInv, OnTimeInv, [Next]_vars
  PROVE  OnTimeInv'
<1>. USE DEF OnTimeInv
<1>1. CASE CleanJobs
  BY <1>1 DEF CleanJobs, JobDeleted, JobSurvives, Reliable, OnTime
<1>2. CASE BarrierReset
  <2>1. leader' = "apply" /\ \A p \in Pods : pod'[p] = "off"
    BY <1>2 DEF BarrierReset, podVars, PassInv, OneJob, NoPods
  <2>. QED
    BY <1>2, <2>1 DEF BarrierReset, PrefixRemoved, Reliable, OnTime
<1>3. CASE ApplyCreates
  BY <1>3 DEF ApplyCreates, AfterApply, Reliable, OnTime
<1>4. CASE ApplyUnchanged \/ ApplyFails
  BY <1>4 DEF ApplyUnchanged, ApplyFails, JobExists, Reliable, PassInv, OneJob, NoPods
<1>5. CASE ReleaseFleet
  <2>1. leader = "await" /\ go = None
    BY <1>5 DEF ReleaseFleet, PassInv, StoreOfJob
  <2>2. /\ leader' = "running"
        /\ UNCHANGED <<verdict, pod, begin, results, fault>>
    BY <1>5 DEF ReleaseFleet, Reliable, podVars
  <2>. QED  BY <2>1, <2>2 DEF OnTime
<1>6. CASE FleetCompletes
  BY <1>6 DEF FleetCompletes, podVars, storeVars, OnTime, FleetDone
<1>7. CASE Merge
  <2>1. leader = "merge" /\ leader' = "idle" /\ merged' = results
        /\ UNCHANGED <<pod, begin, go, results, fault>>
    BY <1>7 DEF Merge, podVars, storeVars
  <2>2. ASSUME ~fault PROVE Accepts(results)
    <3>1. \A p \in Pods : /\ go # None
                           /\ results[p] # None /\ results[p].start = go.time
      BY <2>1, <2>2 DEF OnTime, FleetDone
    <3>2. go.time \in Nat
      BY <3>1, FleetAssumption DEF TypeOK
    <3>. QED  BY <3>1, <3>2, TogetherAccepts
  <2>3. verdict' = "rejected" => fault
    BY <1>7, <2>2 DEF Merge
  <2>. QED  BY <2>1, <2>3 DEF OnTime
<1>8. ASSUME NEW p \in Pods, PodNext(p) PROVE OnTimeInv'
  <2>0. UNCHANGED <<leader, verdict, go>> /\ (fault => fault')
    BY <1>8 DEF PodNext, Arrive, ReachBarrier, StartUnsynchronised, RelayUploadsReady,
                RelayGivesUpUpload, RelayFetchesGo, SeeGo, ProceedUnaligned,
                UploadResult, PodDies, leaderVars, storeVars
  <2>1. ~FleetDone \/ fault'
    BY <1>8 DEF PodNext, Arrive, ReachBarrier, StartUnsynchronised, RelayUploadsReady,
                RelayAlive,
                RelayGivesUpUpload, RelayFetchesGo, SeeGo, ProceedUnaligned,
                UploadResult, PodDies, FleetDone, Running
  <2>2. CASE fault'
    BY <2>0, <2>2
  <2>3. CASE ~fault' /\ SeeGo(p)
    <3>1. /\ localGo[p] = go /\ go # None
          /\ begin' = [begin EXCEPT ![p] = localGo[p].time]
          /\ pod' = [pod EXCEPT ![p] = "measuring"]
          /\ results' = results /\ ~fault
      BY <2>3 DEF SeeGo, LeaveBarrier, storeVars, PassInv, StoreOfJob
    <3>. QED  BY <2>0, <2>1, <2>3, <3>1 DEF OnTime, TypeOK, FleetDone
  <2>4. CASE ~fault' /\ UploadResult(p)
    <3>1. /\ pod[p] = "measuring" /\ pod' = [pod EXCEPT ![p] = "done"]
          /\ results' = [results EXCEPT ![p] = Result(begin[p], jobPass)]
          /\ begin' = begin /\ ~fault
      BY <2>4 DEF UploadResult
    <3>2. Result(begin[p], jobPass) # None
      BY FleetAssumption DEF Result, TypeOK
    <3>3. Result(begin[p], jobPass).start = begin[p]
      BY DEF Result
    <3>. QED  BY <2>0, <2>1, <2>4, <3>1, <3>2, <3>3 DEF OnTime, TypeOK, FleetDone
  <2>5. CASE ~fault' /\ (Arrive(p) \/ RelayUploadsReady(p) \/ RelayFetchesGo(p))
    <3>1. /\ UNCHANGED <<begin, results>> /\ ~fault
          /\ pod' = pod \/ pod' = [pod EXCEPT ![p] = "waiting"]
      BY <2>5 DEF Arrive, ReachBarrier, Reliable, RelayUploadsReady, RelayFetchesGo,
                  storeVars
    <3>. QED  BY <2>0, <2>1, <2>5, <3>1 DEF OnTime, TypeOK, FleetDone
  <2>6. RelayGivesUpUpload(p) \/ ProceedUnaligned(p) \/ PodDies(p) => fault'
    BY DEF RelayGivesUpUpload, ProceedUnaligned, PodDies
  <2>. QED
    BY <1>8, <2>2, <2>3, <2>4, <2>5, <2>6 DEF PodNext
<1>9. CASE ReleaseOnTimeout \/ FleetTimesOut \/ MergeUnavailable \/ HostCrash
  BY <1>9 DEF ReleaseOnTimeout, FleetTimesOut, MergeUnavailable, HostCrash
<1>10. CASE Tick \/ UNCHANGED vars
  BY <1>10 DEF Tick, vars, leaderVars, podVars, storeVars, OnTime, FleetDone
<1>. QED
  BY <1>1, <1>2, <1>3, <1>4, <1>5, <1>6, <1>7, <1>8, <1>9, <1>10 DEF Next, LeaderNext

\* A pass in which nothing failed and no go file came late is never rejected.
THEOREM NoRejectionWithoutFault == ASSUME Reliable PROVE Spec => []NoFalseReject
<1>1. Init => OnTimeInv
  BY DEF Init, OnTimeInv, OnTime
<1>2. TypeOK /\ PassInv /\ OnTimeInv /\ [Next]_vars => OnTimeInv'
  BY OnTimeStep
<1>3. OnTimeInv => NoFalseReject
  BY DEF OnTimeInv, NoFalseReject
<1>. QED  BY <1>1, <1>2, <1>3, PassInvAlways, TypeCorrect, PTL DEF Spec

-----------------------------------------------------------------------------
(***************************************************************************)
(* Nobody is stranded at the barrier.                                      *)
(***************************************************************************)

\* Of a pass in which nothing failed yet: where the leader stands says what the store and
\* the pods have, and what a relay has done is in the store.
Healthy ==
  /\ leader \in {"reset", "apply"} => NoPods /\ \A p \in Pods : relay[p] = "idle"
  /\ leader \in {"apply", "await"} => go = None
  /\ leader = "await" => \A p \in Pods : pod[p] \in {"setup", "waiting"}
  /\ leader = "running" => go # None
  /\ \A p \in Pods :
       /\ pod[p] = "waiting" => p \in arrived
       /\ relay[p] # "idle" => p \in ready
       /\ relay[p] = "delivered" => localGo[p] # None
       /\ localGo[p] # None => go # None

HealthyInv == UseBarrier /\ ~fault => Healthy

LEMMA HealthyPod ==
  ASSUME UseBarrier, TypeOK, Healthy, NEW p \in Pods, PodNext(p), ~fault'
  PROVE  Healthy'
<1>1. /\ UNCHANGED <<leader, go>> /\ ~fault
      /\ \A q \in Pods : q # p =>
           pod'[q] = pod[q] /\ relay'[q] = relay[q] /\ localGo'[q] = localGo[q]
      /\ ready \subseteq ready' /\ arrived \subseteq arrived'
  BY DEF PodNext, Arrive, ReachBarrier, RelayUploadsReady, RelayGivesUpUpload, RelayFetchesGo,
         SeeGo, ProceedUnaligned, UploadResult, PodDies, LeaveBarrier, leaderVars, storeVars,
         history, TypeOK
<1>2. /\ pod[p] # "off" /\ leader \notin {"reset", "apply"}
      /\ pod'[p] = "waiting" => p \in arrived'
      /\ relay'[p] # "idle" => p \in ready'
      /\ relay'[p] = "delivered" => localGo'[p] # None
      /\ localGo'[p] # None => go # None
      /\ leader = "await" => pod'[p] \in {"setup", "waiting"}
  <2>1. CASE Arrive(p)
    BY <2>1 DEF Arrive, ReachBarrier, storeVars, leaderVars, Healthy, NoPods, TypeOK
  <2>2. CASE RelayUploadsReady(p)
    BY <2>2 DEF RelayUploadsReady, RelayAlive, leaderVars, history, Healthy, NoPods, TypeOK
  <2>3. CASE RelayFetchesGo(p)
    BY <2>3 DEF RelayFetchesGo, RelayAlive, storeVars, leaderVars, history, Healthy, NoPods,
                TypeOK
  <2>4. CASE SeeGo(p) \/ UploadResult(p)
    BY <2>4 DEF SeeGo, UploadResult, LeaveBarrier, storeVars, leaderVars, history, Healthy,
                NoPods, TypeOK
  <2>5. ~(RelayGivesUpUpload(p) \/ ProceedUnaligned(p) \/ PodDies(p))
    BY DEF RelayGivesUpUpload, ProceedUnaligned, PodDies
  <2>. QED  BY <2>1, <2>2, <2>3, <2>4, <2>5 DEF PodNext
<1>. QED  BY <1>1, <1>2 DEF Healthy

LEMMA HealthyStep == TypeOK /\ HealthyInv /\ [Next]_vars => HealthyInv'
<1>. SUFFICES ASSUME TypeOK, HealthyInv, [Next]_vars, UseBarrier, ~fault'
              PROVE  Healthy'
  BY DEF HealthyInv
<1>1. CASE CleanJobs
  BY <1>1 DEF CleanJobs, JobDeleted, JobSurvives, Healthy, NoPods, NoFiles
<1>2. ASSUME ~CleanJobs PROVE Healthy
  <2>1. ASSUME NEW p \in Pods, PodNext(p) PROVE ~fault
    BY <2>1 DEF PodNext, Arrive, ReachBarrier, StartUnsynchronised, RelayUploadsReady,
                RelayGivesUpUpload, RelayFetchesGo, SeeGo, ProceedUnaligned, UploadResult,
                PodDies
  <2>2. CASE LeaderNext \/ HostCrash
    BY <1>2, <2>2 DEF LeaderNext, HostCrash, BarrierReset, PrefixRemoved, ApplyCreates,
                      ApplyUnchanged, ApplyFails, ReleaseFleet, ReleaseOnTimeout,
                      FleetCompletes, FleetTimesOut, Merge, MergeUnavailable, HealthyInv
  <2>3. CASE Tick \/ UNCHANGED vars
    BY <2>3 DEF Tick, vars, HealthyInv
  <2>. QED  BY <2>1, <2>2, <2>3 DEF Next, HealthyInv
<1>3. CASE BarrierReset /\ Healthy
  BY <1>3 DEF BarrierReset, PrefixRemoved, podVars, history, Healthy, NoPods
<1>4. CASE ApplyCreates /\ Healthy
  BY <1>4 DEF ApplyCreates, AfterApply, storeVars, history, Healthy, NoPods
<1>5. CASE ApplyUnchanged /\ Healthy
  BY <1>5 DEF ApplyUnchanged, JobExists, Healthy, NoPods
<1>6. CASE ReleaseFleet /\ Healthy
  <2>1. GoFile(now + Headroom, pass) # None
    BY FleetAssumption DEF GoFile, TypeOK
  <2>. QED  BY <1>6, <2>1 DEF ReleaseFleet, podVars, history, Healthy, NoPods
<1>7. CASE (FleetCompletes \/ Merge) /\ Healthy
  BY <1>7 DEF FleetCompletes, Merge, podVars, storeVars, history, Healthy, NoPods
<1>8. ~(ApplyFails \/ ReleaseOnTimeout \/ FleetTimesOut \/ MergeUnavailable \/ HostCrash)
  BY DEF ApplyFails, ReleaseOnTimeout, FleetTimesOut, MergeUnavailable, HostCrash
<1>9. ASSUME NEW p \in Pods, PodNext(p), Healthy PROVE Healthy'
  BY <1>9, HealthyPod
<1>10. CASE (Tick \/ UNCHANGED vars) /\ Healthy
  BY <1>10 DEF Tick, vars, leaderVars, podVars, storeVars, history, Healthy, NoPods
<1>. QED
  BY <1>1, <1>2, <1>3, <1>4, <1>5, <1>6, <1>7, <1>8, <1>9, <1>10 DEF Next, LeaderNext

\* The wait of the leader and the waits of the pods never close a circle (lib-bench.sh
\* 248-264): while nothing failed, somebody in the pass can go on, without any timeout.
\* The API may fail: a pass in which it did is a pass with a fault.
THEOREM NobodyIsStranded == Spec => []NobodyStranded
<1>1. Init => HealthyInv
  BY DEF Init, HealthyInv, Healthy, NoFiles
<1>2. TypeOK /\ HealthyInv => NobodyStranded
  <2>. SUFFICES ASSUME TypeOK, UseBarrier, ~fault, Healthy PROVE NobodyStranded
    BY DEF HealthyInv, NobodyStranded
  <2>1. ASSUME leader = "await",
               \A p \in Pods : pod[p] # "setup" /\ ~(RelayAlive(p) /\ relay[p] = "idle")
        PROVE  AllReady
    <3>1. \A p \in Pods : p \in ready
      BY <2>1 DEF Healthy, RelayAlive
    <3>2. ready = Pods
      BY <3>1 DEF TypeOK
    <3>3. Cardinality(Pods) \in Nat
      BY FleetAssumption, FS_CardinalityType
    <3>. QED  BY <3>2, <3>3 DEF AllReady
  <2>2. ASSUME leader = "running", NEW p \in Pods, pod[p] = "waiting", localGo[p] = None
        PROVE  RelayAlive(p) /\ relay[p] # "delivered" /\ go # None
    BY <2>2 DEF Healthy, RelayAlive
  <2>. QED  BY <2>1, <2>2 DEF NobodyStranded
<1>. QED  BY <1>1, <1>2, HealthyStep, TypeCorrect, PTL DEF Spec

=============================================================================
