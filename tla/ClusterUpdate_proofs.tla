------------------------- MODULE ClusterUpdate_proofs -------------------------
(***************************************************************************)
(* An update that ends without a failure leaves every host with the wanted *)
(* image and no replica of another one, and failures cost the services a   *)
(* host each, for any number of hosts, virtual IPs, versions and failures. *)
(***************************************************************************)
EXTENDS ClusterUpdate, FiniteSetTheorems, TLAPS

Pcs == {"idle", "check", "vips", "move", "unban", "stop", "remove", "pull", "retag", "start", "steps"}

UpdateTypes ==
  /\ want \in Nat \ {0} /\ at \in Nodes /\ pc \in Pcs
  /\ online \subseteq Nodes
  /\ image \in [Nodes -> Nat] /\ replica \in [Nodes -> Nat]
  /\ result \in {"none", "updated", "failed"}

Current(n) == n \in online /\ image[n] = want /\ replica[n] \in {want, NoImage}

\* What is known of the hosts at each place of the play: those before the one at work are
\* through, the one at work is out of the cluster and without a replica until it is started,
\* the image is there before that, and only an ended play has a result.
PlayInv ==
  /\ \A n \in Nodes : pc # "idle" /\ n < at => Current(n)
  /\ pc \in {"remove", "pull", "retag", "start"} => at \notin online /\ replica[at] = NoImage
  /\ pc = "start" => image[at] = want
  /\ pc = "steps" => Current(at)
  /\ pc # "idle" => result = "none"
  /\ result = "updated" => \A n \in Nodes : Current(n)

UInv == UpdateTypes /\ PlayInv

\* The invariant holds before the first update.
LEMMA UInit == Init => UInv
BY SizeAssumption DEF Init, UInv, UpdateTypes, PlayInv, Pcs, Nodes

\* A play that ends with a failure has no claim to keep.
LEMMA FailureKeeps ==
  ASSUME UInv, Ends("failed"), UNCHANGED want,
         online' \subseteq Nodes, image' \in [Nodes -> Nat], replica' \in [Nodes -> Nat]
  PROVE  UInv'
BY SizeAssumption DEF UInv, UpdateTypes, PlayInv, Ends, Pcs, Nodes

\* Tasks that leave images, replicas and the membership of the cluster alone.
LEMMA QuietKeeps ==
  ASSUME UInv, UNCHANGED <<want, online, image, replica, result, at>>,
         pc # "idle", pc' \in Pcs \ {"idle", "remove", "pull", "retag", "start", "steps"}
  PROVE  UInv'
BY DEF UInv, UpdateTypes, PlayInv, Current

\* Pacemaker moving virtual IPs leaves the membership as given.
LEMMA ClusterOnline == \A on, banned : Cluster(on, banned) => online' = on
BY DEF Cluster

\* A play begins with nothing to claim: no host is before the first.
LEMMA BeginKeeps == UInv /\ Begin => UInv'
BY SizeAssumption DEF UInv, UpdateTypes, PlayInv, Current, Begin, Pcs, Nodes, cluster

\* The check of the cluster on this host, which may end the play.
LEMMA CheckKeeps == UInv /\ Check => UInv'
<1> SUFFICES ASSUME UInv, Check PROVE UInv'
  OBVIOUS
<1>1. UNCHANGED <<want, online, image, replica>>
  BY DEF Check, cluster
<1>2. CASE Goto("vips")
  BY <1>1, <1>2, QuietKeeps DEF Goto, Check, Pcs
<1>3. CASE Ends("failed")
  BY <1>1, <1>3, FailureKeeps DEF UInv, UpdateTypes
<1> QED
  BY <1>2, <1>3 DEF Check

\* The loops over the virtual IPs only change constraints and places.
LEMMA VipsKeep ==
  UInv /\ (ListVips \/ MoveVip \/ MovesDone \/ UnbanVip \/ UnbansDone) => UInv'
<1> SUFFICES ASSUME UInv, ListVips \/ MoveVip \/ MovesDone \/ UnbanVip \/ UnbansDone
             PROVE  UInv'
  OBVIOUS
<1>1. UNCHANGED <<want, online, image, replica, result, at>>
  BY ClusterOnline DEF ListVips, MoveVip, MovesDone, UnbanVip, UnbansDone, cluster, Goto
<1>2. pc # "idle" /\ pc' \in Pcs \ {"idle", "remove", "pull", "retag", "start", "steps"}
  BY DEF ListVips, MoveVip, MovesDone, UnbanVip, UnbansDone, Goto, Pcs
<1> QED
  BY <1>1, <1>2, QuietKeeps

\* The shell that moves them dies: the play has failed.
LEMMA ShellDiesKeeps == UInv /\ ShellDies => UInv'
BY FailureKeeps DEF ShellDies, Fails, cluster, UInv, UpdateTypes

\* Only the host at work leaves the cluster; those before it are as they were.
LEMMA StopKeeps == UInv /\ StopCluster => UInv'
<1> SUFFICES ASSUME UInv, StopCluster PROVE UInv'
  OBVIOUS
<1>1. /\ UNCHANGED <<want, image>> /\ online' \subseteq Nodes
      /\ replica' \in [Nodes -> Nat] /\ image' \in [Nodes -> Nat]
  BY ClusterOnline DEF StopCluster, UInv, UpdateTypes, cluster, NoImage
<1>2. CASE Ends("failed")
  BY <1>1, <1>2, FailureKeeps
<1>3. CASE ~Ends("failed")
  <2>1. /\ Cluster(online \ {at}, bans) /\ replica' = [replica EXCEPT ![at] = NoImage]
        /\ Goto("remove") /\ pc = "stop"
    BY <1>3 DEF StopCluster, Fails
  <2>2. online' = online \ {at} /\ pc' = "remove" /\ result' = result /\ at' = at
    BY <2>1, ClusterOnline DEF Goto
  <2>3. \A n \in Nodes : n < at => Current(n)'
    <3> SUFFICES ASSUME NEW n \in Nodes, n < at PROVE Current(n)'
      OBVIOUS
    <3>1. Current(n) /\ n # at
      BY <2>1 DEF UInv, UpdateTypes, PlayInv, Nodes
    <3> QED
      BY <1>1, <2>1, <2>2, <3>1 DEF Current, UInv, UpdateTypes
  <2>4. result = "none"
    BY <2>1 DEF UInv, PlayInv
  <2>5. at' \notin online' /\ replica'[at'] = NoImage
    BY <2>1, <2>2 DEF UInv, UpdateTypes
  <2> QED
    BY <1>1, <2>2, <2>3, <2>4, <2>5 DEF UInv, UpdateTypes, PlayInv, Pcs
<1> QED
  BY <1>2, <1>3

\* The image of the host at work is removed while its replica is down.
LEMMA ImagesKeep == UInv /\ (RemovePrevious \/ Pull) => UInv'
<1> SUFFICES ASSUME UInv, RemovePrevious \/ Pull PROVE UInv'
  OBVIOUS
<1>1. UNCHANGED <<want, online, replica>> /\ image' \in [Nodes -> Nat]
  BY DEF RemovePrevious, Pull, cluster, UInv, UpdateTypes, NoImage
<1>2. CASE Ends("failed")
  BY <1>1, <1>2, FailureKeeps DEF UInv, UpdateTypes
<1>3. CASE ~Ends("failed")
  <2>1. pc \in {"remove", "pull"} /\ pc' \in {"pull", "retag"} /\ UNCHANGED <<result, at>>
    BY <1>3 DEF RemovePrevious, Pull, Fails, Goto
  <2>2. \A n \in Nodes : n < at => Current(n)'
    <3> SUFFICES ASSUME NEW n \in Nodes, n < at PROVE Current(n)'
      OBVIOUS
    <3>1. Current(n) /\ n # at
      BY <2>1 DEF UInv, UpdateTypes, PlayInv, Nodes
    <3>2. image'[n] = image[n]
      BY <3>1 DEF RemovePrevious, Pull, UInv, UpdateTypes
    <3> QED
      BY <1>1, <3>1, <3>2 DEF Current
  <2> QED
    BY <1>1, <2>1, <2>2 DEF UInv, UpdateTypes, PlayInv, Pcs
<1> QED
  BY <1>2, <1>3

\* After the retag the host at work has the wanted image.
LEMMA RetagKeeps == UInv /\ Retag => UInv'
<1> SUFFICES ASSUME UInv, Retag PROVE UInv'
  OBVIOUS
<1>1. UNCHANGED <<want, online, replica>> /\ image' \in [Nodes -> Nat]
  BY DEF Retag, cluster, UInv, UpdateTypes
<1>2. CASE Ends("failed")
  BY <1>1, <1>2, FailureKeeps DEF UInv, UpdateTypes
<1>3. CASE ~Ends("failed")
  <2>1. pc = "retag" /\ pc' = "start" /\ UNCHANGED <<result, at>> /\ image'[at] = want
    BY <1>3 DEF Retag, Fails, Goto, UInv, UpdateTypes
  <2>2. \A n \in Nodes : n < at => Current(n)'
    <3> SUFFICES ASSUME NEW n \in Nodes, n < at PROVE Current(n)'
      OBVIOUS
    <3>1. Current(n) /\ n # at
      BY <2>1 DEF UInv, UpdateTypes, PlayInv, Nodes
    <3>2. image'[n] = image[n]
      BY <3>1 DEF Retag, UInv, UpdateTypes
    <3> QED
      BY <1>1, <3>1, <3>2 DEF Current
  <2> QED
    BY <1>1, <2>1, <2>2 DEF UInv, UpdateTypes, PlayInv, Pcs
<1> QED
  BY <1>2, <1>3

\* Only the started host changes: it is in the cluster.
LEMMA StartedKeeps ==
  ASSUME UInv, NEW n \in Nodes, Started(n), UNCHANGED <<want, image>>
  PROVE  /\ online' = online \cup {n} /\ replica' = replica /\ replica' \in [Nodes -> Nat]
         /\ \A m \in Nodes : Current(m) => Current(m)'
BY ClusterOnline DEF Started, Current, UInv, UpdateTypes

\* The host at work comes back with the wanted image.
LEMMA StartKeeps == UInv /\ StartCluster => UInv'
<1> SUFFICES ASSUME UInv, StartCluster PROVE UInv'
  OBVIOUS
<1> at \in Nodes
  BY DEF UInv, UpdateTypes
<1>1. UNCHANGED <<want, image>> /\ online' \subseteq Nodes /\ replica' \in [Nodes -> Nat]
  BY StartedKeeps DEF StartCluster, cluster, UInv, UpdateTypes
<1>2. CASE Ends("failed")
  BY <1>1, <1>2, FailureKeeps DEF UInv, UpdateTypes
<1>3. CASE ~Ends("failed")
  <2>1. Started(at) /\ pc = "start" /\ pc' = "steps" /\ UNCHANGED <<result, at>>
    BY <1>3 DEF StartCluster, Fails, Goto
  <2>2. image[at] = want /\ replica[at] = NoImage /\ result = "none" /\ \A n \in Nodes : n < at => Current(n)
    BY <2>1 DEF UInv, PlayInv
  <2>3. Current(at)'
    BY <1>1, <2>1, <2>2, StartedKeeps DEF Current
  <2>4. \A n \in Nodes : n < at => Current(n)'
    BY <1>1, <2>1, <2>2, StartedKeeps DEF Nodes
  <2> QED
    BY <1>1, <2>1, <2>2, <2>3, <2>4 DEF UInv, UpdateTypes, PlayInv, Pcs
<1> QED
  BY <1>2, <1>3

\* The next host's turn, or the end of the play, when the last host is through.
LEMMA StepsKeep == UInv /\ Steps => UInv'
<1> SUFFICES ASSUME UInv, Steps PROVE UInv'
  OBVIOUS
<1>1. UNCHANGED <<want, online, image, replica>>
  BY DEF Steps, cluster
<1>2. Current(at) /\ result = "none" /\ \A n \in Nodes : n < at => Current(n)
  BY DEF Steps, UInv, PlayInv
<1>3. \A n \in Nodes : Current(n) => Current(n)'
  BY <1>1 DEF Current
<1>4. CASE at < N /\ at' = at + 1 /\ pc' = "check" /\ UNCHANGED result
  BY <1>1, <1>2, <1>3, <1>4, SizeAssumption
     DEF UInv, UpdateTypes, PlayInv, Pcs, Nodes
<1>5. CASE at = N /\ Ends("updated")
  <2>1. \A n \in Nodes : Current(n)'
    BY <1>2, <1>3, <1>5, SizeAssumption DEF Nodes
  <2> QED
    BY <1>1, <1>5, <2>1, SizeAssumption DEF UInv, UpdateTypes, PlayInv, Ends, Pcs, Nodes
<1>6. CASE Ends("failed")
  BY <1>1, <1>6, FailureKeeps DEF UInv, UpdateTypes
<1> QED
  BY <1>4, <1>5, <1>6 DEF Steps, Fails

\* The operator's steps between plays: a new image makes the last result void, and after an
\* update without failures no host is out that could be started by hand.
LEMMA OperatorKeeps == UInv /\ (NewImage \/ \E n \in Nodes : StartByHand(n)) => UInv'
<1>1. UInv /\ NewImage => UInv'
  BY SizeAssumption DEF UInv, UpdateTypes, PlayInv, Current, NewImage, Pcs, cluster
<1>2. ASSUME UInv, NEW n \in Nodes, StartByHand(n) PROVE UInv'
  <2>1. pc = "idle" /\ UNCHANGED <<want, image, result, pc, at>>
    BY <1>2 DEF StartByHand, play
  <2>2. result # "updated"
    BY <1>2 DEF StartByHand, UInv, PlayInv, Current
  <2> QED
    BY <1>2, <2>1, <2>2, StartedKeeps DEF StartByHand, UInv, UpdateTypes, PlayInv
<1> QED
  BY <1>1, <1>2

\* A replica that is started is one of the image on its host.
LEMMA JoinKeeps == UInv /\ (\E n \in Nodes : Join(n)) => UInv'
<1> SUFFICES ASSUME UInv, NEW n \in Nodes, Join(n) PROVE UInv'
  OBVIOUS
<1>1. /\ UNCHANGED <<want, online, image, result, pc, at>>
      /\ n \in online /\ replica' = [replica EXCEPT ![n] = image[n]]
  BY DEF Join, cluster, play
<1>2. \A m \in Nodes : Current(m) => Current(m)'
  BY <1>1 DEF Current, UInv, UpdateTypes
<1>3. pc \in {"remove", "pull", "retag", "start"} => replica'[at] = replica[at]
  BY <1>1 DEF UInv, UpdateTypes, PlayInv
<1>4. replica' \in [Nodes -> Nat]
  BY <1>1 DEF UInv, UpdateTypes
<1> QED
  BY <1>1, <1>2, <1>3, <1>4 DEF UInv, UpdateTypes, PlayInv

\* The invariant that the theorem rests on.
THEOREM UpdateInvariant == Spec => []UInv
<1>1. UInv /\ UNCHANGED cvars => UInv'
  BY DEF UInv, UpdateTypes, PlayInv, Current, cvars, cluster, play
<1>2. UInv /\ [Next]_cvars => UInv'
  BY <1>1, BeginKeeps, CheckKeeps, VipsKeep, ShellDiesKeeps, StopKeeps, ImagesKeep,
     RetagKeeps, StartKeeps, StepsKeep, OperatorKeeps, JoinKeeps DEF Next, Task
<1> QED
  BY <1>2, UInit, PTL DEF Spec

\* An update that ends without a failure (the update tasks of
\* deployment/database/mysql-pacemaker-puppet.yaml in the play "Run update") has every host in
\* the cluster with the wanted image, and no replica of another one, whatever failed before.
THEOREM Updated == Spec => []UpdatedIsCurrent
<1>1. UInv => UpdatedIsCurrent
  BY DEF UInv, PlayInv, Current, UpdatedIsCurrent
<1> QED
  BY <1>1, UpdateInvariant, PTL

(***************************************************************************)
(* The services survive                                                    *)
(***************************************************************************)
\* The host at work is on purpose without its cluster.
Away == pc \in {"remove", "pull", "retag", "start"}

\* Those of the hosts whose replica stays out that a failure is to blame for.
OutElsewhere == {n \in Out : ~(Away /\ n = at)}

\* The hosts where v cannot run, whether v is on its way past the host at work, and the hosts
\* where it cannot run because of a failure.
Blocked(v) == {n \in Nodes : n \notin online \/ <<v, n>> \in bans}
Passing(v) ==
  \/ pc = "move" /\ v \in moving
  \/ pc = "unban" /\ v \in todo
  \/ Away /\ <<v, at>> \notin bans
BlockedElsewhere(v) == {n \in Blocked(v) : ~(Passing(v) /\ n = at)}

\* Every failure costs the database, and each virtual IP, one host at most.
CountInv ==
  /\ Cardinality(OutElsewhere) <= faults
  /\ \A v \in Vips : Cardinality(BlockedElsewhere(v)) <= faults
  /\ faults + 2 <= N => \A v \in Vips : vip[v] # Nowhere

ServeInv ==
  /\ moving \subseteq Vips /\ todo \subseteq moving /\ faults \in Nat
  /\ pc \in {"vips", "move", "unban", "stop"} => at \in online
  /\ \A n \in Nodes \ online : replica[n] = NoImage
  /\ CountInv

\* Sets of hosts are finite, and there are N hosts.
LEMMA HostsFinite ==
  /\ IsFiniteSet(Nodes) /\ Cardinality(Nodes) = N
  /\ \A S \in SUBSET Nodes : IsFiniteSet(S) /\ Cardinality(S) \in Nat
<1>1. IsFiniteSet(Nodes) /\ Cardinality(Nodes) = N
  BY FS_Interval, SizeAssumption DEF Nodes
<1>2. ASSUME NEW S \in SUBSET Nodes PROVE IsFiniteSet(S) /\ Cardinality(S) \in Nat
  <2>1. IsFiniteSet(S)
    BY <1>1, FS_Subset
  <2> QED
    BY <2>1, FS_CardinalityType
<1> QED
  BY <1>1, <1>2

\* No host more, no more hosts.
LEMMA NoMore ==
  ASSUME NEW T \in SUBSET Nodes, NEW S, S \subseteq T, NEW k \in Nat, Cardinality(T) <= k
  PROVE  Cardinality(S) <= k
<1>1. S \in SUBSET Nodes /\ S \in SUBSET T /\ IsFiniteSet(T)
  BY HostsFinite
<1>2. Cardinality(S) <= Cardinality(T)
  BY <1>1, FS_Subset
<1> QED
  BY <1>1, <1>2, HostsFinite

\* One host more is one more at most.
LEMMA OneMore ==
  ASSUME NEW T \in SUBSET Nodes, NEW n \in Nodes, NEW S, S \subseteq T \cup {n},
         NEW k \in Nat, Cardinality(T) <= k
  PROVE  Cardinality(S) <= k + 1
<1>1. IsFiniteSet(T) /\ Cardinality(T) \in Nat /\ T \cup {n} \in SUBSET Nodes
  BY HostsFinite
<1>2. Cardinality(T \cup {n}) <= k + 1
  BY <1>1, FS_AddElement
<1> QED
  BY <1>1, <1>2, NoMore

\* While a virtual IP has a host left where it may run, it runs.
LEMMA RunsSomewhere ==
  ASSUME NEW v \in Vips, NEW on, NEW banned, Cluster(on, banned), NEW n \in Nodes,
         n \in on, <<v, n>> \notin banned, on \subseteq Nodes
  PROVE  vip'[v] # Nowhere
<1>1. vip'[v] \in Placed(v, Allowed(v, on, banned)) /\ n \in Allowed(v, on, banned)
  BY DEF Cluster, Allowed
<1>2. Allowed(v, on, banned) \subseteq Nodes
  BY DEF Allowed
<1>3. vip'[v] \in Allowed(v, on, banned)
  BY <1>1 DEF Placed
<1> QED
  BY <1>2, <1>3, SizeAssumption DEF Nodes, Nowhere

\* With fewer failures there is no less to spare.
LEMMA Spare ==
  \A a, b, n \in Nat : b + 2 <= n => ~(n <= b + 1) /\ (a <= b => a + 2 <= n)
OBVIOUS

\* A step that costs no host, or fails and costs the host at work, keeps the counts.
LEMMA StepCounts ==
  ASSUME UInv, UInv', ServeInv,
         \/ /\ faults' = faults /\ OutElsewhere' \subseteq OutElsewhere
            /\ \A v \in Vips : BlockedElsewhere(v)' \subseteq BlockedElsewhere(v)
         \/ /\ faults' = faults + 1 /\ OutElsewhere' \subseteq OutElsewhere \cup {at}
            /\ \A v \in Vips : BlockedElsewhere(v)' \subseteq BlockedElsewhere(v) \cup {at},
         vip' = vip \/ \E on, banned : Cluster(on, banned)
  PROVE  CountInv' /\ faults' \in Nat
<1>1. /\ faults \in Nat /\ at \in Nodes /\ OutElsewhere \in SUBSET Nodes
      /\ \A v \in Vips : BlockedElsewhere(v) \in SUBSET Nodes
      /\ Cardinality(OutElsewhere) <= faults
      /\ \A v \in Vips : Cardinality(BlockedElsewhere(v)) <= faults
  BY DEF UInv, UpdateTypes, ServeInv, CountInv, OutElsewhere, Out, BlockedElsewhere, Blocked
<1>2. faults' \in Nat /\ faults <= faults'
  BY <1>1
<1>3. Cardinality(OutElsewhere') <= faults'
  <2>1. CASE faults' = faults /\ OutElsewhere' \subseteq OutElsewhere
    BY <1>1, <2>1, NoMore
  <2>2. CASE faults' = faults + 1 /\ OutElsewhere' \subseteq OutElsewhere \cup {at}
    BY <1>1, <2>2, OneMore
  <2> QED
    BY <2>1, <2>2
<1>4. \A v \in Vips : Cardinality(BlockedElsewhere(v)') <= faults'
  <2> SUFFICES ASSUME NEW v \in Vips PROVE Cardinality(BlockedElsewhere(v)') <= faults'
    OBVIOUS
  <2>1. CASE faults' = faults /\ BlockedElsewhere(v)' \subseteq BlockedElsewhere(v)
    BY <1>1, <2>1, NoMore
  <2>2. CASE faults' = faults + 1 /\ BlockedElsewhere(v)' \subseteq BlockedElsewhere(v) \cup {at}
    BY <1>1, <2>2, OneMore
  <2> QED
    BY <2>1, <2>2
<1>5. ASSUME faults' + 2 <= N, NEW v \in Vips PROVE vip'[v] # Nowhere
  <2>1. CASE vip' = vip
    <3>1. faults + 2 <= N
      <4>1. faults \in Nat /\ faults' \in Nat /\ N \in Nat /\ faults' + 2 <= N /\ faults <= faults'
        BY <1>1, <1>2, <1>5, SizeAssumption
      <4> QED
        BY <4>1, Spare
    <3>2. faults + 2 <= N => \A w \in Vips : vip[w] # Nowhere
      BY DEF ServeInv, CountInv
    <3> QED
      BY <2>1, <3>1, <3>2
  <2>2. CASE \E on, banned : Cluster(on, banned)
    <3>1. PICK on, banned : Cluster(on, banned)
      BY <2>2
    <3>2. on = online' /\ banned = bans'
      BY <3>1 DEF Cluster
    <3>3. Cardinality(Blocked(v)') <= faults' + 1
      <4>1. BlockedElsewhere(v)' \in SUBSET Nodes /\ Blocked(v)' \subseteq BlockedElsewhere(v)' \cup {at'}
        BY DEF BlockedElsewhere, Blocked
      <4>2. at' \in Nodes
        BY DEF UInv, UpdateTypes
      <4> QED
        BY <1>2, <1>4, <4>1, <4>2, OneMore
    <3>4. Blocked(v)' # Nodes
      <4> SUFFICES ASSUME Blocked(v)' = Nodes PROVE FALSE
        OBVIOUS
      <4>1. N <= faults' + 1
        BY <3>3, HostsFinite
      <4>2. N \in Nat /\ faults' \in Nat /\ faults' + 2 <= N
        BY <1>2, <1>5, SizeAssumption
      <4> QED
        BY <4>1, <4>2, Spare
    <3>5. PICK n \in Nodes : n \in online' /\ <<v, n>> \notin bans'
      BY <3>4 DEF Blocked
    <3>6. online' \subseteq Nodes
      BY DEF UInv, UpdateTypes
    <3> QED
      BY <3>1, <3>2, <3>5, <3>6, RunsSomewhere
  <2> QED
    BY <2>1, <2>2
<1> QED
  BY <1>2, <1>3, <1>4, <1>5 DEF CountInv

\* A failure that ends the play, with or without the effect of its task.
LEMMA FailureServes ==
  ASSUME UInv, UInv', ServeInv, Ends("failed"), faults' = faults + 1, UNCHANGED bans,
         \A n \in Nodes \ {at} :
           replica'[n] = replica[n] /\ image'[n] = image[n] /\ (n \in online' <=> n \in online),
         \A n \in Nodes \ online' : replica'[n] = NoImage,
         vip' = vip \/ \E on, banned : Cluster(on, banned)
  PROVE  ServeInv'
<1>1. pc' = "idle" /\ moving' = {} /\ todo' = {}
  BY DEF Ends, NoLoop
<1>2. OutElsewhere' \subseteq OutElsewhere \cup {at}
  BY DEF OutElsewhere, Out
<1>3. \A v \in Vips : BlockedElsewhere(v)' \subseteq BlockedElsewhere(v) \cup {at}
  BY DEF BlockedElsewhere, Blocked
<1>4. CountInv' /\ faults' \in Nat
  BY <1>2, <1>3, StepCounts
<1> QED
  BY <1>1, <1>4 DEF ServeInv

\* A step that leaves the cluster and the replicas alone.
LEMMA QuietServes ==
  ASSUME UInv, UInv', ServeInv, UNCHANGED <<cluster, replica, faults>>,
         moving' \subseteq Vips, todo' \subseteq moving',
         pc' \in {"vips", "move", "unban", "stop"} => at' \in online,
         \A n \in Nodes : image'[n] = image[n] \/ (Away' /\ n = at'),
         Away => Away' /\ at' = at,
         \A v \in Vips : Passing(v) /\ at \in Blocked(v) => Passing(v)' /\ at' = at
  PROVE  ServeInv'
<1>1. online' = online /\ bans' = bans /\ vip' = vip /\ replica' = replica /\ faults' = faults
  BY DEF cluster
<1>2. OutElsewhere' \subseteq OutElsewhere
  BY <1>1 DEF OutElsewhere, Out
<1>3. \A v \in Vips : BlockedElsewhere(v)' \subseteq BlockedElsewhere(v)
  BY <1>1 DEF BlockedElsewhere, Blocked
<1>4. CountInv' /\ faults' \in Nat
  BY <1>1, <1>2, <1>3, StepCounts
<1> QED
  BY <1>1, <1>4 DEF ServeInv

\* The tasks and the operator's steps that leave the cluster alone.
LEMMA QuietTasksServe ==
  ASSUME UInv, UInv', ServeInv,
         \/ Begin \/ Check \/ ListVips \/ MovesDone \/ UnbansDone \/ NewImage
         \/ (RemovePrevious \/ Pull \/ Retag \/ Steps) /\ faults' = faults
  PROVE  ServeInv'
<1>1. moving \subseteq Vips /\ todo \subseteq moving /\ (pc \in {"vips", "move", "unban", "stop"} => at \in online)
  BY DEF ServeInv
<1>2. CASE Begin
  BY <1>1, <1>2, QuietServes DEF Begin, cluster, NoLoop, Away, Passing
<1>3. CASE Check
  <2>1. UNCHANGED <<cluster, replica, faults>> /\ pc = "check"
    BY <1>3 DEF Check
  <2>2. ~Away /\ \A v \in Vips : ~Passing(v)
    BY <2>1 DEF Away, Passing
  <2>3. CASE at \in online
    BY <1>1, <1>3, <2>1, <2>2, <2>3, QuietServes DEF Check, Goto
  <2>4. CASE at \notin online
    BY <1>1, <1>3, <2>1, <2>2, <2>4, QuietServes DEF Check, Ends, NoLoop
  <2> QED
    BY <2>3, <2>4
<1>4. CASE ListVips
  BY <1>1, <1>4, QuietServes DEF ListVips, cluster, Goto, Away, Passing
<1>5. CASE MovesDone
  BY <1>1, <1>5, QuietServes DEF MovesDone, cluster, Goto, Away, Passing
<1>6. CASE UnbansDone
  BY <1>1, <1>6, QuietServes DEF UnbansDone, cluster, Goto, NoLoop, Away, Passing
<1>7. CASE NewImage
  BY <1>1, <1>7, QuietServes DEF NewImage, cluster, Away, Passing
<1>8. CASE (RemovePrevious \/ Pull \/ Retag) /\ faults' = faults
  <2>1. UNCHANGED <<cluster, replica, at, moving, todo>> /\ Away /\ Away'
    BY <1>8 DEF RemovePrevious, Pull, Retag, Fails, Goto, ServeInv, Away
  <2>2. \A v \in Vips : Passing(v) => Passing(v)'
    BY <2>1 DEF Passing, Away, cluster
  <2>3. \A n \in Nodes \ {at} : image'[n] = image[n]
    BY <1>8 DEF RemovePrevious, Pull, Retag, UInv, UpdateTypes
  <2>4. \A n \in Nodes : image'[n] = image[n] \/ (Away' /\ n = at')
    BY <2>1, <2>3
  <2>5. ~(pc' \in {"vips", "move", "unban", "stop"})
    BY <2>1 DEF Away
  <2> HIDE DEF Away
  <2> QED
    BY <1>1, <1>8, <2>1, <2>2, <2>4, <2>5, QuietServes
<1>9. CASE Steps /\ faults' = faults
  <2>1. UNCHANGED <<cluster, image, replica, faults>> /\ pc = "steps"
    BY <1>9 DEF Steps
  <2>2. ~Away /\ \A v \in Vips : ~Passing(v)
    BY <2>1 DEF Away, Passing
  <2>3. \/ UNCHANGED <<moving, todo>> /\ pc' = "check"
        \/ moving' = {} /\ todo' = {} /\ pc' = "idle"
    BY <1>9 DEF Steps, Ends, NoLoop, Fails
  <2> QED
    BY <1>1, <2>1, <2>2, <2>3, QuietServes
<1> QED
  BY <1>2, <1>3, <1>4, <1>5, <1>6, <1>7, <1>8, <1>9

\* The shell may ban a virtual IP that it moves from the host at work: it is on its way past it.
LEMMA MoveServes == UInv /\ UInv' /\ ServeInv /\ MoveVip => ServeInv'
<1> SUFFICES ASSUME UInv, UInv', ServeInv, MoveVip PROVE ServeInv'
  OBVIOUS
<1>1. PICK v \in todo : todo' = todo \ {v} /\ (Cluster(online, bans \cup {<<v, at>>}) \/ UNCHANGED cluster)
  BY DEF MoveVip
<1>2. UNCHANGED <<image, replica, pc, at, moving, faults>> /\ pc = "move" /\ v \in moving
  BY <1>1 DEF MoveVip, ServeInv
<1>3. online' = online /\ bans \subseteq bans' /\ bans' \subseteq bans \cup {<<v, at>>}
  BY <1>1 DEF Cluster, cluster
<1>4. OutElsewhere' \subseteq OutElsewhere
  BY <1>2, <1>3 DEF OutElsewhere, Out, Away
<1>5. ASSUME NEW u \in Vips PROVE BlockedElsewhere(u)' \subseteq BlockedElsewhere(u)
  <2> SUFFICES ASSUME NEW n \in BlockedElsewhere(u)' PROVE n \in BlockedElsewhere(u)
    OBVIOUS
  <2>1. n \in Nodes /\ ~(u \in moving /\ n = at) /\ (n \notin online \/ <<u, n>> \in bans')
    BY <1>2, <1>3 DEF BlockedElsewhere, Blocked, Passing
  <2>2. <<u, n>> # <<v, at>>
    BY <1>2, <2>1
  <2>3. n \in Blocked(u)
    BY <1>3, <2>1, <2>2 DEF Blocked
  <2> QED
    BY <1>2, <2>1, <2>3 DEF BlockedElsewhere, Passing, Away
<1>6. vip' = vip \/ \E on, banned : Cluster(on, banned)
  BY <1>1 DEF cluster
<1>7. CountInv' /\ faults' \in Nat
  BY <1>2, <1>4, <1>5, <1>6, StepCounts
<1> QED
  BY <1>1, <1>2, <1>3, <1>7 DEF ServeInv

\* Removing the constraint, the host is open to the virtual IP again; if the removal fails,
\* that is a failure, which costs it the host.
LEMMA UnbanServes == UInv /\ UInv' /\ ServeInv /\ UnbanVip => ServeInv'
<1> SUFFICES ASSUME UInv, UInv', ServeInv, UnbanVip PROVE ServeInv'
  OBVIOUS
<1>1. PICK v \in todo :
        /\ todo' = todo \ {v}
        /\ \/ Cluster(online, bans \ {<<v, at>>}) /\ faults' = faults
           \/ faults' = faults + 1 /\ UNCHANGED cluster
  BY DEF UnbanVip
<1>2. UNCHANGED <<image, replica, pc, at, moving>> /\ pc = "unban" /\ v \in moving /\ at \in online /\ v \in Vips
  BY <1>1 DEF UnbanVip, ServeInv
<1>3. online' = online
  BY <1>1 DEF Cluster, cluster
<1>4. OutElsewhere' \subseteq OutElsewhere
  BY <1>2, <1>3 DEF OutElsewhere, Out, Away
<1>5. vip' = vip \/ \E on, banned : Cluster(on, banned)
  BY <1>1 DEF cluster
<1>6. CASE Cluster(online, bans \ {<<v, at>>}) /\ faults' = faults
  <2>1. bans' = bans \ {<<v, at>>}
    BY <1>6 DEF Cluster
  <2>2. ASSUME NEW u \in Vips PROVE BlockedElsewhere(u)' \subseteq BlockedElsewhere(u)
    <3> SUFFICES ASSUME NEW n \in BlockedElsewhere(u)' PROVE n \in BlockedElsewhere(u)
      OBVIOUS
    <3>1. /\ n \in Nodes /\ ~(u \in todo' /\ n = at)
          /\ n \notin online \/ (<<u, n>> \in bans /\ <<u, n>> # <<v, at>>)
      BY <1>2, <1>3, <2>1 DEF BlockedElsewhere, Blocked, Passing
    <3>2. n \in Blocked(u) /\ ~(u \in todo /\ n = at)
      BY <1>1, <1>2, <3>1 DEF Blocked
    <3> QED
      BY <1>2, <3>2 DEF BlockedElsewhere, Passing, Away
  <2>3. CountInv' /\ faults' \in Nat
    BY <1>4, <1>5, <1>6, <2>2, StepCounts
  <2> QED
    BY <1>1, <1>2, <1>3, <2>3 DEF ServeInv
<1>7. CASE faults' = faults + 1 /\ UNCHANGED cluster
  <2>1. \A u \in Vips : BlockedElsewhere(u)' \subseteq BlockedElsewhere(u) \cup {at}
    BY <1>7 DEF BlockedElsewhere, Blocked, cluster
  <2>2. CountInv' /\ faults' \in Nat
    BY <1>4, <1>5, <1>7, <2>1, StepCounts
  <2> QED
    BY <1>1, <1>2, <1>3, <2>2 DEF ServeInv
<1> QED
  BY <1>1, <1>6, <1>7

\* The host at work leaves the cluster.
LEMMA StopServes == UInv /\ UInv' /\ ServeInv /\ StopCluster => ServeInv'
<1> SUFFICES ASSUME UInv, UInv', ServeInv, StopCluster PROVE ServeInv'
  OBVIOUS
<1>1. replica \in [Nodes -> Nat] /\ at \in Nodes /\ pc = "stop" /\ at \in online /\ UNCHANGED image
      /\ \A n \in Nodes \ online : replica[n] = NoImage
  BY DEF StopCluster, UInv, UpdateTypes, ServeInv
<1>2. CASE Cluster(online \ {at}, bans) /\ replica' = [replica EXCEPT ![at] = NoImage]
  <2>1. online' = online \ {at} /\ bans' = bans
    BY <1>2 DEF Cluster
  <2>2. \A n \in Nodes \ {at} : /\ replica'[n] = replica[n] /\ image'[n] = image[n]
                                /\ n \in online' <=> n \in online
    BY <1>1, <1>2, <2>1
  <2>3. \A n \in Nodes \ online' : replica'[n] = NoImage
    BY <1>1, <1>2, <2>1
  <2>4. CASE Fails
    BY <1>2, <2>1, <2>2, <2>3, <2>4, FailureServes DEF Fails
  <2>5. CASE Goto("remove") /\ UNCHANGED <<moving, todo, faults>>
    <3>1. pc' = "remove" /\ at' = at /\ Away'
      BY <2>5 DEF Goto, Away
    <3>2. OutElsewhere' \subseteq OutElsewhere
      BY <1>1, <2>2, <3>1 DEF OutElsewhere, Out, Away
    <3>3. ASSUME NEW v \in Vips PROVE BlockedElsewhere(v)' \subseteq BlockedElsewhere(v)
      <4>1. \A n \in BlockedElsewhere(v)' : n \in Nodes /\ (n \notin online' \/ <<v, n>> \in bans)
                                              /\ (n = at => <<v, n>> \in bans)
        BY <2>1, <3>1 DEF BlockedElsewhere, Blocked, Passing
      <4>2. \A n \in BlockedElsewhere(v)' : n \in Blocked(v)
        BY <2>1, <4>1 DEF Blocked
      <4> QED
        BY <1>1, <4>2 DEF BlockedElsewhere, Passing, Away
    <3>4. CountInv' /\ faults' \in Nat
      BY <1>2, <2>5, <3>2, <3>3, StepCounts
    <3> QED
      BY <2>3, <2>5, <3>1, <3>4 DEF ServeInv
  <2> QED
    BY <1>2, <2>4, <2>5 DEF StopCluster
<1>3. CASE UNCHANGED <<cluster, replica>> /\ Fails
  BY <1>1, <1>3, FailureServes DEF Fails, cluster
<1> QED
  BY <1>2, <1>3 DEF StopCluster

\* A host that is started is open to the virtual IPs that are not banned from it.
LEMMA StartedServes ==
  ASSUME UInv, ServeInv, NEW n \in Nodes, Started(n)
  PROVE  /\ online' = online \cup {n} /\ bans' = bans
         /\ replica' = replica
         /\ \A m \in Nodes \ online' : replica'[m] = NoImage
         /\ \E on, banned : Cluster(on, banned)
<1>1. replica \in [Nodes -> Nat] /\ \A m \in Nodes \ online : replica[m] = NoImage
  BY DEF UInv, UpdateTypes, ServeInv
<1> QED
  BY <1>1 DEF Started, Cluster

\* The host at work comes back.
LEMMA StartServes == UInv /\ UInv' /\ ServeInv /\ StartCluster => ServeInv'
<1> SUFFICES ASSUME UInv, UInv', ServeInv, StartCluster PROVE ServeInv'
  OBVIOUS
<1>1. at \in Nodes /\ pc = "start" /\ image[at] = want /\ UNCHANGED image /\ \A n \in Nodes \ online : replica[n] = NoImage
  BY DEF StartCluster, UInv, UpdateTypes, PlayInv, ServeInv
<1>2. CASE UNCHANGED <<cluster, replica>> /\ Fails
  BY <1>1, <1>2, FailureServes DEF Fails, cluster
<1>3. CASE Started(at) /\ Fails
  BY <1>1, <1>3, StartedServes, FailureServes DEF Fails
<1>4. CASE Started(at) /\ Goto("steps") /\ UNCHANGED <<moving, todo, faults>>
  <2>1. /\ online' = online \cup {at} /\ bans' = bans
        /\ replica' = replica
        /\ \A m \in Nodes \ online' : replica'[m] = NoImage
        /\ \E on, banned : Cluster(on, banned)
    BY <1>1, <1>4, StartedServes
  <2>2. pc' = "steps" /\ at' = at
    BY <1>4 DEF Goto
  <2>3. at \in online' /\ image'[at] # NoImage
    BY <1>1, <2>1 DEF UInv, UpdateTypes, NoImage
  <2>4. OutElsewhere' \subseteq OutElsewhere
    BY <1>1, <2>1, <2>2, <2>3 DEF OutElsewhere, Out
  <2>5. ASSUME NEW v \in Vips PROVE BlockedElsewhere(v)' \subseteq BlockedElsewhere(v)
    <3>1. \A n \in BlockedElsewhere(v)' : /\ n \in Nodes /\ (n \notin online \/ <<v, n>> \in bans)
                                          /\ n = at => <<v, n>> \in bans
      BY <2>1, <2>2 DEF BlockedElsewhere, Blocked, Passing
    <3> QED
      BY <1>1, <3>1 DEF BlockedElsewhere, Blocked, Passing
  <2>6. CountInv' /\ faults' \in Nat
    BY <1>4, <2>1, <2>4, <2>5, StepCounts
  <2> QED
    BY <1>4, <2>1, <2>2, <2>6 DEF ServeInv
<1> QED
  BY <1>2, <1>3, <1>4 DEF StartCluster

\* A replica that pacemaker starts was none of those that stay out.
LEMMA JoinServes == UInv /\ UInv' /\ ServeInv /\ (\E n \in Nodes : Join(n)) => ServeInv'
<1> SUFFICES ASSUME UInv, UInv', ServeInv, NEW n \in Nodes, Join(n) PROVE ServeInv'
  OBVIOUS
<1>1. /\ UNCHANGED <<online, bans, vip, image, pc, at, moving, todo, faults>>
      /\ n \in online /\ replica' = [replica EXCEPT ![n] = image[n]] /\ replica \in [Nodes -> Nat]
  BY DEF Join, cluster, play, UInv, UpdateTypes
<1>2. OutElsewhere' \subseteq OutElsewhere
  BY <1>1 DEF OutElsewhere, Out, Away, Join
<1>3. \A v \in Vips : BlockedElsewhere(v)' \subseteq BlockedElsewhere(v)
  BY <1>1 DEF BlockedElsewhere, Blocked, Passing, Away
<1>4. CountInv' /\ faults' \in Nat
  BY <1>1, <1>2, <1>3, StepCounts
<1> QED
  BY <1>1, <1>4 DEF ServeInv

\* The operator starts a cluster by hand, with or without an image for the replica.
LEMMA ByHandServes == UInv /\ UInv' /\ ServeInv /\ (\E n \in Nodes : StartByHand(n)) => ServeInv'
<1> SUFFICES ASSUME UInv, UInv', ServeInv, NEW n \in Nodes, StartByHand(n) PROVE ServeInv'
  OBVIOUS
<1>1. /\ online' = online \cup {n} /\ bans' = bans
      /\ replica' = replica
      /\ \A m \in Nodes \ online' : replica'[m] = NoImage
      /\ \E on, banned : Cluster(on, banned)
  BY StartedServes DEF StartByHand
<1>2. UNCHANGED <<image, pc, at, moving, todo, faults>> /\ pc = "idle" /\ n \notin online
  BY DEF StartByHand, play
<1>4. OutElsewhere' \subseteq OutElsewhere
  BY <1>1, <1>2 DEF OutElsewhere, Out, Away
<1>5. \A v \in Vips : BlockedElsewhere(v)' \subseteq BlockedElsewhere(v)
  BY <1>1, <1>2 DEF BlockedElsewhere, Blocked, Passing, Away
<1>6. CountInv' /\ faults' \in Nat
  BY <1>1, <1>2, <1>4, <1>5, StepCounts
<1> QED
  BY <1>1, <1>2, <1>6 DEF ServeInv

\* The failures of the other tasks leave the cluster as it is.
LEMMA FailuresServe ==
  ASSUME UInv, UInv', ServeInv, Fails, UNCHANGED <<cluster, replica>>,
         \A n \in Nodes \ {at} : image'[n] = image[n]
  PROVE  ServeInv'
<1>1. \A n \in Nodes \ online : replica[n] = NoImage
  BY DEF ServeInv
<1> QED
  BY <1>1, FailureServes DEF Fails, cluster

\* In a deployed cluster nothing has failed yet.
LEMMA ServeInit == Init => ServeInv
<1> SUFFICES ASSUME Init PROVE ServeInv
  OBVIOUS
<1>1. \A n \in Nodes : replica[n] = 1 /\ n \in online
  BY DEF Init
<1>2. OutElsewhere = {}
  BY <1>1 DEF OutElsewhere, Out, NoImage
<1>3. \A v \in Vips : BlockedElsewhere(v) = {}
  BY <1>1 DEF Init, BlockedElsewhere, Blocked
<1>4. Cardinality(OutElsewhere) <= 0 /\ \A v \in Vips : Cardinality(BlockedElsewhere(v)) <= 0
  BY <1>2, <1>3, FS_EmptySet
<1>5. \A v \in Vips : vip[v] # Nowhere
  BY DEF Init, Nodes, Nowhere
<1>6. moving \subseteq Vips /\ todo \subseteq moving /\ faults = 0 /\ pc = "idle"
  BY DEF Init
<1>7. CountInv
  BY <1>4, <1>5, <1>6 DEF CountInv
<1> QED
  BY <1>1, <1>6, <1>7 DEF ServeInv

\* Every step keeps the counts.
LEMMA ServeNext == UInv /\ UInv' /\ ServeInv /\ [Next]_cvars => ServeInv'
<1> SUFFICES ASSUME UInv, UInv', ServeInv, [Next]_cvars PROVE ServeInv'
  OBVIOUS
<1>1. CASE Begin \/ Check \/ ListVips \/ MovesDone \/ UnbansDone \/ NewImage
  BY <1>1, QuietTasksServe
<1>2. CASE RemovePrevious \/ Pull \/ Retag \/ Steps
  <2>1. faults' = faults \/ Fails
    BY <1>2 DEF RemovePrevious, Pull, Retag, Steps
  <2>2. UNCHANGED <<cluster, replica>>
    BY <1>2 DEF RemovePrevious, Pull, Retag, Steps
  <2>3. \A n \in Nodes \ {at} : image'[n] = image[n]
    BY <1>2 DEF RemovePrevious, Pull, Retag, Steps, UInv, UpdateTypes
  <2> QED
    BY <1>2, <2>1, <2>2, <2>3, QuietTasksServe, FailuresServe
<1>3. CASE MoveVip \/ UnbanVip
  BY <1>3, MoveServes, UnbanServes
<1>4. CASE ShellDies
  BY <1>4, FailuresServe DEF ShellDies
<1>5. CASE StopCluster \/ StartCluster \/ \E n \in Nodes : StartByHand(n) \/ Join(n)
  BY <1>5, StopServes, StartServes, ByHandServes, JoinServes
<1>6. CASE UNCHANGED cvars
  BY <1>6, QuietServes DEF cvars, play, cluster, Away, Passing, ServeInv
<1> QED
  BY <1>1, <1>2, <1>3, <1>4, <1>5, <1>6 DEF Next, Task

\* For any number of hosts, virtual IPs and failures: each failure costs the database one
\* replica at most that does not come back by itself, and each virtual IP one host at most,
\* beyond the host at work.
THEOREM Survives == Spec => []ServicesSurvive
<1>1. UInv /\ ServeInv => ServicesSurvive
  <2> SUFFICES ASSUME UInv, ServeInv PROVE ServicesSurvive
    OBVIOUS
  <2>1. OutElsewhere \in SUBSET Nodes /\ Out \subseteq OutElsewhere \cup {at} /\ at \in Nodes
    BY DEF UInv, UpdateTypes, OutElsewhere, Out
  <2>2. faults \in Nat /\ Cardinality(OutElsewhere) <= faults
    BY DEF ServeInv, CountInv
  <2>3. Cardinality(Out) <= faults + 1
    BY <2>1, <2>2, OneMore
  <2> QED
    BY <2>3 DEF ServeInv, CountInv, ServicesSurvive
<1>2. Init => UInv /\ ServeInv
  BY UInit, ServeInit
<1>3. UInv /\ UInv' /\ ServeInv /\ [Next]_cvars => ServeInv'
  BY ServeNext
<1> QED
  BY <1>1, <1>2, <1>3, UpdateInvariant, PTL DEF Spec
=============================================================================
