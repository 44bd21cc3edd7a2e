----------------------------- MODULE ClusterUpdate ----------------------------
(***************************************************************************)
(* The minor update of the hosts of a pacemaker cluster: the play "Run     *)
(* update" (common/deploy-steps.j2) works on one host after the other; on  *)
(* each the update tasks of puppet/services/pacemaker.yaml move the        *)
(* virtual IPs away and stop the cluster, those of                         *)
(* deployment/database/mysql-pacemaker-puppet.yaml exchange the image that *)
(* the bundle's replica is started from, and the cluster is started again. *)
(* Nothing waits until pacemaker has started the replica there, too.       *)
(* DeploySteps has all of these tasks as RoleTasks of its update.          *)
(*                                                                         *)
(* A failed task ends the play; the operator may start the cluster on a    *)
(* host by hand, and runs the play again, from the first host.             *)
(***************************************************************************)
EXTENDS Integers, FiniteSets

CONSTANTS
  N,           \* hosts, in the order of the inventory
  Vips,        \* the virtual IPs
  MaxVersion,  \* bound: versions of the image
  MaxFaults    \* bound: failures that may cost the cluster a host for a resource

ASSUME SizeAssumption == N \in Nat \ {0} /\ MaxVersion \in Nat \ {0} /\ MaxFaults \in Nat

Nodes == 1..N
Nowhere == 0
NoImage == 0

VARIABLES
  want,     \* the version of the parameter DockerMysqlImage
  online,   \* the hosts on which pacemaker runs
  bans,     \* location constraints: a virtual IP must not run on a host
  vip,      \* the host of a virtual IP
  image,    \* the image tagged pcmklatest on a host
  replica,  \* the image that the host's replica runs
  result,   \* of the last play: "none", "updated", "failed"
  pc, at,   \* the task and the host it runs on; "idle" between plays
  moving,   \* VIPS_TO_MOVE
  todo,     \* those that the loop at work has not come to
  faults

cluster == <<online, bans, vip>>
play == <<result, pc, at, moving, todo>>
cvars == <<want, cluster, image, replica, play, faults>>

Init ==
  /\ want = 1 /\ image = [n \in Nodes |-> 1] /\ replica = image
  /\ online = Nodes /\ bans = {} /\ vip \in [Vips -> Nodes]
  /\ result = "none" /\ pc = "idle" /\ at = 1 /\ moving = {} /\ todo = {}
  /\ faults = 0

(***************************************************************************)
(* Pacemaker: a virtual IP stays where it is as long as it may (resource-  *)
(* stickiness INFINITY), or else is started wherever it may run.           *)
(***************************************************************************)
Allowed(v, on, banned) == {n \in on : <<v, n>> \notin banned}

Placed(v, allowed) ==
  CASE vip[v] \in allowed -> {vip[v]}
    [] vip[v] \notin allowed /\ allowed # {} -> allowed
    [] OTHER -> {Nowhere}

Cluster(on, banned) ==
  /\ online' = on /\ bans' = banned
  /\ vip' \in [Vips -> Nodes \cup {Nowhere}]
  /\ \A v \in Vips : vip'[v] \in Placed(v, Allowed(v, on, banned))

(***************************************************************************)
(* The play                                                                *)
(***************************************************************************)
Goto(task) == pc' = task /\ UNCHANGED <<result, at>>
NoLoop == moving' = {} /\ todo' = {}

\* A task has failed: any_errors_fatal and serial end the play.
Ends(how) == result' = how /\ pc' = "idle" /\ at' = 1 /\ NoLoop

Fails == faults < MaxFaults /\ faults' = faults + 1 /\ Ends("failed")

Begin ==
  /\ pc = "idle"
  /\ result' = "none" /\ pc' = "check" /\ at' = 1 /\ NoLoop
  /\ UNCHANGED <<want, cluster, image, replica, faults>>

\* Check pacemaker cluster running before the minor update: on this host.
Check ==
  /\ pc = "check"
  /\ IF at \in online THEN Goto("vips") /\ UNCHANGED <<moving, todo>> ELSE Ends("failed")
  /\ UNCHANGED <<want, cluster, image, replica, faults>>

\* The shell of "Move virtual IPs to another node before stopping pacemaker".  It has no
\* set -e: a move that fails or waits in vain is followed by the next.
ListVips ==
  /\ pc = "vips"
  /\ moving' = {v \in Vips : vip[v] = at} /\ todo' = moving'
  /\ Goto("move")
  /\ UNCHANGED <<want, cluster, image, replica, faults>>

MoveVip ==
  /\ pc = "move"
  /\ \E v \in todo :
       /\ todo' = todo \ {v}
       /\ Cluster(online, bans \cup {<<v, at>>}) \/ UNCHANGED cluster
  /\ UNCHANGED <<want, image, replica, result, pc, at, moving, faults>>

MovesDone ==
  /\ pc = "move" /\ todo = {}
  /\ todo' = moving /\ UNCHANGED moving
  /\ Goto("unban")
  /\ UNCHANGED <<want, cluster, image, replica, faults>>

\* MUTANT of UnbanVip: it is the constraints on the host that the virtual IP is on now that
\* are looked for.
UnbanVipWhereItIs ==
  /\ pc = "unban"
  /\ \E v \in todo : todo' = todo \ {v} /\ Cluster(online, bans \ {<<v, vip[v]>>}) /\ UNCHANGED faults
  /\ UNCHANGED <<want, image, replica, result, pc, at, moving>>

\* A removal that fails is only noticed if it is the last.
UnbanVip ==
  /\ pc = "unban"
  /\ \E v \in todo :
       /\ todo' = todo \ {v}
       /\ \/ Cluster(online, bans \ {<<v, at>>}) /\ UNCHANGED faults
          \/ <<v, at>> \in bans /\ faults < MaxFaults /\ faults' = faults + 1 /\ UNCHANGED cluster
  /\ UNCHANGED <<want, image, replica, result, pc, at, moving>>

UnbansDone ==
  /\ pc = "unban" /\ todo = {}
  /\ NoLoop /\ Goto("stop")
  /\ UNCHANGED <<want, cluster, image, replica, faults>>

\* The shell is killed, or fails for its last command: what it has not removed stays.
ShellDies ==
  /\ pc \in {"vips", "move", "unban"}
  /\ Fails
  /\ UNCHANGED <<want, cluster, image, replica>>

StopCluster ==
  /\ pc = "stop"
  /\ \/ /\ Cluster(online \ {at}, bans) /\ replica' = [replica EXCEPT ![at] = NoImage]
        /\ (Goto("remove") /\ UNCHANGED <<moving, todo, faults>>) \/ Fails
     \/ UNCHANGED <<cluster, replica>> /\ Fails
  /\ UNCHANGED <<want, image>>

\* MUTANT of RemovePrevious: pulling and tagging are part of the block for a previous image.
RemovePreviousAll ==
  /\ pc = "remove"
  /\ \/ image[at] # NoImage /\ image' = [image EXCEPT ![at] = NoImage] /\ Goto("pull") /\ UNCHANGED <<moving, todo, faults>>
     \/ image[at] = NoImage /\ UNCHANGED image /\ Goto("start") /\ UNCHANGED <<moving, todo, faults>>
     \/ image[at] # NoImage /\ image' \in {image, [image EXCEPT ![at] = NoImage]} /\ Fails
  /\ UNCHANGED <<want, cluster, replica>>

\* The block that removes containers and the previous image, if there is one.
RemovePrevious ==
  /\ pc = "remove"
  /\ \/ image' = [image EXCEPT ![at] = NoImage] /\ Goto("pull") /\ UNCHANGED <<moving, todo, faults>>
     \/ image[at] # NoImage /\ image' \in {image, [image EXCEPT ![at] = NoImage]} /\ Fails
  /\ UNCHANGED <<want, cluster, replica>>

Pull ==
  /\ pc = "pull"
  /\ (Goto("retag") /\ UNCHANGED <<moving, todo, faults>>) \/ Fails
  /\ UNCHANGED <<want, cluster, image, replica>>

Retag ==
  /\ pc = "retag"
  /\ \/ image' = [image EXCEPT ![at] = want] /\ Goto("start") /\ UNCHANGED <<moving, todo, faults>>
     \/ UNCHANGED image /\ Fails
  /\ UNCHANGED <<want, cluster, replica>>

Started(n) == Cluster(online \cup {n}, bans) /\ UNCHANGED replica

StartCluster ==
  /\ pc = "start"
  /\ \/ Started(at) /\ ((Goto("steps") /\ UNCHANGED <<moving, todo, faults>>) \/ Fails)
     \/ UNCHANGED <<cluster, replica>> /\ Fails
  /\ UNCHANGED <<want, image>>

\* Everything else of the play on this host, which leaves the cluster alone.
Steps ==
  /\ pc = "steps"
  /\ \/ at < N /\ at' = at + 1 /\ pc' = "check" /\ UNCHANGED <<result, moving, todo, faults>>
     \/ at = N /\ Ends("updated") /\ UNCHANGED faults
     \/ Fails
  /\ UNCHANGED <<want, cluster, image, replica>>

Task ==
  \/ Check \/ ListVips \/ MoveVip \/ MovesDone \/ UnbanVip \/ UnbansDone \/ ShellDies
  \/ StopCluster \/ RemovePrevious \/ Pull \/ Retag \/ StartCluster \/ Steps

\* Pacemaker starts the replica of a host that is in the cluster again, from the image that
\* is tagged there, whenever it gets to it.
Join(n) ==
  /\ n \in online /\ replica[n] = NoImage /\ image[n] # NoImage
  /\ replica' = [replica EXCEPT ![n] = image[n]]
  /\ UNCHANGED <<want, cluster, image, play, faults>>

(***************************************************************************)
(* The operator                                                            *)
(***************************************************************************)
StartByHand(n) ==
  /\ pc = "idle" /\ n \notin online
  /\ Started(n)
  /\ UNCHANGED <<want, image, play, faults>>

NewImage ==
  /\ pc = "idle" /\ want < MaxVersion
  /\ want' = want + 1 /\ result' = "none"
  /\ UNCHANGED <<cluster, image, replica, pc, at, moving, todo, faults>>

Next == Begin \/ Task \/ NewImage \/ \E n \in Nodes : StartByHand(n) \/ Join(n)

Spec == Init /\ [][Next]_cvars

(***************************************************************************)
(* Properties                                                              *)
(***************************************************************************)

\* The hosts without a replica that pacemaker would start by itself.
Out == {n \in Nodes : replica[n] = NoImage /\ (n \notin online \/ image[n] = NoImage)}

\* The services survive updates that fail and are repeated: beyond the host at work, each
\* failure costs each virtual IP one host at most, and the database one replica at most that
\* does not come back by itself.  (Those that do may be any number on top, for nothing waits
\* for them: the play goes on to the next host as soon as pacemaker runs on this one.  And
\* it begins with the first host again, while the one that failed is still out.)
ServicesSurvive ==
  /\ Cardinality(Out) <= faults + 1
  /\ faults + 2 <= N => \A v \in Vips : vip[v] # Nowhere

\* An update that ends without a failure has every host in the cluster with a replica of the
\* wanted image, which runs or is still to be started, also after updates that failed with
\* the image removed and nothing pulled.
UpdatedIsCurrent ==
  result = "updated" => \A n \in Nodes : n \in online /\ image[n] = want /\ replica[n] \in {want, NoImage}
=============================================================================
