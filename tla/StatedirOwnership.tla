-------------------------- MODULE StatedirOwnership -------------------------
(***************************************************************************)
(* container_config_scripts/nova_statedir_ownership.py, which moves        *)
(* /var/lib/nova from the host's nova user to the one of the containers.   *)
(*                                                                         *)
(* A fast-forward upgrade stops nova-compute on every host and leaves a    *)
(* marker, owned by the host's nova user.  Later the nova_statedir_owner   *)
(* container walks the tree, before nova_compute starts in its container:  *)
(* directories always get the new owner; files, if there is a marker, have *)
(* the old user and group replaced.  The marker is removed at the end.     *)
(* instances/ may be one NFS share mounted by all the hosts, so that a     *)
(* walk meets the changes of other walks and of the novas that have        *)
(* already been started.  A container is run again only when its           *)
(* definition has changed, which the identifier of the deployment sees to: *)
(* a playbook repeated with its identifier passes by a script that failed. *)
(***************************************************************************)
EXTENDS FiniteSets

CONSTANTS
  Hosts,
  Dirs, Files,  \* what may be in the state directories
  Top,          \* Top[h]: the state directory of host h
  Parent,       \* Parent[o]: the directories that o is directly in, more than one if shared
  Tree          \* Tree[h]: all that host h may find below its state directory

Objects == Dirs \cup Files
Ids == {"old", "new", "other"}   \* the host's nova, the containers' nova, root or qemu
Owner == [uid : Ids, gid : Ids]
By(id) == [uid |-> id, gid |-> id]
Absent == By("absent")

ASSUME TreeAssumption ==
  /\ Dirs \cap Files = {}
  /\ Top \in [Hosts -> Dirs]
  /\ Parent \in [Objects -> SUBSET Dirs]
  /\ Tree \in [Hosts -> SUBSET Objects]
  /\ \A h \in Hosts : \A o \in Objects : Parent[o] \cap (Tree[h] \cup {Top[h]}) # {} <=> o \in Tree[h]

\* A tree is no more than what is below its top; and what is in more than one directory,
\* as a share that is mounted, is directly in the state directories.
ASSUME ShareAssumption ==
  \A h \in Hosts :
    /\ \A S \in SUBSET Objects :
         (\A o \in Objects : Parent[o] \cap (S \cup {Top[h]}) # {} => o \in S) => Tree[h] \subseteq S
    /\ \A o \in Tree[h] : Top[h] \in Parent[o] \/ \E d \in Dirs : Parent[o] = {d}

VARIABLES
  owner,    \* per object, its owner, or Absent
  nova,     \* per host, the compute service: running (old), stopped, marked, migrated, running (new)
  marker,   \* per host, upgrade_marker exists
  container,  \* per host, its nova_statedir_owner: none, of an earlier identifier, of the current one
  walk,     \* per host, the script: what it has listed but not visited, and whether it runs
  visit,    \* per host, the object it has looked at and the owner it saw, or Idle
  refused,  \* the objects whose chown failed
  skipped   \* the hosts whose step 3 was passed behind a failed script, with their marker

vars == <<owner, nova, marker, container, walk, visit, refused, skipped>>

Idle == [at |-> "nowhere", saw |-> Absent]
Off == [on |-> FALSE, upgrade |-> FALSE, todo |-> {}]

Exists(o) == owner[o] # Absent
Children(d) == {o \in Objects : d \in Parent[o] /\ Exists(o)}

\* Directories are nova's; files are nova's, someone else's, or one of nova's group.
Init ==
  /\ owner \in [Objects -> {Absent, By("old"), By("other"), [uid |-> "other", gid |-> "old"]}]
  /\ \A d \in Dirs : owner[d] = By("old")
  /\ nova = [h \in Hosts |-> "old"]
  /\ marker = [h \in Hosts |-> FALSE]
  /\ container = [h \in Hosts |-> "none"]
  /\ walk = [h \in Hosts |-> Off]
  /\ visit = [h \in Hosts |-> Idle]
  /\ refused = {}
  /\ skipped = {}

(***************************************************************************)
(* The playbooks                                                           *)
(***************************************************************************)

\* Stop nova-compute.  The service stays enabled, so that a rerun of the step after a
\* failure comes here again.
StopNova(h) ==
  /\ nova[h] = "old"
  /\ nova' = [nova EXCEPT ![h] = "stopped"]
  /\ UNCHANGED <<owner, marker, container, walk, visit, refused, skipped>>

\* The host restarts, and with it the service that is stopped but enabled.  (After the
\* first walk of any host this is left out: it would put old ids behind the walk.)
Restart(h) ==
  /\ nova[h] \in {"stopped", "marked"}
  /\ \A g \in Hosts : container[g] = "none"
  /\ nova' = [nova EXCEPT ![h] = "old"]
  /\ UNCHANGED <<owner, marker, container, walk, visit, refused, skipped>>

\* Remove openstack-nova-compute: the service that a restart brought back goes too.
RemovePackage(h) ==
  /\ nova[h] = "old" /\ marker[h]
  /\ nova' = [nova EXCEPT ![h] = "marked"]
  /\ UNCHANGED <<owner, marker, container, walk, visit, refused, skipped>>

\* Set upgrade marker in nova statedir.
SetMarker(h) ==
  /\ nova[h] \in {"stopped", "marked"} /\ ~walk[h].on
  /\ nova' = [nova EXCEPT ![h] = "marked"]
  /\ marker' = [marker EXCEPT ![h] = TRUE]
  /\ UNCHANGED <<owner, container, walk, visit, refused, skipped>>

\* The fast-forward upgrade is through on all hosts.
Upgraded == \A g \in Hosts : nova[g] \notin {"old", "stopped"}

\* A deployment with an identifier of its own.
Redeploy ==
  /\ \A h \in Hosts : ~walk[h].on
  /\ \E h \in Hosts : container[h] = "current"
  /\ container' = [h \in Hosts |-> IF container[h] = "none" THEN "none" ELSE "earlier"]
  /\ UNCHANGED <<owner, nova, marker, walk, visit, refused, skipped>>

\* MUTANT of Launch: the marker is removed when it has been read.
LaunchUnmarks(h) ==
  /\ Upgraded
  /\ container[h] # "current" /\ ~walk[h].on
  /\ container' = [container EXCEPT ![h] = "current"]
  /\ walk' = [walk EXCEPT ![h] = [on |-> TRUE, upgrade |-> marker[h], todo |-> {Top[h]}]]
  /\ marker' = [marker EXCEPT ![h] = FALSE]
  /\ UNCHANGED <<owner, nova, visit, refused, skipped>>

\* MUTANT of Launch: the container is started again while its script runs.
LaunchAgain(h) ==
  /\ Upgraded
  /\ container' = [container EXCEPT ![h] = "current"]
  /\ walk' = [walk EXCEPT ![h] = [on |-> TRUE, upgrade |-> marker[h], todo |-> {Top[h]}]]
  /\ UNCHANGED <<owner, nova, marker, visit, refused, skipped>>

\* Step 3 starts nova_statedir_owner, once for each identifier: in the upgrade, which
\* comes when the fast-forward upgrade is through, and in every later deployment.
Launch(h) ==
  /\ Upgraded
  /\ container[h] # "current" /\ ~walk[h].on
  /\ container' = [container EXCEPT ![h] = "current"]
  /\ walk' = [walk EXCEPT ![h] = [on |-> TRUE, upgrade |-> marker[h], todo |-> {Top[h]}]]
  /\ UNCHANGED <<owner, nova, marker, visit, refused, skipped>>

\* Step 3 of a playbook repeated with its identifier: the container is there, and that
\* its script failed is not seen.
SkipWalk(h) ==
  /\ nova[h] = "marked" /\ Upgraded
  /\ container[h] = "current" /\ ~walk[h].on
  /\ nova' = [nova EXCEPT ![h] = "migrated"]
  /\ skipped' = IF marker[h] THEN skipped \cup {h} ELSE skipped
  /\ UNCHANGED <<owner, marker, container, walk, visit, refused>>

\* MUTANT of StartNova: a host does not wait for the others to be through with step 3.
StartNovaEarly(h) ==
  /\ nova[h] = "migrated" /\ container[h] = "current" /\ ~walk[h].on
  /\ nova' = [nova EXCEPT ![h] = "new"]
  /\ UNCHANGED <<owner, marker, container, walk, visit, refused, skipped>>

\* Step 4 starts nova_compute, on a host that is through with step 3 of this
\* deployment, when the hosts of the play are.
StartNova(h) ==
  /\ nova[h] = "migrated" /\ container[h] = "current"
  /\ \A g \in Hosts : ~walk[g].on
  /\ nova' = [nova EXCEPT ![h] = "new"]
  /\ UNCHANGED <<owner, marker, container, walk, visit, refused, skipped>>

(***************************************************************************)
(* The script                                                              *)
(***************************************************************************)

\* The script ends, with an exception or killed, and its container with an error.
Ends(h) ==
  /\ walk' = [walk EXCEPT ![h] = Off]
  /\ visit' = [visit EXCEPT ![h] = Idle]
  /\ nova' = [nova EXCEPT ![h] = IF @ = "migrated" THEN "marked" ELSE @]
  /\ UNCHANGED <<owner, marker, container, refused, skipped>>

\* PathManager: stat the object, which raises if it is gone.
Look(h, o) ==
  /\ walk[h].on /\ visit[h] = Idle
  /\ o \in walk[h].todo
  /\ IF Exists(o)
       THEN /\ visit' = [visit EXCEPT ![h] = [at |-> o, saw |-> owner[o]]]
            /\ UNCHANGED <<owner, nova, marker, container, walk, refused, skipped>>
       ELSE Ends(h)

\* The owner an object should have: directories always nova's; the old ids replaced
\* in the owner of a file when they have changed.
Target(h, o, saw) ==
  IF o \in Dirs THEN By("new")
  ELSE IF ~walk[h].upgrade THEN saw
  ELSE [i \in {"uid", "gid"} |-> IF saw[i] = "old" THEN "new" ELSE saw[i]]

\* chown changes the ids that are to differ from those seen, and leaves the others.  A
\* failure is logged and forgotten.  A directory is then listed, which raises if it is
\* gone.
Chown(h) ==
  /\ visit[h] # Idle
  /\ LET o == visit[h].at
         saw == visit[h].saw
         want == Target(h, o, saw)
         Visited == [walk EXCEPT ![h].todo = (@ \ {o}) \cup (IF o \in Dirs THEN Children(o) ELSE {})]
     IN  \/ /\ o \in Dirs /\ ~Exists(o)
            /\ Ends(h)
         \/ /\ o \in Dirs => Exists(o)
            /\ walk' = Visited
            /\ visit' = [visit EXCEPT ![h] = Idle]
            /\ \/ /\ owner' = IF Exists(o)
                                THEN [owner EXCEPT ![o] = [i \in {"uid", "gid"} |-> IF want[i] # saw[i] THEN want[i] ELSE @[i]]]
                                ELSE owner
                  /\ UNCHANGED refused
               \/ /\ Exists(o) /\ want # saw
                  /\ refused' = refused \cup {o}
                  /\ UNCHANGED owner
            /\ UNCHANGED <<nova, marker, container, skipped>>

\* All is visited: remove the marker, if it was there at the start.
Unmark(h) ==
  /\ walk[h].on /\ visit[h] = Idle /\ walk[h].todo = {}
  /\ walk[h].upgrade /\ marker[h]
  /\ marker' = [marker EXCEPT ![h] = FALSE]
  /\ UNCHANGED <<owner, nova, container, walk, visit, refused, skipped>>

\* Exit with 0.
Finish(h) ==
  /\ walk[h].on /\ visit[h] = Idle /\ walk[h].todo = {}
  /\ walk[h].upgrade => ~marker[h]
  /\ walk' = [walk EXCEPT ![h] = Off]
  /\ nova' = [nova EXCEPT ![h] = IF @ = "marked" THEN "migrated" ELSE @]
  /\ UNCHANGED <<owner, marker, container, visit, refused, skipped>>

\* The container is killed, or its host goes down.
Crash(h) == walk[h].on /\ Ends(h)

(***************************************************************************)
(* The compute services                                                    *)
(***************************************************************************)

Running(h) == nova[h] \in {"old", "new"}

\* nova-compute creates an instance's directory or a file, or removes one.
NovaCreates(h, o) ==
  /\ Running(h) /\ o \in Tree[h]
  /\ ~Exists(o) /\ \E d \in Parent[o] : Exists(d)
  /\ owner' = [owner EXCEPT ![o] = By(nova[h])]
  /\ UNCHANGED <<nova, marker, container, walk, visit, refused, skipped>>

NovaRemoves(h, o) ==
  /\ Running(h) /\ o \in Tree[h]
  /\ Exists(o) /\ (o \in Dirs => Children(o) = {})
  /\ owner' = [owner EXCEPT ![o] = Absent]
  /\ UNCHANGED <<nova, marker, container, walk, visit, refused, skipped>>

\* libvirt starts a guest, whose disk becomes qemu's.
LibvirtTakes(h, f) ==
  /\ Running(h) /\ f \in Tree[h] \cap Files
  /\ Exists(f)
  /\ owner' = [owner EXCEPT ![f] = By("other")]
  /\ UNCHANGED <<nova, marker, container, walk, visit, refused, skipped>>

Next ==
  \/ Redeploy
  \/ \E h \in Hosts :
      \/ StopNova(h) \/ Restart(h) \/ RemovePackage(h) \/ SetMarker(h)
      \/ Launch(h) \/ SkipWalk(h) \/ StartNova(h)
      \/ Chown(h) \/ Unmark(h) \/ Finish(h) \/ Crash(h)
      \/ \E o \in Objects : Look(h, o) \/ NovaCreates(h, o) \/ NovaRemoves(h, o) \/ LibvirtTakes(h, o)

Spec == Init /\ [][Next]_vars

(***************************************************************************)
(* Properties                                                              *)
(***************************************************************************)

\* The shape of the state.
TypeOK ==
  /\ owner \in [Objects -> Owner \cup {Absent}]
  /\ nova \in [Hosts -> {"old", "stopped", "marked", "migrated", "new"}]
  /\ marker \in [Hosts -> BOOLEAN]
  /\ container \in [Hosts -> {"none", "earlier", "current"}]
  /\ walk \in [Hosts -> [on : BOOLEAN, upgrade : BOOLEAN, todo : SUBSET Objects]]
  /\ visit \in [Hosts -> [at : Objects \cup {"nowhere"}, saw : Owner \cup {Absent}]]
  /\ \A h \in Hosts : visit[h] = Idle \/ (walk[h].on /\ visit[h].at \in walk[h].todo /\ visit[h].saw \in Owner)
  /\ refused \subseteq Objects
  /\ skipped \subseteq Hosts

\* When nova_compute runs in its container, nothing it may find in its state directory
\* belongs to the old user or group any more, however often the walk was killed or met
\* files that others were removing; or a playbook repeated with its identifier has
\* passed by the failed script, and the marker is still there, for the next deployment
\* to finish the walk.  (Unless a chown failed, which the walk only logs.)
Migrated ==
  refused = {} =>
    \A h \in Hosts : nova[h] = "new" =>
      \/ h \in skipped /\ marker[h]
      \/ \A o \in Tree[h] \cup {Top[h]} : Exists(o) => owner[o].uid # "old" /\ owner[o].gid # "old"

\* The walk never takes a file from qemu or root, not even one that changed hands
\* since the walk looked at it: open filehandles of guests would fail.  (Unless a chown
\* failed, or a repeated playbook has started a nova_compute behind a failed script.)
ForeignKept ==
  [][refused = {} /\ skipped = {} => \A f \in Files :
       owner[f] = By("other") => owner'[f] \in {By("other"), Absent}]_vars
=============================================================================
