---------------------------- MODULE DeploySteps ----------------------------
(***************************************************************************)
(* The playbooks of common/deploy-steps.j2 and the tasks every host runs   *)
(* in each step, common/deploy-steps-tasks.yaml.                           *)
(*                                                                         *)
(* A deployment takes all the hosts through steps 1 .. MaxStep.  A step is *)
(* a play on the source host (external deployment), then a play of the     *)
(* role's own tasks and one of the common tasks on every host.  Ansible's  *)
(* linear strategy gives a task to every host of the play before it gives  *)
(* the next one to any; any_errors_fatal stops the play at the end of the  *)
(* task on which a host failed.  An update takes the hosts through the     *)
(* same common tasks one by one (serial: 1).                               *)
(*                                                                         *)
(* container-puppet.py appears as what ConfigGeneration promises; module   *)
(* ContainerPuppet has its inside.  A configuration is the version of the  *)
(* parameters it was made from: 0 is none, Mixed is what a failed task     *)
(* left: the old one, the new one or some of each.                         *)
(***************************************************************************)
EXTENDS Integers, FiniteSets

CONSTANTS
  Nodes,       \* the hosts of the overcloud
  MaxStep,     \* deploy_steps_max - 1, 5 in the code
  Boot,        \* Boot[s]: the bootstrap host of step s's container_puppet_tasks
  NoBoot,      \* ... or NoBoot when no service has one in that step
  MaxVersion   \* BOUND on the number of parameter changes

Steps == 1 .. MaxStep
Mixed == -1
Versions == 0 .. MaxVersion

ASSUME DeployAssumption ==
  /\ MaxStep \in Nat \ {0} /\ MaxVersion \in Nat \ {0}
  /\ NoBoot \notin Nodes
  /\ Boot \in [Steps -> Nodes \cup {NoBoot}]

\* The tasks of one step on a host, in the order of the plays.
T == 7
Role == 0   Check == 1   Write == 2   Puppet == 3   Generate == 4   Start == 5   Tasks == 6

Last == T * MaxStep   \* how many tasks a host has done when it is through

VARIABLES
  mode,     \* which playbook is running: idle, deploy, update
  result,   \* how the latest one ended: none, deployed, updated, partial, failed
  want,     \* version of the parameters being deployed
  ident,    \* is DeployIdentifier non-empty?
  live,     \* the hosts in the current play (its batch, when serial)
  waiting,  \* the hosts of the later batches
  failed,   \* the hosts of the play that failed the task they are at
  ext,      \* how many external deployment steps the source host has done
  pos,      \* per host, how many tasks of this playbook it has done
  exists,   \* per host, container_startup_configs_json_stat.stat.exists
  fact,     \* per host, the steps whose tasks are in host_container_puppet_tasks
  execs,    \* per step, how often its container_puppet_tasks ran in this playbook
  host      \* per host, what is on its disk and which containers run

vars == <<mode, result, want, ident, live, waiting, failed, ext, pos, exists, fact, execs, host>>

\* json:   /var/lib/container-startup-configs.json exists
\* plain:  version of container-puppet.json and of the startup files
\* conf:   of the generated configuration
\* hashed: of the salted startup files
\* up:     per step, the <<definition, configuration>> its containers run with
Contents == Versions \cup {Mixed}
Host == [json : BOOLEAN, plain : Contents, conf : Contents, hashed : Contents,
         up : [Steps -> Contents \X Contents]]

NewHost == [json |-> FALSE, plain |-> 0, conf |-> 0, hashed |-> 0,
            up |-> [s \in Steps |-> <<0, 0>>]]

\* Nothing of a playbook is left before it starts and after it ended.
Init ==
  /\ mode = "idle" /\ result = "none"
  /\ want = 1 /\ ident = FALSE
  /\ live = {} /\ waiting = {} /\ failed = {}
  /\ ext = 0
  /\ pos = [n \in Nodes |-> 0]
  /\ exists = [n \in Nodes |-> FALSE]
  /\ fact = [n \in Nodes |-> {}]
  /\ execs = [s \in Steps |-> 0]
  /\ host = [n \in Nodes |-> NewHost]

(***************************************************************************)
(* The playbooks                                                           *)
(***************************************************************************)

\* The operator runs a playbook, with the parameters as they were or changed.
NewPlaybook ==
  /\ mode = "idle"
  /\ result' = "none"
  /\ want' \in {v \in {want, want + 1} : v <= MaxVersion}
  /\ UNCHANGED <<failed, ext, pos, exists, fact, execs, host>>

\* "Gather facts" and "Manage SELinux" are not any_errors_fatal: a host that is not
\* reachable then takes no part in the plays that follow.
Deploy ==
  /\ NewPlaybook
  /\ mode' = "deploy"
  /\ ident' \in BOOLEAN
  /\ live' \in SUBSET Nodes \ {{}}
  /\ waiting' = {}

Update ==
  /\ NewPlaybook
  /\ mode' = "update"
  /\ \E R \in SUBSET Nodes : \E n \in R : live' = {n} /\ waiting' = R \ {n}
  /\ UNCHANGED ident

\* MUTANT of Stop: the list of failed hosts outlives the play.
StopKeepsFailed(r) ==
  /\ mode' = "idle"
  /\ result' = r
  /\ live' = {} /\ waiting' = {}
  /\ ext' = 0
  /\ pos' = [n \in Nodes |-> 0]
  /\ exists' = [n \in Nodes |-> FALSE]
  /\ fact' = [n \in Nodes |-> {}]
  /\ execs' = [s \in Steps |-> 0]
  /\ UNCHANGED <<want, ident, failed, host>>

\* ansible-playbook ends: its registered variables and facts are gone, what it did
\* on the hosts stays.
Stop(r) ==
  /\ mode' = "idle"
  /\ result' = r
  /\ live' = {} /\ waiting' = {} /\ failed' = {}
  /\ ext' = 0
  /\ pos' = [n \in Nodes |-> 0]
  /\ exists' = [n \in Nodes |-> FALSE]
  /\ fact' = [n \in Nodes |-> {}]
  /\ execs' = [s \in Steps |-> 0]
  /\ UNCHANGED <<want, ident, host>>

\* MUTANTS of PlayFails: it waits for the failed host as well; a serial play goes on
\* with its next batch.
PlayFailsNever ==
  /\ failed # {}
  /\ \A n \in live, f \in failed : pos[n] > pos[f]
  /\ Stop("failed")
PlayFailsNextBatch ==
  /\ failed # {}
  /\ \A n \in live \ failed, f \in failed : pos[n] > pos[f]
  /\ IF waiting = {}
       THEN Stop("failed")
       ELSE /\ \E n \in waiting : live' = {n} /\ waiting' = waiting \ {n}
            /\ failed' = {}
            /\ UNCHANGED <<mode, result, want, ident, ext, pos, exists, fact, execs, host>>

\* A failed task: any_errors_fatal ends the playbook once the other hosts are
\* through with that task.
PlayFails ==
  /\ failed # {}
  /\ \A n \in live \ failed, f \in failed : pos[n] > pos[f]
  /\ Stop("failed")

\* Every host of the play is through: the next batch of a serial play, or the end.
PlayEnds ==
  /\ mode # "idle" /\ failed = {}
  /\ mode = "deploy" => ext = MaxStep
  /\ \A n \in live : pos[n] = Last
  /\ IF waiting = {}
       THEN Stop(IF \E n \in Nodes : pos[n] # Last THEN "partial"
                 ELSE IF mode = "deploy" THEN "deployed" ELSE "updated")
       ELSE /\ \E n \in waiting : live' = {n} /\ waiting' = waiting \ {n}
            /\ UNCHANGED <<mode, result, want, ident, failed, ext, pos, exists, fact, execs, host>>

\* The operator interrupts the playbook, or the undercloud goes down; or one of the
\* plays before the first step or after the last fails.
Interrupt == mode # "idle" /\ Stop("failed")

\* External deployment step ext + 1: a play on the source host, before the plays of
\* that step on the others.
ExternalStep ==
  /\ mode = "deploy" /\ failed = {}
  /\ ext < MaxStep
  /\ \A n \in live : pos[n] = T * ext
  /\ \/ /\ ext' = ext + 1
        /\ UNCHANGED <<mode, result, want, ident, live, waiting, failed, pos, exists, fact, execs, host>>
     \/ Stop("failed")

(***************************************************************************)
(* The tasks of a host                                                     *)
(***************************************************************************)

StepOf(n) == 1 + pos[n] \div T
TaskOf(n) == pos[n] % T

\* MUTANTS of Given: strategy free, with all the steps in one play; a failed host is
\* dropped and the others go on.
GivenFree(n, t) ==
  /\ n \in live \ failed
  /\ pos[n] < Last
  /\ TaskOf(n) = t
GivenTolerant(n, t) ==
  /\ n \in live \ failed
  /\ pos[n] < Last
  /\ TaskOf(n) = t
  /\ \A m \in live \ failed : pos[m] >= pos[n]
  /\ mode = "deploy" => pos[n] < T * ext

\* The linear strategy: host n is given its next task, t.
Given(n, t) ==
  /\ n \in live \ failed
  /\ pos[n] < Last
  /\ TaskOf(n) = t
  /\ \A m \in live : pos[m] >= pos[n]
  /\ mode = "deploy" => pos[n] < T * ext

Done(n)  == pos' = [pos EXCEPT ![n] = @ + 1] /\ UNCHANGED failed
Fails(n) == failed' = failed \cup {n} /\ UNCHANGED pos

OnHost(n, h) == host' = [host EXCEPT ![n] = h]
Playbook == <<mode, result, want, ident, live, waiting, ext>>

\* The condition on the import of the common tasks.  An update has none.
Imported(n) == mode = "update" \/ ident \/ ~exists[n]
StepOneOnly(t) == t \in {Write, Generate}

\* The role's deploy_steps_tasks; for an update, the update and host prep tasks
\* that come before the common ones.
RoleTasks(n) ==
  /\ Given(n, Role)
  /\ \/ Done(n)
     \/ (mode = "deploy" \/ StepOf(n) = 1) /\ Fails(n)
  /\ UNCHANGED <<Playbook, exists, fact, execs, host>>

\* Check if /var/lib/container-startup-configs.json already exists.
CheckConfigs(n) ==
  /\ Given(n, Check)
  /\ \/ Done(n) /\ exists' = [exists EXCEPT ![n] = host[n].json]
     \/ mode = "deploy" /\ Fails(n) /\ UNCHANGED exists
  /\ UNCHANGED <<Playbook, fact, execs, host>>

Skip(n) ==
  /\ \E t \in Write .. Tasks :
       /\ Given(n, t)
       /\ ~Imported(n) \/ (StepOneOnly(t) /\ StepOf(n) # 1)
  /\ Done(n)
  /\ UNCHANGED <<Playbook, exists, fact, execs, host>>

Runs(n, t) ==
  /\ Given(n, t)
  /\ Imported(n)
  /\ StepOneOnly(t) => StepOf(n) = 1

\* MUTANT of WriteConfigs: files that exist are not overwritten (force: no).
WriteConfigsOnce(n) ==
  /\ Runs(n, Write)
  /\ \/ Done(n) /\ OnHost(n, IF host[n].json THEN host[n] ELSE [host[n] EXCEPT !.json = TRUE, !.plain = want])
     \/ Fails(n) /\ OnHost(n, host[n])
  /\ UNCHANGED <<Playbook, exists, fact, execs>>

\* Write config data at the start of step 1: container-puppet.json, then the old
\* startup configs are removed, then the new ones, the per-step files and those of
\* kolla written.  One that fails may leave new files beside old ones, with or without
\* the startup configs that the next playbook looks for.
WriteConfigs(n) ==
  /\ Runs(n, Write)
  /\ \/ Done(n) /\ OnHost(n, [host[n] EXCEPT !.json = TRUE, !.plain = want])
     \/ Fails(n) /\ \E j \in BOOLEAN : OnHost(n, [host[n] EXCEPT !.json = j, !.plain = Mixed])
  /\ UNCHANGED <<Playbook, exists, fact, execs>>

\* Run puppet host configuration; rc 0 and 2 are successes.
HostPuppet(n) ==
  /\ Runs(n, Puppet)
  /\ Done(n) \/ Fails(n)
  /\ UNCHANGED <<Playbook, exists, fact, execs, host>>

\* MUTANT of GenerateConfig: without failed_when its failure goes unnoticed.
GenerateConfigUnchecked(n) ==
  LET h == [host[n] EXCEPT !.conf = host[n].plain, !.hashed = host[n].plain]
  IN  /\ Runs(n, Generate)
      /\ Done(n)
      /\ OnHost(n, h) \/ OnHost(n, [h EXCEPT !.conf = Mixed])
      /\ UNCHANGED <<Playbook, exists, fact, execs>>

\* Run container-puppet.py: on success all the configuration is that of its input
\* and the startup files are salted.  On failure some of it may be, and the startup
\* files are salted all the same, unless a worker raised or the script broke off.
GenerateConfig(n) ==
  LET h == [host[n] EXCEPT !.conf = host[n].plain, !.hashed = host[n].plain]
  IN  /\ Runs(n, Generate)
      /\ \/ Done(n) /\ OnHost(n, h)
         \/ Fails(n) /\ OnHost(n, [host[n] EXCEPT !.conf = Mixed, !.hashed = Mixed])
      /\ UNCHANGED <<Playbook, exists, fact, execs>>

\* paunch apply of this step's salted startup file, which it needs.
StartContainers(n) ==
  LET h == [host[n] EXCEPT !.up[StepOf(n)] = <<host[n].hashed, host[n].conf>>]
  IN  /\ Runs(n, Start)
      /\ \/ host[n].hashed # 0 /\ Done(n) /\ OnHost(n, h)
         \/ Fails(n) /\ \E g \in {host[n], h} : (host[n].hashed = 0 => g = host[n]) /\ OnHost(n, g)
      /\ UNCHANGED <<Playbook, exists, fact, execs>>

\* MUTANT of Calculated: the tasks of the step before.
CalculatedLate(n) ==
  fact[n] \cup {s \in Steps : s + 1 = StepOf(n) /\ Boot[s] = n}

\* Calculate container_puppet_tasks (set_fact appends this step's to those the fact
\* already holds), write them and run container-puppet.py on them.
Calculated(n) == fact[n] \cup (IF Boot[StepOf(n)] = n THEN {StepOf(n)} ELSE {})

BootstrapTasks(n) ==
  /\ Runs(n, Tasks)
  /\ fact' = [fact EXCEPT ![n] = Calculated(n)]
  /\ \E E \in SUBSET Calculated(n) :
       /\ execs' = [s \in Steps |-> IF s \in E THEN execs[s] + 1 ELSE execs[s]]
       /\ (E = Calculated(n) /\ Done(n)) \/ (Calculated(n) # {} /\ Fails(n))
  /\ UNCHANGED <<Playbook, exists, host>>

HostTask(n) ==
  \/ RoleTasks(n) \/ CheckConfigs(n) \/ Skip(n) \/ WriteConfigs(n) \/ HostPuppet(n)
  \/ GenerateConfig(n) \/ StartContainers(n) \/ BootstrapTasks(n)

Ansible == PlayFails \/ PlayEnds \/ ExternalStep \/ \E n \in Nodes : HostTask(n)

Next == Deploy \/ Update \/ Interrupt \/ Ansible

Spec == Init /\ [][Next]_vars /\ WF_vars(Ansible)

(***************************************************************************)
(* Properties                                                              *)
(***************************************************************************)

\* The shape of the state.
TypeOK ==
  /\ mode \in {"idle", "deploy", "update"}
  /\ result \in {"none", "deployed", "updated", "partial", "failed"}
  /\ want \in 1 .. MaxVersion /\ ident \in BOOLEAN
  /\ live \subseteq Nodes /\ waiting \subseteq Nodes /\ failed \subseteq live
  /\ ext \in 0 .. MaxStep
  /\ pos \in [Nodes -> 0 .. Last]
  /\ exists \in [Nodes -> BOOLEAN]
  /\ fact \in [Nodes -> SUBSET Steps]
  /\ execs \in [Steps -> Nat]
  /\ host \in [Nodes -> Host]

\* Stepwise deployment: a host has begun the step after s only if every host of the
\* deployment, and the source host, are through with step s.
StepBarrier ==
  mode = "deploy" =>
    \A n \in live, s \in 0 .. MaxStep :
      pos[n] > T * s => ext > s /\ \A m \in live : pos[m] >= T * s

\* any_errors_fatal: while a host is failed, no host is given a task beyond the one
\* that failed there.
FailureContained ==
  \A f \in failed, n \in live : pos[n] <= pos[f] + 1

\* The order of the hosts within a playbook, successful or failing.
HostsInStep == StepBarrier /\ FailureContained

\* Containers only ever run with a definition that was written in full and with a
\* configuration that container-puppet.py generated in full, from the same parameters;
\* whatever was interrupted, failed or skipped before they were started.
ContainersConsistent ==
  \A n \in Nodes, s \in Steps :
    host[n].up[s][1] = host[n].up[s][2] /\ host[n].up[s][1] # Mixed

\* A deployment that ran the common tasks, or an update, and reports success has
\* brought every host's containers of every step to the wanted version.
SuccessIsComplete ==
  (result = "deployed" /\ ident) \/ result = "updated" =>
    \A n \in Nodes, s \in Steps : host[n].up[s] = <<want, want>>

\* A step's container_puppet_tasks run when the step's containers are up on every
\* host of the deployment, not just on the bootstrap host ...
BootstrapAfterContainers ==
  mode = "deploy" /\ ident =>
    \A s \in Steps : execs[s] > 0 => \A n \in live : host[n].up[s] = <<want, want>>

\* ... and they have run when any host begins the next step.
BootstrapBeforeNextStep ==
  mode = "deploy" /\ ident =>
    \A s \in Steps : Boot[s] \in live /\ (\E n \in live : pos[n] > T * s) => execs[s] > 0

\* The bootstrap host's tasks stand between the containers of their step and the next.
BootstrapInOrder == BootstrapAfterContainers /\ BootstrapBeforeNextStep

\* An update is rolling: at most one host is between its first and last task.
RollingUpdate ==
  mode = "update" => \A n, m \in Nodes : pos[n] \in 1 .. Last - 1 /\ pos[m] \in 1 .. Last - 1 => n = m

\* A host that fails its update is the last one the playbook touches.
FailureStopsUpdate ==
  [][mode = "update" /\ failed # {} => \A n \in Nodes \ live : n \notin live' /\ host'[n] = host[n]]_vars

\* The serial play: one host at a time, and none after one that failed.
UpdateIsRolling == []RollingUpdate /\ FailureStopsUpdate

\* A playbook that was started ends.
PlaybookEnds == mode # "idle" ~> mode = "idle"

Stepwise == INSTANCE StepwiseDeployment WITH
  members   <- IF mode = "deploy" THEN live ELSE {},
  entered   <- [n \in Nodes |-> IF mode = "deploy" THEN (pos[n] + T - 1) \div T ELSE 0],
  completed <- [n \in Nodes |-> IF mode = "deploy" THEN pos[n] \div T ELSE 0]

\* The plays, with failures, interrupts and hosts left out, are a stepwise deployment.
ImplementsStepwise == Stepwise!Spec

(***************************************************************************)
(* The inductive invariant of the proofs                                   *)
(***************************************************************************)

\* Between two playbooks nothing of a playbook is left; only a serial play has
\* batches that wait; a playbook has no result before it ends.
IdleIsClean ==
  /\ mode = "idle" => /\ live = {} /\ waiting = {} /\ ext = 0
                      /\ pos = [n \in Nodes |-> 0]
                      /\ fact = [n \in Nodes |-> {}] /\ execs = [s \in Steps |-> 0]
  /\ mode = "deploy" => waiting = {}
  /\ mode # "idle" => result = "none"

\* The hosts of a play are never more than one task apart.
Together == \A n \in live, m \in live : pos[n] <= pos[m] + 1

\* The source host has done the external part of every step a host is in.
ExternalAhead == mode = "deploy" => \A n \in live : pos[n] <= T * ext

\* A host that skips the common tasks for what it found on its disk still has it.
SkipsJson ==
  \A n \in Nodes : pos[n] > Check /\ ~Imported(n) => host[n].json

\* A host that does not skip the common tasks has files of one version when it is past
\* their writing in step 1, and past the generation all that the containers are
\* started from is of that version.
Generated ==
  \A n \in Nodes : Imported(n) \/ ~host[n].json =>
    /\ pos[n] > Write => host[n].plain # Mixed
    /\ pos[n] > Generate => host[n].hashed = host[n].plain /\ host[n].conf = host[n].plain

\* A host that runs the common tasks in every step has the wanted parameters on its
\* disk after the first, and the containers of the steps it started them in.
AlwaysImported == mode = "update" \/ (mode = "deploy" /\ ident)
ContainersAsWanted ==
  AlwaysImported => \A n \in Nodes :
    /\ pos[n] > Write => host[n].plain = want
    /\ \A s \in Steps : pos[n] > T * (s - 1) + Start => host[n].up[s] = <<want, want>>

\* No host of the deployment is behind a step's bootstrap tasks once they have run
\* or been calculated.
TasksInOrder ==
  mode = "deploy" => \A s \in Steps :
    execs[s] > 0 \/ (\E n \in Nodes : s \in fact[n]) =>
      \A n \in live : pos[n] >= T * (s - 1) + Tasks

\* The bootstrap host of a step that always runs the common tasks is past the step's
\* bootstrap tasks only if they ran.
TasksRan ==
  mode = "deploy" /\ ident => \A s \in Steps :
    Boot[s] \in live /\ pos[Boot[s]] > T * (s - 1) + Tasks => execs[s] > 0

\* An update has one host at work, the others have not begun or are through.
OneAtATime ==
  mode = "update" => /\ \E n \in Nodes : live = {n}
                     /\ \A n \in Nodes \ live : pos[n] \in {0, Last}

OrderInv    == TypeOK /\ IdleIsClean /\ Together /\ ExternalAhead /\ OneAtATime
ContentsInv == SkipsJson /\ Generated /\ ContainersAsWanted /\ TasksInOrder /\ TasksRan
                 /\ ContainersConsistent /\ SuccessIsComplete
IInv        == OrderInv /\ ContentsInv
=============================================================================
