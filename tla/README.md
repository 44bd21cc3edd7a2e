# TLA+ specifications of tripleo-heat-templates

tripleo-heat-templates deploys OpenStack on a set of hosts.  Most of the
repository is data: Heat templates with the parameters, hieradata and
containers of some two hundred services.  The program among the data is what
runs on the hosts and on the undercloud: the Ansible playbooks and tasks of
`common/`, the script that generates every service's configuration,
`docker/container-puppet.py`, and a number of scripts that run in containers
or after a deployment.  These specifications model that program, check it on
small instances with TLC, and prove the central results for all sizes with
TLAPS.

Paths below are those of the repository, without the leading `src/` that
PROJECT.json has.

## The system

### Components

**Deployment and update playbooks** (`common/deploy-steps.j2`).
State: the play that runs, the hosts in it, the hosts that failed, facts and
registered variables, which live as long as the playbook.
Operations: a deployment runs, for each step 1 to 5, a play on the source host
(external deployment tasks), a play of the role's own tasks and a play of the
common tasks on all hosts; an update runs all its tasks on one host after the
other (`serial: 1`).  Further playbooks of the same shape upgrade the hosts.
Hard: hosts work side by side and fail at any task; playbooks are interrupted,
limited to some hosts, repeated, and run with and without a DeployIdentifier.
Correct when: no host begins a step before all hosts are through with the one
before; a failure stops the others where they are; a success means that every
host has everything; an update never has two hosts at work.

**Common tasks of a step** (`common/deploy-steps-tasks.yaml`).
State: on each host's disk the configuration files of the deployment, the
generated configuration, the salted startup files; the containers.
Operations: write the files (step 1), run puppet on the host, run
container-puppet.py (step 1), start the step's containers with paunch, collect
and run the tasks of the bootstrap host.
Hard: each may fail half way and leave a mixture that a later playbook meets.
Correct when: containers only run with a configuration made in full from the
parameters of their definition.

**Configuration generation** (`docker/container-puppet.py`).
State: a pool of worker processes; per config volume a container that runs
puppet, the archived trees `config-data/NAME` and
`config-data/puppet-generated/NAME` and a checksum beside each.
Operations: merge the services into volumes; pull the image, run the container
and retry; in the container apply, archive and checksum; salt the startup
files with the checksums; exit.
Interacts: called by the common tasks, its files read by paunch and mounted by
the service containers; a bootstrap task of mysql rewrites the archived
password.
Hard: workers are concurrent; attempts share a container and its file system;
any step may fail; a reboot may leave truncated checksums.
Correct when: exit 0 promises the current configuration and truthful salts, so
that every container whose configuration changed is restarted.

**Nova state directory** (`container_config_scripts/nova_statedir_ownership.py`
with `deployment/nova/nova-compute-container-puppet.yaml`).
State: owners of the files below /var/lib/nova, whose instances/ may be on NFS
and shared; the upgrade marker; the container with the identifier of the
deployment it was made in.
Operations: the fast-forward upgrade stops nova-compute and writes the marker;
step 3 of a deployment walks the tree, once for each identifier; step 4 starts
nova_compute.
Hard: walks are killed, meet other hosts' walks and computes, files vanish or
change hands between stat and chown; the old service is stopped but enabled, so
that a restart of the host brings it back; a playbook that is repeated with its
identifier passes by a script that failed.
Correct when: nothing is left with the old owner, or the marker is, and nothing
is taken from qemu.

**Start of nova-compute** (`nova_wait_for_placement_service.py`,
`nova_cell_v2_discover_host.py`).
State: per host the counts of three bounded loops; in nova's database the
registered and the mapped hosts.
Operations: poll keystone and placement (step 4), start nova_compute, wait for
its registration (step 5), have nova-manage map what is unmapped.
Hard: every host polls and gives up on its own, no call has a timeout, and
every host maps all hosts at the same time.
Correct when: a host that succeeds is mapped, none is mapped before all have
come through step 4, and nothing waits for ever but for a call that never
returns.

**Pacemaker and bundle images in updates** (`puppet/services/pacemaker.yaml`,
`deployment/database/mysql-pacemaker-puppet.yaml`; the other bundles have the
same tasks).
State: the cluster's members, constraints and virtual IPs; per host the tagged
image and the replica that runs.
Operations: per host, move the virtual IPs away, remove the constraints, stop
the cluster, remove, pull and tag the image, start the cluster.
Hard: each may fail or die half way; the play starts again from the first
host; the operator starts a cluster by hand; nothing waits for a replica to
have joined.
Correct when: the services are somewhere meanwhile, and an update that ends has
the wanted image on every host.

**Undercloud scripts** (`extraconfig/post_deploy/undercloud_ctlplane_network.py`,
`undercloud_post.py`).
State: neutron's networks, segments, subnets and routers; nova's flavors;
mistral's workbooks, workflows, triggers and environments.
Operations: a sequence of calls that creates, updates or deletes what differs
from the configuration, run again with each installation.
Hard: any call fails and ends the run; neutron and mistral refuse calls in the
wrong order; what is there is of an older configuration, or the user's, and
told apart by name or tag.
Correct when: no call is refused because of what an earlier run left, a run
that goes through has everything in force, and what bears neither the name nor
the tag stays.

**Rendering of the plan** (`tools/process-templates.py`).
State: the tree and an output directory.
Operations: render every template, per role or network where it says so;
clean the tree of what was rendered.
Hard: in place or not, safe or not, dry or not, in any order of the walk;
stopped by a template or a file; the roles and networks change.
Correct when: what was rendered is current, cleaning removes it, nothing else
is overwritten.

**NIC configuration tools** (`tools/yaml-nic-config-2-script.py`,
`tools/merge-new-params-nic-config-script.py`).
State: the operator's files and their backups.
Operations: convert; merge new parameters; each with comments kept or not.
Hard: files are rewritten in place several times; a kill leaves any of the
forms, or the beginning of one, which the next tool is run on.
Correct when: the original is in a backup, a parameter is lost only with a file
that was cut and saved before, and a merge makes comments again of the keys
that a kill left.

**Template validation** (`tools/yaml-validate.py`).
State: failed files, the exit status, the parameters and endpoint maps found.
Operations: validate every file, compare across files.
Hard: a failure hides others, and so does a traceback, which hides every file
still to come and the list of failed files; statuses are combined in many
places.
Correct when: status 0 means that nothing is wrong, and repairing what is
reported leads there.

**Generators** (`network/endpoints/build_endpoint_map.py`,
`tripleo_heat_templates/environment_generator.py`).
State: the data and the generated files; the calls of the recursion.
Operations: build the endpoint map or check that it is up to date; write the
sample environments of a definition and of its children.
Hard: values come from several levels and names from composed words, a tool
stops half way at an error or is killed while it writes.
Correct when: an endpoint map that was built or accepted has every endpoint
under a name that finds its entry, and each sample environment has what it
inherits and nothing that is not for users.

**Not programs or not modelled**: instance HA's wait, `scripts/hosts-config.sh`,
`network/scripts/run-os-net-config.sh`, `deployed-server/scripts/`, the upgrade
playbooks and the data; see the end.

PROJECT.json lists all the components, and the hazards of the code with the
line where each bites and the properties that cover it.

### How they interact

    playbook (source host) --tasks--> host: files, container-puppet.py, paunch
    container-puppet.py --trees, checksums, salted files--> paunch --> containers
    bootstrap host's tasks --needs containers of all hosts--> next step
    fast-forward upgrade --marker--> nova_statedir_owner (step 3) --> nova_compute (step 4)
    wait for placement (step 4) --> nova_compute --registration--> discovery (step 5)
    update playbook --host by host--> pacemaker's and the bundles' update tasks
    yaml-validate.py --accepts--> tree --process-templates.py--> rendered plan

## The modules

| module | what it is |
|---|---|
| `StepwiseDeployment` | abstract: what a deployment in steps promises |
| `DeploySteps` | the playbooks and the common tasks on any number of hosts |
| `DeploySteps_proofs` | its theorems |
| `ConfigGeneration` | abstract: what a run of container-puppet.py promises |
| `ServiceConfigs` | container-puppet.py up to its processes: services merged into volumes |
| `ContainerPuppet`, `ContainerPuppet_proofs` | its processes, its script, paunch and reboots, on one host; theorems on these and on `ServiceConfigs` |
| `StatedirOwnership`, `StatedirOwnership_proofs` | the nova state directory from upgrade marker to new owner; theorems |
| `ComputeStartup`, `ComputeStartup_proofs` | placement, nova_compute, registration, discovery; theorems |
| `ClusterUpdate`, `ClusterUpdate_proofs` | a pacemaker cluster in a rolling update; theorems |
| `CtlplaneNetwork`, `UndercloudPost` | the two Python scripts of the undercloud |
| `Undercloud`, `Undercloud_proofs` | both under one specification; theorems |
| `PlanRendering` | process-templates.py |
| `NicConfigTools` | both NIC configuration tools |
| `PlanTools`, `PlanTools_proofs` | these under one specification; theorems |
| `TemplateValidation`, `TemplateValidation_proofs` | a run of yaml-validate.py and the repair of what it reports; theorems on this and on the next three |
| `ServiceChecks` | four kinds of yaml-validate.py's checks, which compute |
| `EndpointMap` | build_endpoint_map.py, its --check and a user who edits the data |
| `EnvironmentGenerator` | environment_generator.py, call by call |
| `MCAlgorithms` | one of `ServiceConfigs` and these three, on all inputs of bounded sets |
| other `MC*` | constants for TLC |

A definition whose comment begins with MUTANT is a plausible error in the
code, kept beside the definition it replaces; with it TLC finds the property
violated that PROJECT.json names.

### DeploySteps

A host's progress is one number, `pos[n]`, the tasks it has done: seven per
step (`Role` to `Tasks`), in the order of the two plays.  `Given` is Ansible's
linear strategy: a host gets its next task when no host of the play is behind
it; across the plays this is the same rule, since a play ends when all its
hosts are through.  `Fails` leaves the host at its task; `PlayFails` is
`any_errors_fatal`.  `ExternalStep` is the play on the source host.  A host
that cannot be reached while facts are gathered is not in `live'` of `Deploy`
(that play is not any_errors_fatal), which also stands for `--limit`.

On its disk a host has (`Host`) the version of the parameters that each kind
of file was made from: `plain` for container-puppet.json and the startup
files, `conf` for the generated configuration, `hashed` for the salted startup
files, `up[s]` for the containers of step s.  `Mixed` is what a task leaves that
fails between its first and its last file: the writing of the files
(`WriteConfigs`, where `json` may have come out either way) and the generation.
`json` is the file that the playbook tests for when there is no
DeployIdentifier; `exists` the registered result, which is looked up again in
each step.  `GenerateConfig` uses container-puppet.py as `ConfigGeneration`
specifies it.  `fact` is `host_container_puppet_tasks`, which is appended to
and never reset in a playbook.

### ContainerPuppet

`job[v]` is the worker's call of `mp_puppet_config` for volume v with its
container: `at` is where it is, from the queue of the pool through pulls and
runs to the script's lines; `fs` is what puppet wrote in the container, which
survives into the next attempt because a retry is `start -a` of the same
container; `newer` the files newer than `origin_of_time`, which each attempt
touches anew; `kept` the exclude list of rsync.  `tree` and `sum` are the two
archives and checksum files.  `OpenSum` and `WriteSum` are apart because the
shell truncates the file when the pipeline starts; either may fail.  The
pipeline has no pipefail, so that a tar which breaks off leaves the checksum of
what it got to (`Sums`, of the sets in `BrokenOff`), and nobody notices.  (Left
out is that awk, when it fails with exit status 2, passes for puppet's success.)
The parent collects,
salts one startup file per step, of which one may not be writable
(`HashedFails`), and exits.  `Raise` is an exception in a worker: for a
privileged volume the code calls `push` on a list, and null volumes cannot be
gone through (`Privileged` has both).  It ends the parent before the salting but
not the containers that run.  `PaunchApply`
recreates a container whose salt changed; `Reboot` restarts all with what they
mount now.

A file's content is the version of the parameters it was rendered from, a
checksum the content it was computed from.

### StatedirOwnership

Three kinds of ids are told apart: the host's nova, the containers' nova, and
others (root, qemu).  `Look` is the stat of `PathManager`, `Chown` the rest of
the visit with the owner seen before: only the ids that differ from it are
changed, an error is logged (`refused`), a directory that is gone raises.
`walk[h].todo` is what has been listed and not visited, a set, because the
order of a listing is anybody's guess.  `Parent` says where an object is found,
so that a shared instances/ directory has several parents.  The new nova of a
host creates, removes and hands over files while other hosts still walk.

`container` says whether the script's container is of the current identifier of
the deployment, of an earlier one (`Redeploy`), or not there: `Launch` needs one
that is not current, and a playbook repeated with its identifier goes on without
a walk (`SkipWalk`), which `skipped` remembers if the marker is still there.  The
old service is stopped and not disabled, so that a `Restart` of its host brings
it back; the removal of the package (`RemovePackage`) stops it for good.  That
removal ignores its errors, and a restart may come later than the first walk of
a host: then an old nova would write behind the walk, and this is left out.

### ServiceConfigs

The two loops before the processes.  `taken` counts the entries of
container-puppet.json that the first loop has been through: it passes over one
(`Skip`), begins a volume with it (`Add`: the service becomes the
configuration), or joins it to a volume that has one (`Join`: tags, manifest and
volumes, but neither image nor privileges).  `MapProcesses` is the second loop,
which puts the default tags in front.  Joined texts are the sequences of their
parts, None formatted into a text included, because only `None` and the empty
text decide anything; joined manifests and volumes are the sequence of the
entries that they are from.  An entry may be a map or a list, and its volumes
absent, null, empty or there.  A list that is too short, and volumes joined to
none, end the loop with a traceback (`Die`), and no volume is configured.

### ComputeStartup

`pc[h]` is the place in the two scripts, `left[h]` the count that
`iterations_endpoint` and then `iterations` has, `tries[h]` the `for` loop of the
discovery.  A script calls (`Call`), is in `waits`, and gets the answer that it
waits for, another or an exception (`NoAnswer`), or none ever, for no call has a
timeout.  A host that gives up in step 4 has "stopped", one that does in step 5
has "failed".  `Step5` is the barrier of the deployment (`DeploySteps` proves it).
`Manage` maps one host at a time and fails on one that another run has mapped
meanwhile, as nova-manage does.

### ClusterUpdate

The update tasks of the play "Run update" on `at`, the host it works on.  The
shell's two loops over VIPS_TO_MOVE are `MoveVip` and `UnbanVip`, one virtual IP
at a time, in any order; the shell has no `set -e`, so that only the last
command decides on its status, and may die at any point (`ShellDies`).  Every
other task succeeds or fails, where its effect may have happened or not
(`StopCluster`, `StartCluster`, `RemovePrevious`).  A failure ends the play
(`Ends`), which the operator begins again.  Pacemaker is external: `Placed` says
where a virtual IP may be started, `INFINITY` stickiness keeps it, and `Join`
starts the replica of a host that is in the cluster, whenever it gets to it.
Nothing waits for this (the TODO in mysql-pacemaker-puppet.yaml says so), so the
play may be hosts ahead.

### CtlplaneNetwork, UndercloudPost

One action per call of the scripts, with the lookups before it, and failures
at each of them; the control between two calls is part of the one before.
`conf.rev` is the revision of all the values that the configuration has; what was
created or updated carries the revision it was given.  Of neutron are kept the rules for subnets
and segments, of mistral that it refuses to create what exists and to delete a
workflow with triggers.  The user has two workbooks, one of them with a name
that begins with tripleo, their workflows and triggers, and may have a trigger
for a workflow of the installation, too (`Subscribe`): the script tells workbooks
by their names and workflows by their tag.  Whether there is a public key, and
whether neutron's API is enabled, are part of the configuration.  A subnet keeps
its cidr and physical network; a change of either, with which the lookups of the
script find nothing, is left out.  The modules share nothing: `Undercloud` runs the one or
the other, chosen at the start.

### PlanRendering, NicConfigTools

A path in `PlanRendering` is a directory and a name of prefix and stem, which
is what decides on what is rendered; a file's content is the revision of the
roles and networks it was rendered from.  `NextEntry` takes the entries in the
order in which `os.walk` lists the tree, which is any of `Walks`; `Jobs` are the
outputs of one entry, which `Visit` makes one by one.  A network that is
disabled is an output of its own kind, which is skipped: the rendering does not
make it, and the cleaning deletes it.

A file in `NicConfigTools` has the style of its network resource, its
parameters, and per kind of place the form that a comment there has: a
comment, a key that the tool made of it, or that key as YAML has dumped it.
`tool` and `pc` are the tool and its next step; each step may be the last
(`Kill`).  One that writes may be killed at any point of it: the dump goes through
a buffer into a file that was emptied, and what is left is no YAML (`torn`), or
its first parts, or of the parameters only some (`Cuts`).  `kills.cut` remembers
which files.  The backup's name is `stamp`, a second of `clock`.  `PlanTools` runs
the one or the other.

### TemplateValidation, ServiceChecks

`TemplateValidation` has the order of the checks of each kind of file, what is
collected of a file that fails one, the comparison of endpoint maps and of
parameters, and how `exit_val` and `failed_files` come about; what a check
looks at is whether the file fails it.  What the checks raise is caught and
counts as a failure; what comes after them, and the two comparisons, are not in
a try: `Break`, `EndpointsRaise` and `CompareRaise` end the program with a
traceback.  The endpoint maps are counted, and a copy of an environment
(`Copies`) counts as one.

The developer knows what was printed and nothing else.  After a run with a list,
`Repair` removes from each file in it what the run has `Printed` about it, gives a
parameter on which files disagree one definition in these, and an environment the
endpoints of the base; what an earlier failure has hidden stays, and so do files
that are not listed.  After a traceback only what raised is mended:
`MendTemplate` the file that was being validated, `MendMaps` and
`MendDefinitions` the maps and definitions without a value, since the traceback
of a comparison names no file.

`ServiceChecks` has the comparison of roles, the recursive search for uses of
mysql, the check of the upgrade tasks' order, through nested concatenations and
with conditions that are lists or strings, and, line by line (`ScanLine`), the
scan for duplicate conditions.  A list of services is a bag; what `read_all` comes to is the least
set that its recursion leads through.

### EndpointMap, EnvironmentGenerator

In `EndpointMap` a user edits `data`, builds the template, is interrupted while
it is written (`BuildKilled`), or has it checked; `status` is the exit status, 3
while there is none.  The template is an operator on the data (`Template`): the
default map by its keys, the outputs by their names.  A name is the sequence
of its words, so that Heat with the variant Cfn is HeatCfn: where a later
service has that name too, its outputs replace those of the variant
(`Outputs`).

In `EnvironmentGenerator` `pending` is the stack of the recursion: the calls of
`_generate_environment` to come, each with its path through the definition and
the environment it inherits from.  `Write` is one call; its children go to the
front.  `Raise` is the RuntimeError over a parameter that its file does not
define, which ends the program with the files written so far.  `done` keeps the
paths of those that were written, for the properties.

`MCAlgorithms` runs one of these two, `ServiceConfigs` or `ServiceChecks`, and
leaves the others alone.

## What is checked

Every run finishes in less than four minutes.  Runs with a `CHECK_DEADLOCK
FALSE` are of programs that end.

| run | instance | shows |
|---|---|---|
| `ds_redeploy` | 2 hosts, 2 steps, 2 versions | order across hosts; contents of the hosts over any sequence of playbooks; rolling updates; implements `StepwiseDeployment`; a playbook ends |
| `cp_one` | 1 volume, ordinary and password file, 1 container in the second of 2 steps, archives that break off at once, 2 versions, 2 pulls and 2 attempts | generation, salting, restart, passwords, end |
| `cp_pool` | 2 volumes, 2 workers, one of which raises | workers side by side; implements `ConfigGeneration` |
| `sd_walk` | 2 hosts, shared instances/, one disk, identifiers old and new | migration and protection of foreign files |
| `cs_hosts` | 3 hosts, 3 iterations, 2 tries, calls that never return | a host that succeeds is mapped; the steps keep their order; every host ends if the calls return |
| `cl_reruns` | 4 hosts, 2 virtual IPs, 2 failures, 2 images | the services survive repeated updates; an update that ends is complete |
| `uc_reruns` | 3 subnets (2 IPv6), 2 workbooks and 2 of the user's, 3 flavors, 2 failures, 2 changes | no call refused; in force when done; the user's kept; runs converge |
| `pl_reruns` | 2 roles, 2 networks, 2 orders of the walk; 2 NIC files, 2 kills | rendering and cleaning; backups, parameters, repair |
| `yv_rounds` | 8 files of 5 kinds, 324 trees, up to 6 lists counted | status 0 is deserved; five lists suffice; validation converges |
| `al_cases` | every input of bounded sets, up to 4 entries, 2 services, 3 levels, 8 lines | merging of services, endpoints built and checked, environments, four kinds of checks |

Runs that TLC refutes, each for a statement of the repository that the code
does not keep (quoted in PROJECT.json "findings"):

| run | statement |
|---|---|
| `cp_retry` | what puppet modified is in puppet-generated: not after a retry |
| `uc_router` | a subnet's gateway is served by a router: not if the run fails between the creation of the IPv6 subnet and its router |

### Known not to hold

Plain from the code and from the models, and excepted by the properties where
they would meet it:

* the bootstrap tasks of a step run again in every later step of the playbook
  (`Calculated`; the fact is never reset);
* a first deployment without a DeployIdentifier runs the common tasks in step 1
  only;
* a container that mounts a path deeper in a tree has no salt for it;
* a password file is missing from puppet-generated after an attempt that died
  between the two copies and a retry;
* the checksum of an archive that broke off misses the files it did not get to: a
  container is not restarted for a change in these, which `AppliedIsCurrent`
  excepts and `SaltIsTruthful` speaks of;
* a chown that fails in the walk of the nova state directory is logged, and the
  marker removed;
* a playbook repeated with its identifier after the walk has failed starts
  nova_compute on a tree with old owners.  The marker is still there, and the
  next deployment with a new identifier finishes the walk (`Migrated`), but
  beside a running nova (`ForeignKept` excepts it);
* a placement that takes a connection and never answers stops a host for ever, and
  with it the others at the end of the step: the request has no timeout
  (`EveryHostEnds` is about calls that return);
* after a failed cluster update a rerun stops the first host while the one that
  failed is still out: two of three replicas, hence the fourth host in
  `cl_reruns` and the bound in `ServicesSurvive`;
* nothing waits for a replica that pacemaker has still to start, so any number of
  these may be out on top: `ServicesSurvive` bounds only those that do not come
  back by themselves;
* an undercloud flavor that was created without specs never gets them;
* a user's workbook named tripleo*, and a user's trigger on a workflow of the
  installation, are deleted (which is meant; `MineKept` is about the rest);
* rendering a tree that has rendered files into an output directory may copy
  the old ones over the new; cleaning misses the `external_resource_*_v6`
  files, and stops at an empty file of networks, which the rendering accepts;
* an endpoint map in a second file of the name of an environment makes one too
  many: every run of the validation fails, with an empty list;
* the checks of templates miss a use of mysql behind a second include, a duplicate
  condition behind a dash, and upgrade tasks in the first list of a
  concatenation or with their conditions in one string (`ChecksRight` is about
  the rest);
* if parameters are put back to an earlier value after a run that was aborted,
  and the host reboots in between, a container may run with the configuration
  of the aborted run under a salt that matches again.  In `ContainerPuppet` each
  version is a new one, so that `AppliedIsCurrent` does not speak of this;
* the comment above the retry loop of `mp_puppet_config` speaks of 5 runs, the
  loop makes 3 (not checked: it is the text of a comment).

### Bounds and why they are enough

* `MaxVersion`, `MaxRevs` bound the changes of parameters, images and
  configurations.  The properties compare equal with different versions; two
  show a stale one, three in `uc_reruns` one that was skipped.
* `MaxStep` is 2 where the code has 5.  The plays of the steps are identical
  but for step 1; two steps tell the first from a later one.  The proofs are
  for any number.
* Two hosts in `ds_redeploy`: barrier, containment and rolling update relate
  pairs of hosts.  The proofs are for any number, also in `ComputeStartup`.
* Two volumes and two workers: volumes only share the pool and the exit
  status.  The limits of the retries are those of the code in `cp_retry` and
  smaller elsewhere: what a second attempt meets, a third meets too.
* One shared directory with one file: walks relate a directory or a file to
  two hosts.
* `MaxFaults`, `MaxKills`: two, so that a rerun after a failure fails too.  In
  `ClusterUpdate` only failures that can cost the cluster a host count.
* `MaxRounds` is 6, one more than the lists that `FiveRoundsSuffice` allows; it ends
  the counting and nothing else.  The trees of `yv_rounds` are products of what
  each kind of file may have wrong, failures behind failures among them.
* `BrokenOff` has the archive of no file, which is the checksum that differs most.
* `MaxTime` is 1, which makes two seconds: backups of the same and of another.
* The inputs of `MCAlgorithms` are sequences of up to four entries over sets
  that have each kind of entry the data has, and combinations that it does not:
  every branch of the loops is taken, and every pair of branches after each
  other.  The proofs are for inputs of any length.

`sd_walk` uses the symmetry of the two hosts, swapped with their state
directories: `Top`, `Parent` and `Tree` stay what they are, and the run has no
liveness property.  No other run uses symmetry.

### Fairness

`ContainerPuppet` assumes weak fairness of `Work`, `DeploySteps` of `Ansible`:
a container, a pull and a task return in the end.  This is what the code
relies on, since neither `subprocess.communicate` nor an Ansible task has a
timeout there.  `ComputeStartup` assumes it of each host's script and of the
next step; of nova_compute's registration nothing, and of the calls nothing
either: that each returns, whatever it returns, is the premise of
`EveryHostEnds`.  `Undercloud` assumes that
a script's calls return and that a script which failed is run again, which an
installation does each time; failures are bounded, so convergence says that
calls which stop failing are enough.  `TemplateValidation` assumes that the
validation is run again and what it prints acted on.  Nothing is assumed of the
operator elsewhere, of reboots or of interrupts, and `ClusterUpdate`,
`StatedirOwnership` and `PlanTools` state no liveness.

## What is proved

Every safety property of the runs that pass, invariant or action property, is a
theorem; so are the safety parts of both refinements.  A run shows a property on
one instance, the theorem for all values of the constants that these assumptions
allow, which TLC evaluates:

* `DeployAssumption` (DeploySteps), `ConstantsAssumption` (ContainerPuppet),
  `BoundAssumption` (ComputeStartup), `SizeAssumption` (ClusterUpdate): numbers
  are positive, functions have the domains that their names say, `None` is none
  of the contents;
* `TreeAssumption` and `ShareAssumption` (StatedirOwnership): a host finds what is
  below its state directory, all of it and nothing else, and what has more than
  one parent is directly in the state directories, which is how instances/ is
  mounted;
* `SubnetAssumption`, `ProfileAssumption`, `BookAssumption` (Undercloud): the local
  subnet is a subnet, the flavors are a list, the user's workbooks are none of
  the installation's;
* `FileAssumption` (TemplateValidation): the base endpoint map, the environments,
  their copies and the task files are different files, and the developer settles
  on definitions and endpoints that are some;
* `ServiceAssumption` (ServiceConfigs), `DefinitionAssumption`
  (EnvironmentGenerator), `RoleAssumption`, `ServiceCaseAssumption`,
  `TaskAssumption` (ServiceChecks): the inputs are sequences and records of the
  shape that the code reads; `IncludeAssumption`, that no template includes
  itself; `LineAssumption`, that a task begins with a dash;
* `ConfigAssumption` (EndpointMap): what endpoint_data.yaml keeps to, that a service
  is there once, and that a name given to an output is given once in its
  service and does not end in a type;
* `WalkAssumption`, `DataAssumption`, `TemplateAssumption`, `SourceAssumption`,
  `NicAssumption` (PlanTools): the kinds of entries; the templates per role and
  network that the repository has; and that a source file has the name of a
  rendered one only where it is excluded, which is what j2_excludes.yaml is for.

### Deployment (`DeploySteps_proofs`)

`OrderInv` is about positions, and gives `TypeCorrect`, `Barrier`, `Contained`
and `InStep` (`HostsInStep`).  None of these is inductive: that no host is a step
ahead follows from `Together` (two hosts of a play are at most one task apart)
and `ExternalAhead` (no host is in a step whose external part is not done), and
`IdleIsClean` gives both at the start of the next playbook.

`ContentsInv` is about what lies on the hosts behind each position, and gives
`Consistent`, `Complete`, `Bootstrapped` and `RollsOneByOne`.
`ContainersConsistent` needs to know that the files that a host starts
containers from are of one version, and not mixed: `Generated` says so for a host
past their writing and past the generation, `SkipsJson` covers one that skips the
common tasks, whose containers must then not be touched.  `ContainersAsWanted` and
`TasksRan` say what has happened by a position, `TasksInOrder` that no host is
behind bootstrap tasks that ran.  The invariant is split into a part per host (`HostInv`), with a lemma
per task.

`Refinement`: every behaviour is one of `StepwiseDeployment` under the mapping of
positions to entered and completed steps.

### Configuration generation (`ContainerPuppet_proofs`)

`TypeCorrect`, `ExitZero` (which is about config-data: for puppet-generated it
does not hold, see `RetryGenerates`), `SaltTruthful`, `AppliedCurrent`,
`PasswordsKept` and `Refinement` (the safety part of `ImplementsGeneration`), for
any archives that break off.  The invariant says, per
volume, what follows from the place of its job (`ScriptInv`): behind puppet its
container has the wanted version, behind the first copy config-data has it, and
behind the first checksum that checksum covers it, as far as tar got; a job that
reports success has both trees with such checksums (`OkInv`).  The parent salts when all jobs have
ended (`ParentInv`).  Two parts are about what no property mentions.  `KeptInv`: a
password in puppet-generated is in config-data too, and what the exclude list
lacks has not been archived in either, without which a retry could replace one.
`NothingNewer` and `LoadedBetween`: versions only grow, so that what a container has
loaded is between its salt and the tree, also after reboots, and is exactly that
where salt and tree agree.

`ServicesAreMerged`, of the loops before, which also says that they die of a short
list or of volumes joined to none, and of nothing else: in `MergeInv` every volume has so far
exactly the manifests and volumes of its services among the entries taken, in
ascending order, and the image of the first (`Configured`, `AllHalfway`).  Of the
tags the property is not inductive, since what joining adds depends on what
there is so far: `Halfway` says when they can still be None, and that "None" is
among them only behind a first service without tags.

### Nova state directory (`StatedirOwnership_proofs`)

`AllMigrated`, `ForeignStays` and `TypeCorrect`, for any trees and hosts.  The
list of a walk changes as other hosts' novas create and remove objects, so the
invariant is about what the list leads to: `Reach` is the least set with the list
and, of each directory in it, the content, and `HostClean` says that while an
upgrading walk is under way everything old on the host is in it.  `VisitInv` has the
staleness of an owner between look and chown, which goes one way: what was seen
with an id that is not the old one has not got the old one since, and a file seen
with an old one is not qemu's.  `PhaseInv` is why: as long as a host is before the
upgrade, no container has been made on any, so that none walks or is behind it.
A host behind it has the marker or is clean; one that has gone on with the marker
was passed by (`skipped`).

### Start of nova-compute (`ComputeStartup_proofs`)

`StartupTypes`, `Mapped` and `InOrder`.  That a started host is mapped is not
inductive: a run of nova-manage may have nothing to do because others have
mapped its host.  `FoundRegistered` says that a host which is managing is among
what it has found, or mapped already.  `InOrder` has the barrier: once a host is in step 5
or mapped (`Begun`), all are in step 5 (`Late`), with none left that waits for
placement, has come through alone or has given up in step 4.

### Cluster update (`ClusterUpdate_proofs`)

`Updated`: in a play that has not failed the hosts before the one at work are
through, with the wanted image, whose replicas run or are pacemaker's to start;
the image is there when the cluster is started; and only between plays there is a
result, which a new image makes void (`PlayInv`).  `Survives`, that failures cost
the services a host each: `ServeInv` counts the hosts without a replica that
pacemaker would start by itself (`Out`), and per virtual IP those that may not
have it, without the host that the play has taken out on purpose (`Away`,
`Passing`), against the failures.

### Undercloud (`Undercloud_proofs`)

`NoneRefused`, `DoneInForce` and `MineStays`, for any subnets, workbooks and
flavors.  Of the network: neutron has nothing remote before the local subnet has
its segment (`SegmentsInv`), and whatever the run is past is in force (`RunInv`).
Of mistral: triggers have their workflows, the user's own included, and what is
created without a look is not there (`MistralInv`, `PlaceInv`); `MineStays` is about
what has neither the name nor the tag.  Both hold with anything that an aborted run
of an older configuration has left.

### Plan tools (`PlanTools_proofs`)

Rendering: `RendersCurrent`, `CleansRendered` and `Protects`.  In `PlanInv` every
output that is wanted is current already or to be made of an entry or job that is
left (`Pending`), and a copied file is a source, since the tree has no others;
what is to be cleaned is gone or among the files of a network or role that is
left; `OutputsListed` is the comparison of the cleaning's list with the templates
of the repository.  `Protects` follows from single steps.  `RendersCurrent` is
about trees without rendered files where there is an output directory, and not
about paths with a source file in place of a rendered one.

NIC configurations: `OriginalStays`, `ParametersStay` and `MergesRepair`.  In
`NicInv` the original is in a backup from the backup on (`SavedInv`), which covers a
file that an earlier run has left in any form; a file has all its parameters, or
was cut and has a backup with all of them (`Safe`); between the merge and the last
step of a run the file has what its backup of this run had, with no keys but
those that YAML has written (`MergingInv`), and after it the comments
(`MergedInv`).

### Template validation (`TemplateValidation_proofs`)

`ZeroClean` and `FiveRounds`, for any tree.  What a run knows is so of the files
that it has visited (`RunInv`).  `LevelInv` says what each list settles for good:
that the files parse and lie where they may (`One`); the versions, and the
endpoint maps that are missing (`Two`); what the checks raise, and the endpoints
(`Three`); the checks, now that all are made, and the parameters, now that all
are collected (`Four`); the old nic configurations, which are only looked for in
files that pass everything else (`Five`).  There is no sixth list, for then
nothing is wrong that a list could show (`NothingListed`).  Runs that end in a
traceback lie between and undo none of it.

The same module has the theorems about the generators and the checks:

* `EndpointsAreRight`.  `MapInv` is short: exit status 0 goes with the template of
  the data.  What takes proving is that template: that a key of the default map
  has one endpoint (`Key` is injective on services and types), that an output's
  name has one variant in a service whether composed or given, and that of the
  services with one name there is a last.
* `EnvironmentsAreRight`.  `GenInv` is about the stack: each call inherits what its
  path makes effective (`Waiting`); what is done is before what is pending, and
  the pending paths part at siblings in their order (`InTurn`), which is what
  keeps the children of one before the next; the files are those of the last
  done of each name (`Filed`), and none is lost between the lists and the stack
  (`Reached`).
* `ChecksAreRight`.  For the scan, `Scanned` relates the count to the lines read:
  it is 1 exactly if there is a condition with no dash since, and two have not
  been met.  The search for mysql compares two least sets: what is followed is
  included (`FollowedIncluded`), and is all that is included where there is one
  include at most.  The comparison of roles is arithmetic on bags.

`Least` and `Greatest`, that a set of numbers has a least member and a bounded one
a greatest, come from the library's theorem on well-founded relations, and
stand in for inductions over numbers.

### Only model-checked

* Liveness, which is outside the prover's reach: `PlaybookEnds`, `RunEnds`,
  `EveryHostEnds`, `BothConverge`, `Converges`, and the fairness part of
  `ImplementsGeneration`.
* What TLC refutes: `RetryGenerates` and `RoutersServe`.

## What is not modelled

* Check mode, debug output, ownership and SELinux labels of the files written.
* The plays before step 1 and after the last (server deployments, host
  preparation, post deployments): a failure there ends the playbook like
  one in a step, and they do not touch what the model has.
* In `DeploySteps` reboots of hosts: they are in `ContainerPuppet`, where the
  containers' view of the configuration is.
* A rerun of container-puppet.py while a container of an aborted run is still
  at work.  A rerun is started by an operator; the model lets it wait.
* Runs of container-puppet.py without archiving (NO_ARCHIVE): these are the
  bootstrap tasks, which appear in `DeploySteps`.
* In `StatedirOwnership` symbolic links, hosts where the ids of both novas are the
  same, where the walk has nothing to do for files, and a restart of a host that
  still has the old service after the first walk of any.
* In `ClusterUpdate` the quorum of the database, and the synchronisation of a
  replica that has been started with the others.
* In `TemplateValidation` what the checks of a single file look at, but for
  those in `ServiceChecks`.  Of those that compare roles there it has
  `CompareRole`; the subset of the compute roles and their twin of another
  architecture are tests of sets.
* The upgrade and fast-forward playbooks: their plays are `DeploySteps`' with
  other steps, their tasks are in some 150 service templates.
* `hosts-config.sh`, `run-os-net-config.sh`, `undercloud_post.sh`,
  `clouds_yaml.py`, `roles-data-generate.py`: text and file editing, of which a
  model would keep nothing.
* Instance HA's wait and the scripts of deployed servers: polling loops without
  state of their own, of which nothing could be said but that they end when what
  they wait for comes.  (One of them does not: the loop at line 108 of
  `deployed-server/scripts/get-occ-config.sh` tests a status that its body never
  sets again.)
* Service templates, environments, roles, networks and samples: data.

## Plan

1. The play of the fast-forward upgrade with its per-host workaround and guard
   file, in an instance of `DeploySteps`' linear strategy.
2. Runs of environment_generator.py over changed definitions, whose files of
   environments that are gone stay.
