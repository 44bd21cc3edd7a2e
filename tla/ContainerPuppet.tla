-------------------------- MODULE ContainerPuppet --------------------------
(***************************************************************************)
(* docker/container-puppet.py on one host: the pool of workers that run    *)
(* puppet in a container for each config volume, the script inside that    *)
(* container which archives what puppet wrote and checksums it, and the    *)
(* startup configurations the parent salts with those checksums.  The      *)
(* consumer is here too: paunch starts the containers of each step from    *)
(* the salted files (common/deploy-steps-tasks.yaml).                      *)
(*                                                                         *)
(* A file's content is the version of the deployment's parameters it was   *)
(* rendered from, 0 meaning that the file is not there.  A checksum is     *)
(* collision free, so it is modelled by the content it was computed from;  *)
(* that of an archive that broke off has 0 for the files that are missing. *)
(***************************************************************************)
EXTENDS Integers, FiniteSets

CONSTANTS
  Volumes,        \* the config_volume names left after merging the services
  Files,          \* the files a volume's manifest manages
  PasswordFiles,  \* those of them in password_files (/root/.my.cnf)
  Privileged,     \* Privileged[n]: the volumes whose worker raises in version n: it has no push for
                  \* privileged: true, and null is no list of volumes to go through
  Startup,        \* the containers of the startup configurations
  StepOf,         \* StepOf[c]: the step whose startup file lists container c
  Mounted,        \* Mounted[c]: the trees <<volume, kind>> that c mounts
  Matched,        \* Matched[c]: those with a checksum beside the mount's dirname
  ProcessCount,   \* size of the worker pool
  BrokenOff,      \* the sets of files an archive for the checksum can break off after
  PullLimit,      \* 5 in pull_image
  RunLimit,       \* 3 in mp_puppet_config
  MaxStep,        \* deploy_steps_max - 1
  MaxVersion,     \* BOUND on the number of parameter changes
  None            \* no checksum, no file, no exit status yet

Kinds   == {"data", "generated"}   \* config-data/NAME, config-data/puppet-generated/NAME
Trees   == Volumes \X Kinds
Steps   == 1 .. MaxStep
Content == [Files -> 0 .. MaxVersion]
NoFiles == [f \in Files |-> 0]

ASSUME ConstantsAssumption ==
  /\ PasswordFiles \subseteq Files
  /\ Privileged \in [1 .. MaxVersion -> SUBSET Volumes]
  /\ ProcessCount \in Nat \ {0} /\ PullLimit \in Nat \ {0} /\ RunLimit \in Nat \ {0}
  /\ MaxStep \in Nat \ {0} /\ MaxVersion \in Nat \ {0}
  /\ BrokenOff \subseteq SUBSET Files
  /\ StepOf \in [Startup -> Steps]
  /\ Mounted \in [Startup -> SUBSET Trees]
  /\ Matched \in [Startup -> SUBSET Trees]
  /\ \A c \in Startup : Matched[c] \subseteq Mounted[c]
  /\ None \notin Content /\ None \notin {0, 1}

VARIABLES
  wanted,   \* the version of the parameters the hieradata renders
  phase,    \* where the host is: idle, pool, salt (hash the startup files), up (paunch)
  exit,     \* exit status of the latest container-puppet.py, None until there is one
  job,      \* per volume, the worker's call of mp_puppet_config and its container
  images,   \* volumes whose image is in the local store
  tree,     \* the archived configuration on the host, per volume and kind
  sum,      \* the md5sum file beside each tree
  unsalted, \* the startup files the parent has still to rewrite
  hashed,   \* per container, the salt in hashed-<startup file>
  running,  \* per container, the salt it was created with and the configuration it loaded
  upto      \* the last step whose containers paunch has applied since exit 0

vars == <<wanted, phase, exit, job, images, tree, sum, unsalted, hashed, running, upto>>

Scripting == {"puppet", "exclude", "sync", "gather", "sumopen", "sumwrite", "gsumopen", "gsumwrite"}
JobStates == {"queued", "pull", "run"} \cup Scripting \cup {"ended", "raised", "gone"}
Job == [at : JobStates, pulls : 0 .. PullLimit, tries : 0 .. RunLimit,
        made : BOOLEAN, fs : Content, newer : SUBSET Files, kept : SUBSET Files,
        ok : BOOLEAN]
NewJob == [at |-> "queued", pulls |-> 0, tries |-> 0, made |-> FALSE, fs |-> NoFiles,
           newer |-> {}, kept |-> {}, ok |-> FALSE]

Gone   == [NewJob EXCEPT !.at = "gone"]

Idle(v)  == job[v].at \in {"ended", "raised", "gone"}
Busy(v)  == job[v].at \in {"pull", "run"} \cup Scripting

\* match_config_volumes and get_config_hash: the salt of a container is the
\* checksums of the trees it mounts, the missing ones left out.
Salt(c) == [m \in Matched[c] |-> sum[m]]

Init ==
  /\ wanted = 1
  /\ phase = "idle"
  /\ exit = None
  /\ job = [v \in Volumes |-> Gone]
  /\ images = {}
  /\ tree = [t \in Trees |-> NoFiles]
  /\ sum = [t \in Trees |-> None]
  /\ unsalted = {}
  /\ hashed = [c \in Startup |-> None]
  /\ running = [c \in Startup |-> None]
  /\ upto = 0

(***************************************************************************)
(* The parent process                                                      *)
(***************************************************************************)

\* The operator changes the parameters of the deployment between two runs.  Each version is a
\* new one: that a container has what its salt says (AppliedIsCurrent) supposes that parameters
\* do not come back to an earlier value after a run that was aborted.
ChangeParameters ==
  /\ phase = "idle"
  /\ \A v \in Volumes : Idle(v)
  /\ wanted < MaxVersion
  /\ wanted' = wanted + 1
  /\ exit' = None
  /\ upto' = 0
  /\ UNCHANGED <<phase, job, images, tree, sum, unsalted, hashed, running>>

\* Step 1 of the playbook calls the script; one job per volume goes to the pool.
\* No container of an earlier, aborted run is still at work (a rerun is human-paced).
Launch ==
  /\ phase = "idle"
  /\ \A v \in Volumes : Idle(v)
  /\ phase' = "pool"
  /\ exit' = None
  /\ upto' = 0
  /\ job' = [v \in Volumes |-> NewJob]
  /\ UNCHANGED <<wanted, images, tree, sum, unsalted, hashed, running>>

\* Pool.map has every return code: decide the exit status, then salt the startup
\* files whatever it is.
Collect ==
  /\ phase = "pool"
  /\ \A v \in Volumes : job[v].at = "ended"
  /\ phase' = "salt"
  /\ unsalted' = {StepOf[c] : c \in Startup}
  /\ UNCHANGED <<wanted, exit, job, images, tree, sum, hashed, running, upto>>

\* MUTANT of Raise: the exception is logged and taken for a success.
RaiseIsSuccess ==
  /\ phase = "pool"
  /\ \E v \in Volumes : job[v].at = "raised"
  /\ phase' = "idle"
  /\ exit' = 0
  /\ job' = [v \in Volumes |-> IF job[v].at \in Scripting THEN job[v] ELSE Gone]
  /\ UNCHANGED <<wanted, images, tree, sum, unsalted, hashed, running, upto>>

\* A worker raised, Pool.map raises in the parent, which ends with a traceback
\* before any startup file is salted.  The containers already started go on.
Raise ==
  /\ phase = "pool"
  /\ \E v \in Volumes : job[v].at = "raised"
  /\ phase' = "idle"
  /\ exit' = 1
  /\ job' = [v \in Volumes |-> IF job[v].at \in Scripting THEN job[v] ELSE Gone]
  /\ UNCHANGED <<wanted, images, tree, sum, unsalted, hashed, running, upto>>

\* MUTANT of WriteHashed: a file that exists is left alone, as sh_script is.
WriteHashedOnce(s) ==
  /\ phase = "salt"
  /\ s \in unsalted
  /\ hashed' = [c \in Startup |-> IF StepOf[c] = s /\ hashed[c] = None THEN Salt(c) ELSE hashed[c]]
  /\ unsalted' = unsalted \ {s}
  /\ UNCHANGED <<wanted, phase, exit, job, images, tree, sum, running, upto>>

\* Rewrite one hashed-*.json file: all the containers of one step.
WriteHashed(s) ==
  /\ phase = "salt"
  /\ s \in unsalted
  /\ hashed' = [c \in Startup |-> IF StepOf[c] = s THEN Salt(c) ELSE hashed[c]]
  /\ unsalted' = unsalted \ {s}
  /\ UNCHANGED <<wanted, phase, exit, job, images, tree, sum, running, upto>>

\* One of them cannot be written, which opening it has emptied: the script ends with a
\* traceback and leaves the others as they are.
HashedFails(s) ==
  /\ phase = "salt"
  /\ s \in unsalted
  /\ hashed' = [c \in Startup |-> IF StepOf[c] = s THEN None ELSE hashed[c]]
  /\ unsalted' = {}
  /\ phase' = "idle"
  /\ exit' = 1
  /\ UNCHANGED <<wanted, job, images, tree, sum, running, upto>>

\* MUTANT of Exit: success is never set to False.
ExitAlwaysZero ==
  /\ phase = "salt"
  /\ unsalted = {}
  /\ exit' = 0
  /\ phase' = "up"
  /\ UNCHANGED <<wanted, job, images, tree, sum, unsalted, hashed, running, upto>>

\* sys.exit(1) when a volume failed.  On 0 the play goes on to start containers.
Exit ==
  /\ phase = "salt"
  /\ unsalted = {}
  /\ IF \A v \in Volumes : job[v].ok
       THEN exit' = 0 /\ phase' = "up"
       ELSE exit' = 1 /\ phase' = "idle"
  /\ UNCHANGED <<wanted, job, images, tree, sum, unsalted, hashed, running, upto>>

(***************************************************************************)
(* A worker: mp_puppet_config                                              *)
(***************************************************************************)

Start(v) ==
  /\ phase = "pool"
  /\ job[v].at = "queued"
  /\ Cardinality({w \in Volumes : Busy(w)}) < ProcessCount
  /\ job' = [job EXCEPT ![v].at = "pull"]
  /\ UNCHANGED <<wanted, phase, exit, images, tree, sum, unsalted, hashed, running, upto>>

\* pull_image: nothing to do for a local image; else one more pull, whose failure
\* is only logged once the attempts are used up.
PullImage(v) ==
  /\ job[v].at = "pull"
  /\ \/ /\ v \in images \/ job[v].pulls = PullLimit
        /\ job' = [job EXCEPT ![v].pulls = 0,
                              ![v].at = IF v \in Privileged[wanted] THEN "raised" ELSE "run"]
        /\ UNCHANGED images
     \/ /\ v \notin images /\ job[v].pulls < PullLimit
        /\ job' = [job EXCEPT ![v].pulls = @ + 1]
        /\ images' \in {images, images \cup {v}}
  /\ UNCHANGED <<wanted, phase, exit, tree, sum, unsalted, hashed, running, upto>>

\* MUTANTS of AfterFailure: the loop has no bound; the count is lost at each failure.
AfterFailureForever(j) ==
  IF phase # "pool" THEN Gone ELSE [j EXCEPT !.at = "run", !.newer = {}, !.kept = {}]
AfterFailureUncounted(j) ==
  IF phase # "pool" THEN Gone
  ELSE [j EXCEPT !.at = "run", !.tries = 0, !.newer = {}, !.kept = {}]

\* The attempt failed: try again, or give the volume up after RunLimit of them.
\* Once the parent is gone nobody starts the container again.
AfterFailure(j) ==
  IF phase # "pool" THEN Gone
  ELSE [j EXCEPT !.at = IF j.tries >= RunLimit THEN "ended" ELSE "run",
                 !.newer = {}, !.kept = {}]

\* The first attempt is "run", which creates the container, or fails to.  The
\* later ones are "start -a" of that same container, if there is one: the files
\* puppet wrote in it are still there.
RunContainer(v) ==
  /\ job[v].at = "run"
  /\ \E created \in (IF job[v].tries = 0 THEN BOOLEAN ELSE {job[v].made}) :
       LET j == [job[v] EXCEPT !.tries = @ + 1, !.made = created]
       IN  job' = [job EXCEPT ![v] =
                     IF created THEN [j EXCEPT !.at = "puppet", !.newer = {}, !.kept = {}]
                                ELSE AfterFailure(j)]
  /\ UNCHANGED <<wanted, phase, exit, images, tree, sum, unsalted, hashed, running, upto>>

(***************************************************************************)
(* The script in the container                                             *)
(***************************************************************************)

\* puppet apply: writes the files that differ from the manifest, which makes them
\* newer than origin_of_time.  It may fail after having written some of them.
PuppetApply(v) ==
  /\ job[v].at = "puppet"
  /\ LET stale == {f \in Files : job[v].fs[f] # wanted}
         Wrote(W) == [job[v] EXCEPT !.fs = [f \in Files |-> IF f \in W THEN wanted ELSE @[f]],
                                    !.newer = W]
     IN  \/ job' = [job EXCEPT ![v] = [Wrote(stale) EXCEPT !.at = "exclude"]]
         \/ \E W \in SUBSET stale : job' = [job EXCEPT ![v] = AfterFailure(Wrote(W))]
  /\ UNCHANGED <<wanted, phase, exit, images, tree, sum, unsalted, hashed, running, upto>>

\* MUTANT of Exclude: the password files are archived like the others.
ExcludeNothing(v) ==
  /\ job[v].at = "exclude"
  /\ job' = [job EXCEPT ![v].at = "sync", ![v].kept = {}]
  /\ UNCHANGED <<wanted, phase, exit, images, tree, sum, unsalted, hashed, running, upto>>

\* exclude_files: a password file already archived keeps its archived content.
Exclude(v) ==
  /\ job[v].at = "exclude"
  /\ job' = [job EXCEPT ![v].at = "sync",
                        ![v].kept = {f \in PasswordFiles : job[v].fs[f] # 0 /\ tree[<<v, "data">>][f] # 0}]
  /\ UNCHANGED <<wanted, phase, exit, images, tree, sum, unsalted, hashed, running, upto>>

\* rsync of the files S to a tree: all of them, or (set -e) some and a failed attempt.
Rsync(v, kind, S, next) ==
  LET Copied(W) == [tree EXCEPT ![<<v, kind>>] = [f \in Files |-> IF f \in W THEN job[v].fs[f] ELSE @[f]]]
  IN  \/ /\ tree' = Copied(S)
         /\ job' = [job EXCEPT ![v].at = next]
      \/ \E W \in SUBSET S :
           /\ tree' = Copied(W)
           /\ job' = [job EXCEPT ![v] = AfterFailure(@)]

ArchiveData(v) ==
  /\ job[v].at = "sync"
  /\ Rsync(v, "data", Files \ job[v].kept, "gather")
  /\ UNCHANGED <<wanted, phase, exit, images, sum, unsalted, hashed, running, upto>>

\* Only what puppet modified in this run of the script is copied.
ArchiveGenerated(v) ==
  /\ job[v].at = "gather"
  /\ Rsync(v, "generated", job[v].newer \ job[v].kept, "sumopen")
  /\ UNCHANGED <<wanted, phase, exit, images, sum, unsalted, hashed, running, upto>>

\* The shell truncates the md5sum file when the pipeline starts, or cannot open it ...
OpenSum(v, kind, at, next) ==
  /\ job[v].at = at
  /\ \/ /\ sum' = [sum EXCEPT ![<<v, kind>>] = None]
        /\ job' = [job EXCEPT ![v].at = next]
     \/ /\ job' = [job EXCEPT ![v] = AfterFailure(@)]
        /\ UNCHANGED sum
  /\ UNCHANGED <<wanted, phase, exit, images, tree, unsalted, hashed, running, upto>>

\* ... and md5sum writes it at the end: the archived tree, with the container's
\* own password files in place of the archived ones.
Checksum(v, kind) ==
  [f \in Files |-> IF f \in PasswordFiles /\ job[v].fs[f] # 0 THEN job[v].fs[f] ELSE tree[<<v, kind>>][f]]

\* There is no pipefail: a tar that breaks off is not noticed, and what comes out is
\* the checksum of the files A it got to.
Sums(v, kind) ==
  {[f \in Files |-> IF f \in A THEN Checksum(v, kind)[f] ELSE 0] :
     A \in {Files} \cup BrokenOff}

WriteSum(v, kind, at, next) ==
  /\ job[v].at = at
  /\ \/ /\ \E s \in Sums(v, kind) : sum' = [sum EXCEPT ![<<v, kind>>] = s]
        /\ job' = [job EXCEPT ![v] =
             IF next # "ended"       THEN [@ EXCEPT !.at = next]
             ELSE IF phase # "pool"  THEN Gone
             ELSE [NewJob EXCEPT !.at = "ended", !.ok = TRUE, !.tries = job[v].tries]]  \* rm_container
     \/ /\ job' = [job EXCEPT ![v] = AfterFailure(@)]      \* awk cannot write it
        /\ UNCHANGED sum
  /\ UNCHANGED <<wanted, phase, exit, images, tree, unsalted, hashed, running, upto>>

Script(v) ==
  \/ PuppetApply(v)
  \/ Exclude(v)
  \/ ArchiveData(v)
  \/ ArchiveGenerated(v)
  \/ OpenSum(v, "data", "sumopen", "sumwrite")
  \/ WriteSum(v, "data", "sumwrite", "gsumopen")
  \/ OpenSum(v, "generated", "gsumopen", "gsumwrite")
  \/ WriteSum(v, "generated", "gsumwrite", "ended")

(***************************************************************************)
(* The rest of the play on this host                                       *)
(***************************************************************************)

Loaded(c) == [m \in Mounted[c] |-> tree[m]]

\* paunch apply recreates a container whose definition, salt included, changed.
Applied(C) ==
  [c \in Startup |->
     IF c \in C /\ (running[c] = None \/ running[c].salt # hashed[c])
       THEN [salt |-> hashed[c], loaded |-> Loaded(c)]
       ELSE running[c]]

PaunchApply ==
  LET C == {c \in Startup : StepOf[c] = upto + 1}
  IN  /\ phase = "up"
      /\ upto < MaxStep
      /\ \/ /\ running' = Applied(C)
            /\ upto' = upto + 1
            /\ phase' = IF upto + 1 = MaxStep THEN "idle" ELSE "up"
         \/ \E W \in SUBSET C :        \* paunch failed, or another host did
              /\ running' = Applied(W)
              /\ phase' = "idle"
              /\ UNCHANGED upto
      /\ UNCHANGED <<wanted, exit, job, images, tree, sum, unsalted, hashed>>

\* The mysql container_puppet_task, which mounts puppet-generated/mysql/root
\* read-write: it changes the database's password, using the archived one, and
\* then the archived file.
RegeneratePassword(v, p) ==
  /\ phase = "up"
  /\ p \in PasswordFiles
  /\ tree[<<v, "generated">>][p] \notin {0, wanted}
  /\ tree' = [tree EXCEPT ![<<v, "generated">>][p] = wanted]
  /\ UNCHANGED <<wanted, phase, exit, job, images, sum, unsalted, hashed, running, upto>>

\* The host goes down: the processes and the puppet containers are gone, with a startup
\* file half written if one was being, and the service containers come back and load
\* what they mount.
Reboot ==
  /\ phase' = "idle"
  /\ exit' = None
  /\ upto' = 0
  /\ job' = [v \in Volumes |-> Gone]
  /\ unsalted' = {}
  /\ running' = [c \in Startup |-> IF running[c] = None THEN None
                                   ELSE [running[c] EXCEPT !.loaded = Loaded(c)]]
  /\ \E S \in {{}} \cup {{s} : s \in unsalted} :
       hashed' = [c \in Startup |-> IF StepOf[c] \in S THEN None ELSE hashed[c]]
  /\ UNCHANGED <<wanted, images, tree, sum>>

Work ==
  \/ Collect \/ Raise \/ Exit \/ PaunchApply
  \/ \E s \in Steps : WriteHashed(s) \/ HashedFails(s)
  \/ \E v \in Volumes : Start(v) \/ PullImage(v) \/ RunContainer(v) \/ Script(v)

Next ==
  \/ ChangeParameters
  \/ Launch
  \/ Work
  \/ \E v \in Volumes, p \in PasswordFiles : RegeneratePassword(v, p)
  \/ Reboot

Spec == Init /\ [][Next]_vars /\ WF_vars(Work)

(***************************************************************************)
(* Properties                                                              *)
(***************************************************************************)

ConfigFiles == Files \ PasswordFiles

\* The shape of the state.
TypeOK ==
  /\ wanted \in 1 .. MaxVersion
  /\ phase \in {"idle", "pool", "salt", "up"}
  /\ exit \in {None, 0, 1}
  /\ job \in [Volumes -> Job]
  /\ images \subseteq Volumes
  /\ tree \in [Trees -> Content]
  /\ sum \in [Trees -> Content \cup {None}]
  /\ unsalted \subseteq Steps
  /\ \A c \in Startup : hashed[c] \in {None} \cup [Matched[c] -> Content \cup {None}]
  /\ \A c \in Startup : running[c] = None \/ running[c].loaded \in [Mounted[c] -> Content]
  /\ upto \in 0 .. MaxStep

\* Exit status 0 promises that config-data of every volume holds the configuration
\* of the parameters now in force, however many attempts, aborted runs or reboots
\* there were on the way.
ExitZeroIsCurrent ==
  exit = 0 => \A v \in Volumes, f \in ConfigFiles : tree[<<v, "data">>][f] = wanted

\* A checksum of the content x of a file: it covers it, or its archive broke off before.
Covers(x, n) == x = n \/ (BrokenOff # {} /\ x = 0)

\* Exit status 0 also promises that the salt in every hashed startup file is a checksum
\* of the tree as it now is, and of the passwords in force: of all of it, or of what tar
\* got to, but never one of an earlier run nor an empty one.
SaltIsTruthful ==
  exit = 0 =>
    \A c \in Startup : \A m \in Matched[c] :
      /\ hashed[c][m] # None
      /\ \A f \in ConfigFiles : Covers(hashed[c][m][f], tree[m][f])
      /\ \A p \in PasswordFiles : Covers(hashed[c][m][p], wanted)

\* The archive that c's salt for the tree m is a checksum of broke off before file f.
Missed(c, m, f) == BrokenOff # {} /\ hashed[c][m] # None /\ hashed[c][m][f] = 0 /\ tree[m][f] # 0

\* The point of the salt: once paunch has applied its step, a container has loaded
\* what the trees whose checksum it carries now hold, but for the files that an archive
\* which broke off has missed.
AppliedIsCurrent ==
  exit = 0 =>
    \A c \in Startup : StepOf[c] <= upto =>
      \A m \in Matched[c], f \in ConfigFiles :
        running[c].loaded[m][f] = tree[m][f] \/ Missed(c, m, f)

\* container-puppet never overwrites an archived password, not even after failed
\* attempts: the service needs the old one to move to the new one.
PasswordKept ==
  [][\A t \in Trees, p \in PasswordFiles :
       tree[t][p] # 0 /\ tree'[t][p] # tree[t][p] => phase = "up" /\ t[2] = "generated"]_vars

\* A run that was started ends: every attempt, pull and retry loop is bounded.
RunEnds == phase = "pool" ~> phase = "idle"

OfWanted(s) == s # None /\ \A f \in Files : Covers(s[f], wanted)

\* Seen from the playbook: a volume is good when its archived configuration is that
\* of the parameters in force and the checksum beside it was computed from it.
Good(v) ==
  /\ \A f \in ConfigFiles : tree[<<v, "data">>][f] = wanted
  /\ OfWanted(sum[<<v, "data">>])

Generation == INSTANCE ConfigGeneration WITH
  busy    <- phase \in {"pool", "salt"},
  good    <- {v \in Volumes : Good(v)},
  success <- exit = 0

\* The pool of workers, the retries, the salting and the exit status keep the
\* promise of ConfigGeneration.
ImplementsGeneration == Generation!Spec

\* What the comment above the second rsync says, for any successful run: the files
\* puppet modified are in puppet-generated.
RetryGenerates ==
  exit = 0 => \A v \in Volumes, f \in ConfigFiles : tree[<<v, "generated">>][f] = wanted
=============================================================================
