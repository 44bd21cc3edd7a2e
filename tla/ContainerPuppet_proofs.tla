------------------------ MODULE ContainerPuppet_proofs ------------------------
(***************************************************************************)
(* For any set of volumes, files, containers, workers and retries: exit    *)
(* status 0 promises the configuration in force and truthful salts, a      *)
(* container whose step is applied has loaded what its salt says, archived *)
(* passwords are kept, and every step is one of ConfigGeneration.  For any *)
(* list of services, ServiceConfigs merges those of a volume completely.   *)
(***************************************************************************)
EXTENDS ContainerPuppet, ServiceConfigs, TLAPS

Data(v) == <<v, "data">>
Generated(v) == <<v, "generated">>

(***************************************************************************)
(* The inductive invariant                                                 *)
(***************************************************************************)
Applied1 == {"exclude", "sync", "gather", "sumopen", "sumwrite", "gsumopen", "gsumwrite"}
Archived == {"gather", "sumopen", "sumwrite", "gsumopen", "gsumwrite"}
Summed == {"gsumopen", "gsumwrite"}

\* Nothing is of a version that was not wanted yet.
NothingNewer ==
  /\ \A v \in Volumes, f \in Files : job[v].fs[f] <= wanted
  /\ \A t \in Trees, f \in Files : tree[t][f] <= wanted
  /\ \A t \in Trees : sum[t] # None => \A f \in Files : sum[t][f] <= wanted

\* How often an attempt may still be made.
AttemptsLeft(v) ==
  /\ job[v].at \in {"queued", "pull"} => job[v].tries = 0
  /\ job[v].at = "run" => job[v].tries < RunLimit

\* From place to place the script in the container has brought tree and checksum of
\* config-data to the wanted version.
ScriptInv(v) ==
  /\ job[v].at \in Applied1 => \A f \in Files : job[v].fs[f] = wanted
  /\ job[v].at \in Archived => \A f \in ConfigFiles : tree[Data(v)][f] = wanted
  /\ job[v].at \in Summed => OfWanted(sum[Data(v)])

\* What a volume has whose worker reports success.
Complete(v) ==
  /\ Good(v)
  /\ sum[Generated(v)] # None
  /\ \A f \in ConfigFiles : Covers(sum[Generated(v)][f], tree[Generated(v)][f])
  /\ \A p \in PasswordFiles : Covers(sum[Generated(v)][p], wanted)

OkInv(v) == job[v].ok => job[v].at = "ended" /\ (phase # "idle" \/ exit = 0 => Complete(v))

\* What the exclude list lacks has not been archived, in either tree.
KeptInv(v) ==
  /\ job[v].kept \subseteq PasswordFiles
  /\ \A p \in PasswordFiles : tree[Generated(v)][p] # 0 => tree[Data(v)][p] # 0
  /\ job[v].at = "sync" => \A p \in PasswordFiles : p \in job[v].kept <=> tree[Data(v)][p] # 0
  /\ job[v].at = "gather" => \A p \in PasswordFiles \ job[v].kept : tree[Generated(v)][p] = 0
  /\ job[v].at = "gather" => \A p \in PasswordFiles : tree[Data(v)][p] # 0

\* The parent: it salts when all have ended, and reports 0 if all have succeeded.
ParentInv ==
  /\ phase = "salt" => /\ \A v \in Volumes : job[v].at = "ended"
                       /\ \A c \in Startup : StepOf[c] \notin unsalted => hashed[c] = Salt(c)
  /\ phase = "up" => exit = 0
  /\ exit = 0 => /\ phase \in {"up", "idle"}
                 /\ \A v \in Volumes : job[v].ok
                 /\ \A c \in Startup : hashed[c] = Salt(c)
  /\ exit # 0 => upto = 0

\* A container that was created with a salt and has loaded its trees since.
Container(c) == [salt : [Matched[c] -> Content], loaded : [Mounted[c] -> Content]]

\* It has loaded nothing that is older than its salt, nor newer than the tree.
LoadedBetween(c) ==
  \A m \in Matched[c], f \in ConfigFiles :
    running[c].salt[m][f] <= running[c].loaded[m][f] /\ running[c].loaded[m][f] <= tree[m][f]

RunningInv(c) == running[c] = None \/ (running[c] \in Container(c) /\ LoadedBetween(c))

AppliedInv(c) == exit = 0 /\ StepOf[c] <= upto =>
  /\ running[c] \in Container(c)
  /\ \A m \in Matched[c], f \in ConfigFiles :
       hashed[c][m][f] = tree[m][f] => running[c].loaded[m][f] = tree[m][f]

JobsInv == \A v \in Volumes : AttemptsLeft(v) /\ ScriptInv(v) /\ OkInv(v) /\ KeptInv(v)
ContainersInv == \A c \in Startup : RunningInv(c) /\ AppliedInv(c)

IInv == TypeOK /\ NothingNewer /\ JobsInv /\ ParentInv /\ ContainersInv

(***************************************************************************)
(* Initial state                                                           *)
(***************************************************************************)
\* The jobs of a fresh run: all are queued, with every attempt left.
LEMMA NewJobs ==
  /\ NewJob \in Job /\ Gone \in Job
  /\ NewJob.at = "queued" /\ NewJob.tries = 0 /\ NewJob.kept = {} /\ ~NewJob.ok
  /\ Gone.at = "gone" /\ Gone.kept = {} /\ ~Gone.ok
  /\ \A f \in Files : NewJob.fs[f] = 0 /\ Gone.fs[f] = 0
<1>1. NoFiles \in Content /\ \A f \in Files : NoFiles[f] = 0
  BY ConstantsAssumption DEF NoFiles, Content
<1>2. /\ {"queued", "gone"} \subseteq JobStates /\ 0 \in 0 .. PullLimit /\ 0 \in 0 .. RunLimit
  BY ConstantsAssumption DEF JobStates, Scripting
<1>3. NewJob \in Job /\ NewJob.at = "queued" /\ NewJob.tries = 0 /\ NewJob.kept = {} /\ NewJob.ok = FALSE
  BY <1>1, <1>2 DEF NewJob, Job
<1>4. NewJob.fs = NoFiles
  BY DEF NewJob
<1>5. Gone \in Job /\ Gone.at = "gone" /\ Gone.kept = {} /\ Gone.ok = FALSE /\ Gone.fs = NewJob.fs
  BY <1>2, <1>3 DEF Gone, Job
<1> QED
  BY <1>1, <1>3, <1>4, <1>5

\* Before the first run there is no tree, no checksum and no container.
LEMMA InitInv == Init => IInv
<1> SUFFICES ASSUME Init PROVE IInv
  OBVIOUS
<1> USE ConstantsAssumption DEF Init
<1>1. \A v \in Volumes : job[v] = Gone
  OBVIOUS
<1>2. NoFiles \in Content /\ \A t \in Trees, f \in Files : tree[t][f] = 0
  BY DEF NoFiles, Content
<1>3. TypeOK
  BY <1>2, NewJobs DEF TypeOK, Steps
<1>4. NothingNewer
  BY <1>1, <1>2, NewJobs DEF NothingNewer
<1>5. \A v \in Volumes : Data(v) \in Trees /\ Generated(v) \in Trees
  BY DEF Trees, Kinds, Data, Generated
<1>6. JobsInv
  BY <1>1, <1>2, <1>5, NewJobs
     DEF JobsInv, AttemptsLeft, ScriptInv, OkInv, KeptInv, Applied1, Archived, Summed
<1>7. ParentInv /\ ContainersInv
  BY DEF ParentInv, ContainersInv, RunningInv, AppliedInv
<1> QED
  BY <1>3, <1>4, <1>6, <1>7 DEF IInv

(***************************************************************************)
(* A step of one worker                                                    *)
(***************************************************************************)
VolumeInv(v) == AttemptsLeft(v) /\ ScriptInv(v) /\ OkInv(v) /\ KeptInv(v)

\* While a worker is not through, the parent has neither salted nor reported success.
LEMMA WorkerBusy ==
  ASSUME IInv, NEW v \in Volumes, job[v].at # "ended"
  PROVE  phase # "salt" /\ phase # "up" /\ exit # 0 /\ job[v].ok = FALSE
BY DEF IInv, TypeOK, Job, JobsInv, OkInv, ParentInv

\* What a worker's step leaves alone keeps the invariant.
LEMMA WorkerStep ==
  ASSUME IInv, NEW v \in Volumes, ~Idle(v), NEW j \in Job,
         UNCHANGED <<wanted, phase, exit, unsalted, hashed, running, upto>>,
         images' \subseteq Volumes,
         job' = [job EXCEPT ![v] = j],
         tree' \in [Trees -> Content], sum' \in [Trees -> Content \cup {None}],
         \A t \in Trees : t \notin {Data(v), Generated(v)} => tree'[t] = tree[t] /\ sum'[t] = sum[t],
         \A t \in Trees, f \in ConfigFiles : tree[t][f] <= tree'[t][f],
         NothingNewer', VolumeInv(v)'
  PROVE  IInv'
<1>1. phase # "salt" /\ phase # "up" /\ exit # 0 /\ job[v].ok = FALSE
  BY WorkerBusy DEF Idle
<1>2. TypeOK'
  BY DEF IInv, TypeOK
<1>3. \A w \in Volumes : w # v => VolumeInv(w)'
  <2> SUFFICES ASSUME NEW w \in Volumes, w # v PROVE VolumeInv(w)'
    OBVIOUS
  <2>1. job'[w] = job[w] /\ Data(w) \in Trees /\ Generated(w) \in Trees
    BY DEF IInv, TypeOK, Data, Generated, Trees, Kinds
  <2>2. /\ tree'[Data(w)] = tree[Data(w)] /\ sum'[Data(w)] = sum[Data(w)]
        /\ tree'[Generated(w)] = tree[Generated(w)] /\ sum'[Generated(w)] = sum[Generated(w)]
    BY <2>1 DEF Data, Generated
  <2>3. AttemptsLeft(w) /\ ScriptInv(w) /\ OkInv(w) /\ KeptInv(w)
    BY DEF IInv, JobsInv
  <2>4. AttemptsLeft(w)' /\ ScriptInv(w)'
    BY <2>1, <2>2, <2>3 DEF AttemptsLeft, ScriptInv, OfWanted
  <2>5. OkInv(w)'
    BY <2>1, <2>2, <2>3 DEF OkInv, Complete, Good, OfWanted, Data, Generated
  <2>6. KeptInv(w)'
    BY <2>1, <2>2, <2>3 DEF KeptInv
  <2> QED
    BY <2>4, <2>5, <2>6 DEF VolumeInv
<1>4. JobsInv'
  BY <1>3 DEF JobsInv, VolumeInv
<1>5. ParentInv'
  BY <1>1 DEF IInv, ParentInv
<1>6. \A c \in Startup : RunningInv(c)'
  <2> SUFFICES ASSUME NEW c \in Startup, running[c] # None PROVE RunningInv(c)'
    BY DEF RunningInv
  <2>1. running[c] \in Container(c) /\ LoadedBetween(c)
    BY DEF IInv, ContainersInv, RunningInv
  <2>2. \A m \in Matched[c], f \in ConfigFiles :
          running[c].loaded[m][f] \in Int /\ m \in Trees /\ tree[m][f] \in Int /\ tree'[m][f] \in Int
    BY <2>1, ConstantsAssumption DEF Container, IInv, TypeOK, Content, ConfigFiles
  <2>3. LoadedBetween(c)'
    BY <2>1, <2>2 DEF LoadedBetween
  <2> QED
    BY <2>1, <2>3 DEF RunningInv, Container
<1>7. \A c \in Startup : AppliedInv(c)'
  BY <1>1 DEF AppliedInv
<1> QED
  BY <1>2, <1>4, <1>5, <1>6, <1>7 DEF IInv, ContainersInv

\* What the loop over the attempts makes of a failed one.
LEMMA FailureResult ==
  ASSUME NEW j \in Job
  PROVE  /\ AfterFailure(j) \in Job
         /\ AfterFailure(j).at \in {"gone", "ended", "run"} /\ AfterFailure(j).kept = {}
         /\ AfterFailure(j).ok = TRUE => j.ok = TRUE
         /\ AfterFailure(j).at = "run" => AfterFailure(j).tries < RunLimit
         /\ AfterFailure(j).fs \in {NoFiles, j.fs}
<1>1. CASE phase # "pool"
  BY <1>1, NewJobs DEF AfterFailure, Gone, NewJob
<1>2. CASE phase = "pool"
  <2> DEFINE at == IF j.tries >= RunLimit THEN "ended" ELSE "run"
  <2>1. AfterFailure(j) = [j EXCEPT !.at = at, !.newer = {}, !.kept = {}]
    BY <1>2 DEF AfterFailure
  <2>2. at \in JobStates /\ at \in {"ended", "run"}
    BY DEF JobStates
  <2>3. at = "run" => j.tries < RunLimit
    BY ConstantsAssumption DEF Job
  <2> HIDE DEF at
  <2> QED
    BY <2>1, <2>2, <2>3 DEF Job
<1> QED
  BY <1>1, <1>2

\* A failed attempt claims nothing, whatever it has copied before.
LEMMA AttemptFails ==
  ASSUME IInv, NEW v \in Volumes, ~Idle(v),
         NEW j \in Job, j.ok = FALSE, \A f \in Files : j.fs[f] <= wanted,
         UNCHANGED <<wanted, phase, exit, images, sum, unsalted, hashed, running, upto>>,
         job' = [job EXCEPT ![v] = AfterFailure(j)],
         tree' \in [Trees -> Content],
         \A t \in Trees : t \notin {Data(v), Generated(v)} => tree'[t] = tree[t],
         \A t \in Trees, f \in ConfigFiles : tree[t][f] <= tree'[t][f],
         \A t \in Trees, f \in Files : tree'[t][f] <= wanted,
         \A p \in PasswordFiles : tree'[Generated(v)][p] # 0 => tree'[Data(v)][p] # 0
  PROVE  IInv'
<1> DEFINE k == AfterFailure(j)
<1>1. /\ k \in Job /\ k.at \in {"gone", "ended", "run"} /\ k.kept = {} /\ k.ok = FALSE
      /\ k.at = "run" => k.tries < RunLimit
      /\ k.fs \in {NoFiles, j.fs}
  BY FailureResult DEF Job
<1>2. \A f \in Files : k.fs[f] <= wanted
  BY <1>1, ConstantsAssumption DEF NoFiles, IInv, TypeOK
<1> HIDE DEF k
<1>3. job'[v] = k /\ \A w \in Volumes : w # v => job'[w] = job[w]
  BY DEF IInv, TypeOK, k
<1>4. NothingNewer'
  BY <1>2, <1>3 DEF IInv, NothingNewer
<1>5. VolumeInv(v)'
  BY <1>1, <1>3 DEF VolumeInv, AttemptsLeft, ScriptInv, OkInv, KeptInv, Applied1, Archived, Summed
<1>6. sum' \in [Trees -> Content \cup {None}] /\ images' \subseteq Volumes
  BY DEF IInv, TypeOK
<1> QED
  BY <1>1, <1>4, <1>5, <1>6, WorkerStep DEF k

\* A worker that goes on to another place, without a claim on the trees.
LEMMA WorkerMoves ==
  ASSUME IInv, NEW v \in Volumes, ~Idle(v),
         NEW j \in Job, j.ok = FALSE, j.kept \subseteq PasswordFiles,
         \A f \in Files : j.fs[f] <= wanted,
         j.at \in {"queued", "pull", "run", "puppet", "exclude", "raised"},
         j.at \in {"queued", "pull"} => j.tries = 0,
         j.at = "run" => j.tries < RunLimit,
         j.at = "exclude" => \A f \in Files : j.fs[f] = wanted,
         UNCHANGED <<wanted, phase, exit, tree, sum, unsalted, hashed, running, upto>>,
         images' \subseteq Volumes,
         job' = [job EXCEPT ![v] = j]
  PROVE  IInv'
<1>1. job'[v] = j /\ \A w \in Volumes : w # v => job'[w] = job[w]
  BY DEF IInv, TypeOK
<1>2. NothingNewer'
  BY <1>1 DEF IInv, NothingNewer
<1>3. KeptInv(v)
  BY DEF IInv, JobsInv
<1>4. VolumeInv(v)'
  BY <1>1, <1>3 DEF VolumeInv, AttemptsLeft, ScriptInv, OkInv, KeptInv, Applied1, Archived, Summed
<1>5. /\ tree' \in [Trees -> Content] /\ sum' \in [Trees -> Content \cup {None}]
      /\ \A t \in Trees, f \in ConfigFiles : tree[t][f] \in Int
  BY ConstantsAssumption DEF IInv, TypeOK, Content, ConfigFiles
<1>6. \A t \in Trees, f \in ConfigFiles : tree[t][f] <= tree'[t][f]
  BY <1>5
<1> QED
  BY <1>2, <1>4, <1>5, <1>6, WorkerStep

\* A job at another place.
LEMMA AtPlace ==
  ASSUME NEW k \in Job, NEW place \in JobStates
  PROVE  /\ [k EXCEPT !.at = place] \in Job
         /\ [k EXCEPT !.at = place].at = place /\ [k EXCEPT !.at = place].tries = k.tries
         /\ [k EXCEPT !.at = place].fs = k.fs /\ [k EXCEPT !.at = place].kept = k.kept
         /\ [k EXCEPT !.at = place].ok = k.ok
BY DEF Job

\* Counting a pull leaves a job where it is.
LEMMA Counted ==
  ASSUME NEW k \in Job, NEW n \in 0 .. PullLimit
  PROVE  /\ [k EXCEPT !.pulls = n] \in Job
         /\ [k EXCEPT !.pulls = n].at = k.at /\ [k EXCEPT !.pulls = n].tries = k.tries
         /\ [k EXCEPT !.pulls = n].fs = k.fs /\ [k EXCEPT !.pulls = n].kept = k.kept
         /\ [k EXCEPT !.pulls = n].ok = k.ok
BY DEF Job

\* What is known of any job that is not through.
LEMMA WorkerFacts ==
  ASSUME IInv, NEW v \in Volumes, ~Idle(v)
  PROVE  /\ job[v] \in Job /\ job[v].ok = FALSE /\ job[v].kept \subseteq PasswordFiles
         /\ \A f \in Files : job[v].fs[f] <= wanted
         /\ VolumeInv(v) /\ wanted \in 1 .. MaxVersion /\ 1 <= wanted
         /\ Data(v) \in Trees /\ Generated(v) \in Trees /\ Data(v) # Generated(v)
         /\ \A t \in Trees, f \in Files : tree[t][f] \in 0 .. MaxVersion /\ tree[t][f] <= wanted
         /\ \A f \in Files : job[v].fs[f] \in 0 .. MaxVersion
         /\ images \subseteq Volumes
<1>1. job[v] \in Job /\ job[v].ok = FALSE
  BY WorkerBusy DEF Idle, IInv, TypeOK
<1>2. VolumeInv(v) /\ job[v].kept \subseteq PasswordFiles
  BY DEF IInv, JobsInv, VolumeInv, KeptInv
<1>3. Data(v) \in Trees /\ Generated(v) \in Trees /\ Data(v) # Generated(v)
  BY DEF Data, Generated, Trees, Kinds
<1> QED
  BY <1>1, <1>2, <1>3, ConstantsAssumption DEF IInv, TypeOK, NothingNewer, Job, Content

\* What an unchanged tree has of the hypotheses above.
LEMMA TreesBounded ==
  ASSUME IInv, UNCHANGED <<wanted, tree>>
  PROVE  /\ tree' \in [Trees -> Content]
         /\ \A t \in Trees, f \in ConfigFiles : tree[t][f] <= tree'[t][f]
         /\ \A t \in Trees, f \in Files : tree'[t][f] <= wanted
<1>1. \A t \in Trees, f \in ConfigFiles : tree[t][f] \in Int
  BY ConstantsAssumption DEF IInv, TypeOK, Content, ConfigFiles
<1> QED
  BY <1>1 DEF IInv, TypeOK, NothingNewer

\* A worker takes a job (mp_puppet_config from its first line to the pull).
LEMMA StartKeeps == \A v \in Volumes : IInv /\ Start(v) => IInv'
<1> SUFFICES ASSUME NEW v \in Volumes, IInv, Start(v) PROVE IInv'
  OBVIOUS
<1> DEFINE j == [job[v] EXCEPT !.at = "pull"]
<1>1. ~Idle(v) /\ job[v].at = "queued"
  BY DEF Start, Idle
<1>job. /\ job[v] \in Job /\ job[v].ok = FALSE /\ job[v].kept \subseteq PasswordFiles
      /\ VolumeInv(v) /\ images \subseteq Volumes
      /\ \A f \in Files : job[v].fs[f] <= wanted
  BY <1>1, WorkerFacts
<1>2. /\ UNCHANGED <<wanted, phase, exit, tree, sum, unsalted, hashed, running, upto>>
      /\ images' = images /\ job' = [job EXCEPT ![v] = j]
  BY DEF Start
<1>3. "pull" \in JobStates
  BY DEF JobStates
<1>4. /\ j \in Job /\ j.at = "pull" /\ j.tries = job[v].tries /\ j.fs = job[v].fs
      /\ j.ok = FALSE /\ j.kept = job[v].kept
  BY <1>1, <1>3, AtPlace, <1>job
<1>5. j.tries = 0
  BY <1>1, <1>4, <1>job DEF VolumeInv, AttemptsLeft
<1>6. j.kept \subseteq PasswordFiles /\ \A f \in Files : j.fs[f] <= wanted
  BY <1>1, <1>4, <1>job
<1>7. images' \subseteq Volumes
  BY <1>1, <1>2, <1>job
<1> HIDE DEF j
<1> QED
  BY <1>1, <1>2, <1>4, <1>5, <1>6, <1>7, WorkerMoves

\* The pull of the image, which may fail and costs an attempt then.
LEMMA PullKeeps == \A v \in Volumes : IInv /\ PullImage(v) => IInv'
<1> SUFFICES ASSUME NEW v \in Volumes, IInv, PullImage(v) PROVE IInv'
  OBVIOUS
<1>1. ~Idle(v) /\ job[v].at = "pull"
  BY DEF PullImage, Idle
<1>job. /\ job[v] \in Job /\ job[v].ok = FALSE /\ job[v].kept \subseteq PasswordFiles
      /\ VolumeInv(v) /\ images \subseteq Volumes
      /\ \A f \in Files : job[v].fs[f] <= wanted
  BY <1>1, WorkerFacts
<1>2. job[v].tries = 0
  BY <1>1, <1>job DEF VolumeInv, AttemptsLeft
<1>3. UNCHANGED <<wanted, phase, exit, tree, sum, unsalted, hashed, running, upto>>
  BY DEF PullImage
<1>4. PICK j \in Job :
        /\ job' = [job EXCEPT ![v] = j]
        /\ j.at \in {"pull", "run", "raised"} /\ j.tries = job[v].tries /\ j.fs = job[v].fs
        /\ j.kept = job[v].kept /\ j.ok = FALSE
  <2>1. CASE job' = [job EXCEPT ![v].pulls = 0,
                                ![v].at = IF v \in Privileged[wanted] THEN "raised" ELSE "run"]
    <3> DEFINE place == IF v \in Privileged[wanted] THEN "raised" ELSE "run"
               k == [job[v] EXCEPT !.pulls = 0]
               j == [k EXCEPT !.at = place]
    <3>1. place \in JobStates /\ place \in {"run", "raised"}
      BY DEF JobStates
    <3>2. job' = [job EXCEPT ![v] = j]
      BY <1>1, <2>1, <1>job DEF IInv, TypeOK
    <3>3. k \in Job /\ k.tries = job[v].tries /\ k.fs = job[v].fs /\ k.kept = job[v].kept /\ k.ok = FALSE
      BY <1>1, Counted, <1>job, ConstantsAssumption
    <3> HIDE DEF k, place
    <3>4. /\ j \in Job /\ j.at = place /\ j.tries = k.tries /\ j.fs = k.fs
          /\ j.kept = k.kept /\ j.ok = FALSE
      BY <3>1, <3>3, AtPlace
    <3> HIDE DEF j
    <3> QED
      BY <3>1, <3>2, <3>3, <3>4
  <2>2. CASE job[v].pulls < PullLimit /\ job' = [job EXCEPT ![v].pulls = @ + 1]
    <3> DEFINE j == [job[v] EXCEPT !.pulls = job[v].pulls + 1]
    <3>1. job' = [job EXCEPT ![v] = j]
      BY <2>2
    <3>2. job[v].pulls + 1 \in 0 .. PullLimit
      BY <1>1, <2>2, <1>job, ConstantsAssumption DEF Job
    <3>3. /\ j \in Job /\ j.at = job[v].at /\ j.tries = job[v].tries /\ j.fs = job[v].fs
          /\ j.kept = job[v].kept /\ j.ok = FALSE
      BY <1>1, <3>2, Counted, <1>job
    <3> HIDE DEF j
    <3> QED
      BY <1>1, <3>1, <3>3
  <2> QED
    BY <2>1, <2>2 DEF PullImage
<1>5. images' \subseteq Volumes
  BY <1>1, <1>job DEF PullImage
<1>6. j.kept \subseteq PasswordFiles /\ (\A f \in Files : j.fs[f] <= wanted) /\ 0 < RunLimit
  BY <1>1, <1>4, <1>job, ConstantsAssumption
<1> QED
  BY <1>1, <1>2, <1>3, <1>4, <1>5, <1>6, WorkerMoves

\* The container is started, or the attempt fails before it is.
LEMMA RunKeeps == \A v \in Volumes : IInv /\ RunContainer(v) => IInv'
<1> SUFFICES ASSUME NEW v \in Volumes, IInv, RunContainer(v) PROVE IInv'
  OBVIOUS
<1>1. ~Idle(v) /\ job[v].at = "run"
  BY DEF RunContainer, Idle
<1>job. /\ job[v] \in Job /\ job[v].ok = FALSE /\ job[v].kept \subseteq PasswordFiles
      /\ VolumeInv(v) /\ images \subseteq Volumes
      /\ \A f \in Files : job[v].fs[f] <= wanted
  BY <1>1, WorkerFacts
<1>2. job[v].tries < RunLimit
  BY <1>1, <1>job DEF VolumeInv, AttemptsLeft
<1>3. UNCHANGED <<wanted, phase, exit, images, tree, sum, unsalted, hashed, running, upto>>
  BY DEF RunContainer
<1>4. PICK created \in BOOLEAN :
        LET j == [job[v] EXCEPT !.tries = @ + 1, !.made = created]
        IN  job' = [job EXCEPT ![v] =
                      IF created THEN [j EXCEPT !.at = "puppet", !.newer = {}, !.kept = {}]
                                 ELSE AfterFailure(j)]
  BY <1>1, <1>job DEF RunContainer, Job
<1> DEFINE j == [job[v] EXCEPT !.tries = job[v].tries + 1, !.made = created]
           k == [j EXCEPT !.at = "puppet", !.newer = {}, !.kept = {}]
<1>5. job[v].tries + 1 \in 0 .. RunLimit /\ "puppet" \in JobStates
  BY <1>1, <1>2, <1>job, ConstantsAssumption DEF Job, JobStates, Scripting
<1>6. j \in Job /\ j.fs = job[v].fs /\ j.ok = FALSE
  BY <1>1, <1>5, <1>job DEF Job
<1>7. job' = [job EXCEPT ![v] = IF created THEN k ELSE AfterFailure(j)]
  BY <1>4
<1> HIDE DEF j
<1>8. CASE created
  <2>1. k \in Job /\ k.at = "puppet" /\ k.kept = {} /\ k.fs = job[v].fs /\ k.ok = FALSE
    BY <1>5, <1>6 DEF Job
  <2>2. job' = [job EXCEPT ![v] = k]
    BY <1>7, <1>8
  <2> HIDE DEF k
  <2>3. (\A f \in Files : k.fs[f] <= wanted) /\ images' \subseteq Volumes
    BY <1>1, <1>3, <2>1, <1>job
  <2> QED
    BY <1>1, <1>3, <2>1, <2>2, <2>3, WorkerMoves
<1>9. CASE ~created
  <2>1. job' = [job EXCEPT ![v] = AfterFailure(j)]
    BY <1>7, <1>9
  <2>2. \A f \in Files : j.fs[f] <= wanted
    BY <1>1, <1>6, <1>job
  <2>3. \A p \in PasswordFiles : tree[Generated(v)][p] # 0 => tree[Data(v)][p] # 0
    BY <1>1, <1>job DEF VolumeInv, KeptInv
  <2>4. /\ \A t \in Trees, f \in ConfigFiles : tree[t][f] <= tree'[t][f]
        /\ \A t \in Trees, f \in Files : tree'[t][f] <= wanted
        /\ tree' \in [Trees -> Content]
    BY <1>1, <1>3, TreesBounded
  <2> QED
    BY <1>1, <1>3, <1>6, <2>1, <2>2, <2>3, <2>4, AttemptFails
<1> QED
  BY <1>8, <1>9

(***************************************************************************)
(* The script in the container                                             *)
(***************************************************************************)
\* puppet in the container: it writes every file as wanted, or fails.
LEMMA PuppetKeeps == \A v \in Volumes : IInv /\ PuppetApply(v) => IInv'
<1> SUFFICES ASSUME NEW v \in Volumes, IInv, PuppetApply(v) PROVE IInv'
  OBVIOUS
<1>1. ~Idle(v) /\ job[v].at = "puppet"
  BY DEF PuppetApply, Idle
<1>job. /\ job[v] \in Job /\ job[v].ok = FALSE /\ job[v].kept \subseteq PasswordFiles
      /\ VolumeInv(v) /\ images \subseteq Volumes
      /\ \A f \in Files : job[v].fs[f] <= wanted
  BY <1>1, WorkerFacts
<1>2. UNCHANGED <<wanted, phase, exit, images, tree, sum, unsalted, hashed, running, upto>>
  BY DEF PuppetApply
<1> DEFINE stale == {f \in Files : job[v].fs[f] # wanted}
           Fs(W) == [f \in Files |-> IF f \in W THEN wanted ELSE job[v].fs[f]]
           Wrote(W) == [job[v] EXCEPT !.fs = Fs(W), !.newer = W]
<1>3. wanted \in 0 .. MaxVersion /\ job[v].fs \in [Files -> 0 .. MaxVersion]
  BY <1>job, ConstantsAssumption DEF IInv, TypeOK, Job, Content
<1>4. \A W \in SUBSET stale :
        /\ Fs(W) \in Content /\ W \subseteq Files
        /\ \A f \in Files : Fs(W)[f] <= wanted
  BY <1>job, <1>3 DEF Content
<1>5. \A f \in Files : Fs(stale)[f] = wanted
  OBVIOUS
<1> HIDE DEF Fs
<1>6. \A W \in SUBSET stale :
        /\ Wrote(W) \in Job /\ Wrote(W).fs = Fs(W) /\ Wrote(W).ok = FALSE
        /\ Wrote(W).kept = job[v].kept
  BY <1>job, <1>4 DEF Job
<1>7. \/ job' = [job EXCEPT ![v] = [Wrote(stale) EXCEPT !.at = "exclude"]]
      \/ \E W \in SUBSET stale : job' = [job EXCEPT ![v] = AfterFailure(Wrote(W))]
  BY DEF PuppetApply, Fs
<1>8. stale \in SUBSET stale
  OBVIOUS
<1> HIDE DEF stale, Wrote
<1>9. CASE job' = [job EXCEPT ![v] = [Wrote(stale) EXCEPT !.at = "exclude"]]
  <2> DEFINE j == [Wrote(stale) EXCEPT !.at = "exclude"]
  <2>1. "exclude" \in JobStates
    BY DEF JobStates, Scripting
  <2>2. j \in Job /\ j.at = "exclude" /\ j.fs = Fs(stale) /\ j.ok = FALSE /\ j.kept = job[v].kept
    BY <1>6, <1>8, <2>1, AtPlace
  <2>3. job' = [job EXCEPT ![v] = j]
    BY <1>9
  <2> HIDE DEF j
  <2>4. /\ \A f \in Files : j.fs[f] = wanted
        /\ \A f \in Files : j.fs[f] <= wanted
        /\ j.kept \subseteq PasswordFiles /\ images' \subseteq Volumes
    BY <1>job, <1>2, <1>4, <1>5, <1>8, <2>2
  <2> QED
    BY <1>1, <1>2, <2>2, <2>3, <2>4, WorkerMoves
<1>10. ASSUME NEW W \in SUBSET stale, job' = [job EXCEPT ![v] = AfterFailure(Wrote(W))] PROVE IInv'
  <2>1. Wrote(W) \in Job /\ Wrote(W).ok = FALSE /\ \A f \in Files : Wrote(W).fs[f] <= wanted
    BY <1>4, <1>6
  <2>2. \A p \in PasswordFiles : tree[Generated(v)][p] # 0 => tree[Data(v)][p] # 0
    BY <1>job DEF VolumeInv, KeptInv
  <2>3. \A p \in PasswordFiles : tree'[Generated(v)][p] # 0 => tree'[Data(v)][p] # 0
    BY <1>2, <2>2
  <2>4. /\ tree' \in [Trees -> Content]
        /\ \A t \in Trees, f \in ConfigFiles : tree[t][f] <= tree'[t][f]
        /\ \A t \in Trees, f \in Files : tree'[t][f] <= wanted
    BY <1>2, TreesBounded
  <2> QED
    BY <1>1, <1>2, <1>10, <2>1, <2>3, <2>4, AttemptFails
<1> QED
  BY <1>7, <1>9, <1>10

\* The rest of the script moves on with all files as wanted.
LEMMA ScriptMoves ==
  ASSUME IInv, NEW v \in Volumes, job[v].at \in Applied1, ~Idle(v),
         NEW j \in Job, j.at \in Applied1, j.ok = FALSE, j.kept \subseteq PasswordFiles, j.fs = job[v].fs,
         UNCHANGED <<wanted, phase, exit, images, unsalted, hashed, running, upto>>,
         job' = [job EXCEPT ![v] = j],
         tree' \in [Trees -> Content], sum' \in [Trees -> Content \cup {None}],
         \A t \in Trees : t \notin {Data(v), Generated(v)} => tree'[t] = tree[t] /\ sum'[t] = sum[t],
         \A t \in Trees, f \in ConfigFiles : tree[t][f] <= tree'[t][f],
         \A t \in Trees, f \in Files : tree'[t][f] <= wanted,
         \A t \in Trees : sum'[t] # None => \A f \in Files : sum'[t][f] <= wanted,
         j.at \in Archived => \A f \in ConfigFiles : tree'[Data(v)][f] = wanted,
         j.at \in Summed => OfWanted(sum[Data(v)])',
         KeptInv(v)'
  PROVE  IInv'
<1>1. job'[v] = j /\ \A w \in Volumes : w # v => job'[w] = job[w]
  BY DEF IInv, TypeOK
<1>2. \A f \in Files : j.fs[f] = wanted
  BY DEF IInv, JobsInv, ScriptInv
<1>3. NothingNewer'
  BY <1>1 DEF IInv, NothingNewer
<1>4. ScriptInv(v)'
  BY <1>1, <1>2 DEF ScriptInv
<1>5. AttemptsLeft(v)' /\ OkInv(v)'
  BY <1>1 DEF AttemptsLeft, OkInv, Applied1
<1>6. images' \subseteq Volumes /\ VolumeInv(v)'
  BY <1>4, <1>5 DEF IInv, TypeOK, VolumeInv
<1> QED
  BY <1>3, <1>6, WorkerStep

\* The list of the password files that are not to be copied, made from the first target.
LEMMA ExcludeKeeps == \A v \in Volumes : IInv /\ Exclude(v) => IInv'
<1> SUFFICES ASSUME NEW v \in Volumes, IInv, Exclude(v) PROVE IInv'
  OBVIOUS
<1>1. ~Idle(v) /\ job[v].at = "exclude"
  BY DEF Exclude, Idle
<1>job. /\ job[v] \in Job /\ job[v].ok = FALSE /\ job[v].kept \subseteq PasswordFiles
      /\ VolumeInv(v) /\ images \subseteq Volumes
      /\ \A f \in Files : job[v].fs[f] <= wanted
  BY <1>1, WorkerFacts
<1>2. UNCHANGED <<wanted, phase, exit, images, tree, sum, unsalted, hashed, running, upto>>
  BY DEF Exclude
<1> DEFINE kept == {f \in PasswordFiles : job[v].fs[f] # 0 /\ tree[Data(v)][f] # 0}
           j == [job[v] EXCEPT !.at = "sync", !.kept = kept]
<1>3. job' = [job EXCEPT ![v] = j]
  BY <1>job DEF Exclude, Data, IInv, TypeOK
<1>4. \A f \in Files : job[v].fs[f] = wanted
  BY <1>job, <1>1 DEF VolumeInv, ScriptInv, Applied1
<1>5. wanted # 0 /\ PasswordFiles \subseteq Files
  BY ConstantsAssumption DEF IInv, TypeOK
<1>6. \A p \in PasswordFiles : p \in kept <=> tree[Data(v)][p] # 0
  BY <1>4, <1>5
<1>7. kept \subseteq PasswordFiles
  OBVIOUS
<1> HIDE DEF kept
<1>8. j \in Job /\ j.at = "sync" /\ j.fs = job[v].fs /\ j.ok = FALSE /\ j.kept = kept
  BY <1>job, <1>5, <1>7 DEF Job, JobStates, Scripting
<1> HIDE DEF j
<1>9. job'[v] = j
  BY <1>3 DEF IInv, TypeOK
<1>10. KeptInv(v)'
  BY <1>job, <1>2, <1>6, <1>7, <1>8, <1>9 DEF VolumeInv, KeptInv
<1>11. /\ tree' \in [Trees -> Content] /\ sum' \in [Trees -> Content \cup {None}]
       /\ \A t \in Trees : tree'[t] = tree[t] /\ sum'[t] = sum[t]
       /\ \A t \in Trees : sum'[t] # None => \A f \in Files : sum'[t][f] <= wanted
  BY <1>2 DEF IInv, TypeOK, NothingNewer
<1>12. /\ \A t \in Trees, f \in ConfigFiles : tree[t][f] <= tree'[t][f]
       /\ \A t \in Trees, f \in Files : tree'[t][f] <= wanted
  BY <1>2, TreesBounded
<1>13. {"exclude", "sync"} \subseteq Applied1 /\ "sync" \notin Archived \cup Summed
  BY DEF Applied1, Archived, Summed
<1> QED
  BY <1>1, <1>2, <1>3, <1>7, <1>8, <1>10, <1>11, <1>12, <1>13, ScriptMoves

\* rsync copies wanted files, to one tree.
LEMMA CopiedTree ==
  ASSUME IInv, NEW v \in Volumes, job[v].at \in Applied1, ~Idle(v),
         NEW t \in {Data(v), Generated(v)}, NEW W \in SUBSET Files, UNCHANGED wanted,
         tree' = [tree EXCEPT ![t] = [f \in Files |-> IF f \in W THEN job[v].fs[f] ELSE tree[t][f]]]
  PROVE  /\ tree' \in [Trees -> Content]
         /\ \A u \in Trees : u # t => tree'[u] = tree[u]
         /\ \A f \in W : tree'[t][f] = wanted
         /\ \A f \in Files \ W : tree'[t][f] = tree[t][f]
         /\ \A u \in Trees, f \in ConfigFiles : tree[u][f] <= tree'[u][f]
         /\ \A u \in Trees, f \in Files : tree'[u][f] <= wanted
<1>1. /\ t \in Trees /\ \A f \in Files : job[v].fs[f] = wanted
      /\ wanted \in 0 .. MaxVersion /\ tree \in [Trees -> Content]
      /\ \A u \in Trees, f \in Files : tree[u][f] \in 0 .. MaxVersion /\ tree[u][f] <= wanted
  <2>1. /\ Data(v) \in Trees /\ Generated(v) \in Trees /\ wanted \in 1 .. MaxVersion
        /\ \A u \in Trees, f \in Files : tree[u][f] \in 0 .. MaxVersion /\ tree[u][f] <= wanted
    BY WorkerFacts
  <2>2. \A f \in Files : job[v].fs[f] = wanted
    BY DEF IInv, JobsInv, ScriptInv
  <2>3. wanted \in 0 .. MaxVersion /\ tree \in [Trees -> Content]
    BY <2>1, ConstantsAssumption DEF IInv, TypeOK
  <2> QED
    BY <2>1, <2>2, <2>3
<1> DEFINE new == [f \in Files |-> IF f \in W THEN job[v].fs[f] ELSE tree[t][f]]
<1>2. /\ new \in Content
      /\ \A f \in W : new[f] = wanted
      /\ \A f \in Files \ W : new[f] = tree[t][f]
  BY <1>1 DEF Content
<1>3. tree' = [tree EXCEPT ![t] = new]
  OBVIOUS
<1> HIDE DEF new
<1>4. tree' \in [Trees -> Content] /\ tree'[t] = new /\ \A u \in Trees : u # t => tree'[u] = tree[u]
  BY <1>1, <1>2, <1>3
<1>5. \A f \in Files : new[f] = wanted \/ new[f] = tree[t][f]
  BY <1>2
<1>6. \A u \in Trees, f \in Files : tree[u][f] <= tree'[u][f] /\ tree'[u][f] <= wanted
  <2> SUFFICES ASSUME NEW u \in Trees, NEW f \in Files
               PROVE  tree[u][f] <= tree'[u][f] /\ tree'[u][f] <= wanted
    OBVIOUS
  <2>1. tree'[u][f] = wanted \/ tree'[u][f] = tree[u][f]
    BY <1>4, <1>5
  <2> QED
    BY <1>1, <2>1, ConstantsAssumption
<1>7. ConfigFiles \subseteq Files
  BY DEF ConfigFiles
<1> QED
  BY <1>2, <1>4, <1>6, <1>7

\* An rsync that fails with some of the files copied.
LEMMA RsyncFails ==
  ASSUME IInv, NEW v \in Volumes, job[v].at \in Applied1, ~Idle(v),
         NEW t \in {Data(v), Generated(v)}, NEW W \in SUBSET Files,
         tree' = [tree EXCEPT ![t] = [f \in Files |-> IF f \in W THEN job[v].fs[f] ELSE tree[t][f]]],
         job' = [job EXCEPT ![v] = AfterFailure(job[v])],
         t = Generated(v) => \A p \in PasswordFiles : tree[Data(v)][p] # 0,
         UNCHANGED <<wanted, phase, exit, images, sum, unsalted, hashed, running, upto>>
  PROVE  IInv'
<1>1. /\ tree' \in [Trees -> Content]
      /\ \A u \in Trees : u # t => tree'[u] = tree[u]
      /\ \A f \in W : tree'[t][f] = wanted
      /\ \A f \in Files \ W : tree'[t][f] = tree[t][f]
      /\ \A u \in Trees, f \in ConfigFiles : tree[u][f] <= tree'[u][f]
      /\ \A u \in Trees, f \in Files : tree'[u][f] <= wanted
  BY CopiedTree
<1>2. /\ job[v] \in Job /\ job[v].ok = FALSE /\ VolumeInv(v) /\ 1 <= wanted
      /\ \A f \in Files : job[v].fs[f] <= wanted
      /\ Data(v) \in Trees /\ Generated(v) \in Trees /\ Data(v) # Generated(v)
  BY WorkerFacts
<1>3. \A p \in PasswordFiles : tree'[Generated(v)][p] # 0 => tree'[Data(v)][p] # 0
  <2>1. CASE t = Data(v)
    <3> SUFFICES ASSUME NEW p \in PasswordFiles, tree'[Generated(v)][p] # 0
                 PROVE  tree'[Data(v)][p] # 0
      OBVIOUS
    <3>1. tree[Generated(v)][p] # 0 /\ p \in Files /\ wanted # 0
      BY <1>1, <1>2, <2>1, ConstantsAssumption
    <3>2. tree[Data(v)][p] # 0
      BY <1>2, <3>1 DEF VolumeInv, KeptInv
    <3>3. tree'[Data(v)][p] \in {wanted, tree[Data(v)][p]}
      BY <1>1, <2>1, <3>1
    <3> QED
      BY <3>1, <3>2, <3>3
  <2>2. CASE t = Generated(v)
    BY <1>1, <1>2, <2>2
  <2> QED
    BY <2>1, <2>2
<1>4. \A u \in Trees : u \notin {Data(v), Generated(v)} => tree'[u] = tree[u]
  BY <1>1
<1> QED
  BY <1>1, <1>2, <1>3, <1>4, AttemptFails

\* The first rsync, to the tree that the containers mount.
LEMMA DataKeeps == \A v \in Volumes : IInv /\ ArchiveData(v) => IInv'
<1> SUFFICES ASSUME NEW v \in Volumes, IInv, ArchiveData(v) PROVE IInv'
  OBVIOUS
<1>1. ~Idle(v) /\ job[v].at = "sync" /\ job[v].at \in Applied1
  BY DEF ArchiveData, Idle, Applied1
<1>job. /\ job[v] \in Job /\ job[v].ok = FALSE /\ job[v].kept \subseteq PasswordFiles
      /\ VolumeInv(v) /\ images \subseteq Volumes
      /\ \A f \in Files : job[v].fs[f] <= wanted
  BY <1>1, WorkerFacts
<1>2. UNCHANGED <<wanted, phase, exit, images, sum, unsalted, hashed, running, upto>>
  BY DEF ArchiveData
<1> DEFINE Copied(W) == [tree EXCEPT ![Data(v)] = [f \in Files |-> IF f \in W THEN job[v].fs[f] ELSE tree[Data(v)][f]]]
           all == Files \ job[v].kept
<1>3. \/ tree' = Copied(all) /\ job' = [job EXCEPT ![v] = [job[v] EXCEPT !.at = "gather"]]
      \/ \E W \in SUBSET all : tree' = Copied(W) /\ job' = [job EXCEPT ![v] = AfterFailure(job[v])]
  BY DEF ArchiveData, Rsync, Data
<1>4. CASE tree' = Copied(all) /\ job' = [job EXCEPT ![v] = [job[v] EXCEPT !.at = "gather"]]
  <2> DEFINE j == [job[v] EXCEPT !.at = "gather"]
  <2>1. /\ tree' \in [Trees -> Content]
        /\ \A u \in Trees : u # Data(v) => tree'[u] = tree[u]
        /\ \A f \in all : tree'[Data(v)][f] = wanted
        /\ \A f \in Files \ all : tree'[Data(v)][f] = tree[Data(v)][f]
        /\ \A u \in Trees, f \in ConfigFiles : tree[u][f] <= tree'[u][f]
        /\ \A u \in Trees, f \in Files : tree'[u][f] <= wanted
    BY <1>1, <1>2, <1>4, CopiedTree
  <2>2. j \in Job /\ j.at = "gather" /\ j.fs = job[v].fs /\ j.ok = FALSE /\ j.kept = job[v].kept
    BY <1>job, AtPlace DEF JobStates, Scripting
  <2>3. job' = [job EXCEPT ![v] = j]
    BY <1>4
  <2> HIDE DEF j
  <2>4. job'[v] = j
    BY <2>3 DEF IInv, TypeOK
  <2>5. Data(v) \in Trees /\ Generated(v) \in Trees /\ Data(v) # Generated(v) /\ 1 <= wanted
    BY <1>1, WorkerFacts
  <2>6. \A f \in ConfigFiles : f \in all
    BY <1>job DEF ConfigFiles
  <2>7. \A p \in PasswordFiles : tree[Generated(v)][p] # 0 => tree[Data(v)][p] # 0
    BY <1>job DEF VolumeInv, KeptInv
  <2>8. \A p \in PasswordFiles : p \in job[v].kept <=> tree[Data(v)][p] # 0
    BY <1>job, <1>1 DEF VolumeInv, KeptInv
  <2>9a. \A p \in PasswordFiles : tree'[Data(v)][p] # 0
    <3> SUFFICES ASSUME NEW p \in PasswordFiles PROVE tree'[Data(v)][p] # 0
      OBVIOUS
    <3>1. CASE p \in job[v].kept
      BY <3>1, <2>1, <2>8, ConstantsAssumption
    <3>2. CASE p \notin job[v].kept
      BY <3>2, <2>1, <2>5, ConstantsAssumption
    <3> QED
      BY <3>1, <3>2
  <2>9b. \A p \in PasswordFiles \ job[v].kept : tree'[Generated(v)][p] = 0
    BY <2>1, <2>5, <2>7, <2>8
  <2>9. KeptInv(v)'
    BY <1>job, <2>2, <2>4, <2>9a, <2>9b DEF KeptInv
  <2>10. /\ sum' \in [Trees -> Content \cup {None}]
         /\ \A u \in Trees : u \notin {Data(v), Generated(v)} => tree'[u] = tree[u] /\ sum'[u] = sum[u]
         /\ \A u \in Trees : sum'[u] # None => \A f \in Files : sum'[u][f] <= wanted
    BY <1>2, <2>1, <2>5 DEF IInv, TypeOK, NothingNewer
  <2>11. "gather" \in Applied1 /\ "gather" \notin Summed
    BY DEF Applied1, Summed
  <2>12. \A f \in ConfigFiles : tree'[Data(v)][f] = wanted
    BY <2>1, <2>6
  <2> QED
    BY <1>1, <1>2, <1>job, <2>1, <2>2, <2>3, <2>9, <2>10, <2>11, <2>12, ScriptMoves
<1>5. ASSUME NEW W \in SUBSET all, tree' = Copied(W), job' = [job EXCEPT ![v] = AfterFailure(job[v])]
      PROVE  IInv'
  <2>1. W \in SUBSET Files /\ Data(v) # Generated(v)
    BY DEF Data, Generated
  <2> QED
    BY <1>1, <1>2, <1>5, <2>1, RsyncFails
<1> QED
  BY <1>3, <1>4, <1>5

\* The second rsync, to the tree of what puppet has generated.
LEMMA GeneratedKeeps == \A v \in Volumes : IInv /\ ArchiveGenerated(v) => IInv'
<1> SUFFICES ASSUME NEW v \in Volumes, IInv, ArchiveGenerated(v) PROVE IInv'
  OBVIOUS
<1>1. ~Idle(v) /\ job[v].at = "gather" /\ job[v].at \in Applied1
  BY DEF ArchiveGenerated, Idle, Applied1
<1>job. /\ job[v] \in Job /\ job[v].ok = FALSE /\ job[v].kept \subseteq PasswordFiles
      /\ VolumeInv(v) /\ images \subseteq Volumes
      /\ \A f \in Files : job[v].fs[f] <= wanted
  BY <1>1, WorkerFacts
<1>2. UNCHANGED <<wanted, phase, exit, images, sum, unsalted, hashed, running, upto>>
  BY DEF ArchiveGenerated
<1> DEFINE Copied(W) == [tree EXCEPT ![Generated(v)] =
                           [f \in Files |-> IF f \in W THEN job[v].fs[f] ELSE tree[Generated(v)][f]]]
           all == job[v].newer \ job[v].kept
<1>3. \/ tree' = Copied(all) /\ job' = [job EXCEPT ![v] = [job[v] EXCEPT !.at = "sumopen"]]
      \/ \E W \in SUBSET all : tree' = Copied(W) /\ job' = [job EXCEPT ![v] = AfterFailure(job[v])]
  BY DEF ArchiveGenerated, Rsync, Generated
<1>4. all \in SUBSET Files
  BY <1>job DEF Job
<1>5. Data(v) # Generated(v) /\ \A p \in PasswordFiles : tree[Data(v)][p] # 0
  BY <1>job, <1>1 DEF Data, Generated, VolumeInv, KeptInv
<1>6. CASE tree' = Copied(all) /\ job' = [job EXCEPT ![v] = [job[v] EXCEPT !.at = "sumopen"]]
  <2> DEFINE j == [job[v] EXCEPT !.at = "sumopen"]
  <2>1. /\ tree' \in [Trees -> Content]
        /\ \A u \in Trees : u # Generated(v) => tree'[u] = tree[u]
        /\ \A u \in Trees, f \in ConfigFiles : tree[u][f] <= tree'[u][f]
        /\ \A u \in Trees, f \in Files : tree'[u][f] <= wanted
    BY <1>1, <1>2, <1>4, <1>6, CopiedTree
  <2>2. j \in Job /\ j.at = "sumopen" /\ j.fs = job[v].fs /\ j.ok = FALSE /\ j.kept = job[v].kept
    BY <1>job, AtPlace DEF JobStates, Scripting
  <2>3. job' = [job EXCEPT ![v] = j]
    BY <1>6
  <2> HIDE DEF j
  <2>4. job'[v] = j
    BY <2>3 DEF IInv, TypeOK
  <2>5. Data(v) \in Trees /\ Generated(v) \in Trees
    BY <1>1, WorkerFacts
  <2>6. KeptInv(v)'
    BY <1>job, <1>5, <2>1, <2>2, <2>4, <2>5 DEF KeptInv
  <2>7. /\ sum' \in [Trees -> Content \cup {None}]
        /\ \A u \in Trees : u \notin {Data(v), Generated(v)} => tree'[u] = tree[u] /\ sum'[u] = sum[u]
        /\ \A u \in Trees : sum'[u] # None => \A f \in Files : sum'[u][f] <= wanted
    BY <1>2, <2>1, <2>5 DEF IInv, TypeOK, NothingNewer
  <2>8. "sumopen" \in Applied1 /\ "sumopen" \notin Summed
    BY DEF Applied1, Summed
  <2>9. \A f \in ConfigFiles : tree'[Data(v)][f] = wanted
    BY <1>job, <1>1, <1>5, <2>1, <2>5 DEF VolumeInv, ScriptInv, Archived
  <2> QED
    BY <1>1, <1>2, <1>job, <2>1, <2>2, <2>3, <2>6, <2>7, <2>8, <2>9, ScriptMoves
<1>7. ASSUME NEW W \in SUBSET all, tree' = Copied(W), job' = [job EXCEPT ![v] = AfterFailure(job[v])]
      PROVE  IInv'
  <2>1. W \in SUBSET Files
    BY <1>4
  <2> QED
    BY <1>1, <1>2, <1>5, <1>7, <2>1, RsyncFails
<1> QED
  BY <1>3, <1>6, <1>7

\* A script that goes on after a change of one of the checksums.
LEMMA SumMoves ==
  ASSUME IInv, NEW v \in Volumes, job[v].at \in Archived \ {"gather"}, ~Idle(v),
         NEW place \in {"sumwrite", "gsumopen", "gsumwrite"},
         job' = [job EXCEPT ![v].at = place],
         NEW t \in {Data(v), Generated(v)}, NEW s \in Content \cup {None},
         sum' = [sum EXCEPT ![t] = s], s # None => \A f \in Files : s[f] <= wanted,
         place \in Summed => OfWanted(sum[Data(v)])',
         UNCHANGED <<wanted, phase, exit, images, tree, unsalted, hashed, running, upto>>
  PROVE  IInv'
<1> DEFINE j == [job[v] EXCEPT !.at = place]
<1>job. /\ job[v] \in Job /\ job[v].ok = FALSE /\ job[v].kept \subseteq PasswordFiles
      /\ VolumeInv(v) /\ images \subseteq Volumes
      /\ Data(v) \in Trees /\ Generated(v) \in Trees
  BY WorkerFacts
<1>1. /\ job[v].at \in Applied1 /\ job[v].at \in Archived
      /\ place \in Applied1 /\ place \in Archived /\ place \in JobStates
  BY DEF Applied1, Archived, JobStates, Scripting
<1>2. job' = [job EXCEPT ![v] = j]
  BY DEF IInv, TypeOK
<1>3. j \in Job /\ j.at = place /\ j.fs = job[v].fs /\ j.ok = FALSE /\ j.kept = job[v].kept
  BY <1>job, <1>1, AtPlace
<1> HIDE DEF j
<1>4. job'[v] = j
  BY <1>2 DEF IInv, TypeOK
<1>5. KeptInv(v)'
  BY <1>job, <1>3, <1>4 DEF VolumeInv, KeptInv
<1>6. /\ sum' \in [Trees -> Content \cup {None}]
      /\ \A u \in Trees : u \notin {Data(v), Generated(v)} => tree'[u] = tree[u] /\ sum'[u] = sum[u]
      /\ \A u \in Trees : sum'[u] # None => \A f \in Files : sum'[u][f] <= wanted
  BY DEF IInv, TypeOK, NothingNewer
<1>7. /\ tree' \in [Trees -> Content]
      /\ \A u \in Trees, f \in ConfigFiles : tree[u][f] <= tree'[u][f]
      /\ \A u \in Trees, f \in Files : tree'[u][f] <= wanted
  BY TreesBounded
<1>8. \A f \in ConfigFiles : tree'[Data(v)][f] = wanted
  BY <1>job, <1>1 DEF VolumeInv, ScriptInv
<1> QED
  BY <1>1, <1>2, <1>3, <1>job, <1>5, <1>6, <1>7, <1>8, ScriptMoves

\* What md5sum computes from a tree whose container has every file as wanted.
LEMMA ChecksumResult ==
  ASSUME IInv, NEW v \in Volumes, job[v].at \in Archived, ~Idle(v), NEW kind \in Kinds
  PROVE  /\ Checksum(v, kind) \in Content
         /\ \A f \in Files : Checksum(v, kind)[f] <= wanted
         /\ \A f \in ConfigFiles : Checksum(v, kind)[f] = tree[<<v, kind>>][f]
         /\ \A p \in PasswordFiles : Checksum(v, kind)[p] = wanted
<1>1. /\ <<v, kind>> \in Trees /\ wanted \in 0 .. MaxVersion /\ wanted # 0
      /\ \A f \in Files : tree[<<v, kind>>][f] \in 0 .. MaxVersion /\ tree[<<v, kind>>][f] <= wanted
  BY ConstantsAssumption DEF Trees, IInv, TypeOK, NothingNewer, Content
<1>2. \A f \in Files : job[v].fs[f] = wanted
  BY DEF IInv, JobsInv, ScriptInv, Archived, Applied1
<1>3. \A f \in Files : Checksum(v, kind)[f] = IF f \in PasswordFiles THEN wanted ELSE tree[<<v, kind>>][f]
  BY <1>1, <1>2 DEF Checksum
<1>4. Checksum(v, kind) \in Content
  BY <1>1, <1>2 DEF Checksum, Content
<1>5. wanted <= wanted /\ PasswordFiles \subseteq Files
  BY <1>1, ConstantsAssumption
<1>6. \A f \in Files : Checksum(v, kind)[f] <= wanted
  BY <1>1, <1>3, <1>5
<1> QED
  BY <1>3, <1>4, <1>5, <1>6 DEF ConfigFiles

\* Of a checksum of all of it, or of what its archive got to.
LEMMA SumResult ==
  ASSUME IInv, NEW v \in Volumes, job[v].at \in Archived, ~Idle(v), NEW kind \in Kinds,
         NEW s \in Sums(v, kind)
  PROVE  /\ s \in Content /\ s # None
         /\ \A f \in Files : s[f] <= wanted
         /\ \A f \in ConfigFiles : Covers(s[f], tree[<<v, kind>>][f])
         /\ \A p \in PasswordFiles : Covers(s[p], wanted)
<1> DEFINE c == Checksum(v, kind)
<1>1. /\ c \in Content
      /\ \A f \in Files : c[f] <= wanted
      /\ \A f \in ConfigFiles : c[f] = tree[<<v, kind>>][f]
      /\ \A p \in PasswordFiles : c[p] = wanted
  BY ChecksumResult
<1>2. PICK A \in {Files} \cup BrokenOff : s = [f \in Files |-> IF f \in A THEN c[f] ELSE 0]
  BY DEF Sums
<1>3. A = Files \/ BrokenOff # {}
  BY <1>2
<1> HIDE DEF c
<1>4. 0 <= wanted /\ 0 \in 0 .. MaxVersion
  BY ConstantsAssumption DEF IInv, TypeOK
<1>5. \A f \in Files : s[f] = c[f] \/ (BrokenOff # {} /\ s[f] = 0)
  BY <1>2, <1>3
<1>6. s \in Content
  BY <1>1, <1>2, <1>4 DEF Content
<1>7. s # None
  BY <1>6, ConstantsAssumption
<1>8. \A f \in Files : s[f] <= wanted
  BY <1>1, <1>4, <1>5
<1>9. /\ \A f \in ConfigFiles : Covers(s[f], tree[<<v, kind>>][f])
      /\ \A p \in PasswordFiles : Covers(s[p], wanted)
  BY <1>1, <1>5, ConstantsAssumption DEF Covers, ConfigFiles
<1> QED
  BY <1>6, <1>7, <1>8, <1>9

\* An attempt that fails at a checksum it cannot write.
LEMMA SumFails ==
  ASSUME IInv, NEW v \in Volumes, ~Idle(v), job' = [job EXCEPT ![v] = AfterFailure(job[v])],
         UNCHANGED <<wanted, phase, exit, images, tree, sum, unsalted, hashed, running, upto>>
  PROVE  IInv'
<1>1. /\ job[v] \in Job /\ job[v].ok = FALSE /\ VolumeInv(v)
      /\ \A f \in Files : job[v].fs[f] <= wanted
  BY WorkerFacts
<1>2. /\ tree' \in [Trees -> Content]
      /\ \A t \in Trees, f \in ConfigFiles : tree[t][f] <= tree'[t][f]
      /\ \A t \in Trees, f \in Files : tree'[t][f] <= wanted
  BY TreesBounded
<1>3. \A p \in PasswordFiles : tree'[Generated(v)][p] # 0 => tree'[Data(v)][p] # 0
  BY <1>1 DEF VolumeInv, KeptInv
<1> QED
  BY <1>1, <1>2, <1>3, AttemptFails

\* The first checksum: from here on the tree and its checksum agree, or the attempt fails.
LEMMA SumsKeep ==
  \A v \in Volumes :
    IInv /\ (\/ OpenSum(v, "data", "sumopen", "sumwrite")
            \/ WriteSum(v, "data", "sumwrite", "gsumopen")
            \/ OpenSum(v, "generated", "gsumopen", "gsumwrite")) => IInv'
<1> SUFFICES ASSUME NEW v \in Volumes, IInv PROVE
      (\/ OpenSum(v, "data", "sumopen", "sumwrite")
       \/ WriteSum(v, "data", "sumwrite", "gsumopen")
       \/ OpenSum(v, "generated", "gsumopen", "gsumwrite")) => IInv'
  OBVIOUS
<1>1. ASSUME OpenSum(v, "data", "sumopen", "sumwrite") PROVE IInv'
  <2>1. job[v].at \in Archived \ {"gather"} /\ ~Idle(v) /\ "sumwrite" \notin Summed
    BY <1>1 DEF OpenSum, Archived, Summed, Idle
  <2>2. UNCHANGED <<wanted, phase, exit, images, tree, unsalted, hashed, running, upto>>
    BY <1>1 DEF OpenSum
  <2>3. CASE job' = [job EXCEPT ![v].at = "sumwrite"] /\ sum' = [sum EXCEPT ![Data(v)] = None]
    BY <2>1, <2>2, <2>3, SumMoves
  <2>4. CASE job' = [job EXCEPT ![v] = AfterFailure(job[v])] /\ UNCHANGED sum
    BY <2>1, <2>2, <2>4, SumFails
  <2> QED
    BY <1>1, <2>3, <2>4 DEF OpenSum, Data
<1>2. ASSUME WriteSum(v, "data", "sumwrite", "gsumopen") PROVE IInv'
  <2>1. job[v].at = "sumwrite" /\ job[v].at \in Archived \ {"gather"} /\ job[v].at \in Archived /\ ~Idle(v)
    BY <1>2 DEF WriteSum, Archived, Idle
  <2>2. UNCHANGED <<wanted, phase, exit, images, tree, unsalted, hashed, running, upto>>
    BY <1>2 DEF WriteSum
  <2>3. ASSUME NEW s \in Sums(v, "data"),
               job' = [job EXCEPT ![v].at = "gsumopen"], sum' = [sum EXCEPT ![Data(v)] = s]
        PROVE  IInv'
    <3>1. /\ s \in Content /\ s # None
          /\ \A f \in Files : s[f] <= wanted
          /\ \A f \in ConfigFiles : Covers(s[f], tree[Data(v)][f])
          /\ \A p \in PasswordFiles : Covers(s[p], wanted)
      BY <2>1, SumResult DEF Data, Kinds
    <3>2. \A f \in ConfigFiles : tree[Data(v)][f] = wanted
      BY <2>1 DEF IInv, JobsInv, ScriptInv
    <3>3. \A f \in Files : Covers(s[f], wanted)
      BY <3>1, <3>2 DEF ConfigFiles
    <3>4. sum'[Data(v)] = s /\ wanted' = wanted
      BY <2>1, <2>2, <2>3, WorkerFacts DEF IInv, TypeOK
    <3>5. OfWanted(sum[Data(v)])'
      BY <3>1, <3>3, <3>4 DEF OfWanted
    <3>6. s \in Content \cup {None}
      BY <3>1
    <3> QED
      BY <2>1, <2>2, <2>3, <3>1, <3>5, <3>6, SumMoves
  <2>4. CASE job' = [job EXCEPT ![v] = AfterFailure(job[v])] /\ UNCHANGED sum
    BY <2>1, <2>2, <2>4, SumFails
  <2> QED
    BY <1>2, <2>3, <2>4 DEF WriteSum, Data
<1>3. ASSUME OpenSum(v, "generated", "gsumopen", "gsumwrite") PROVE IInv'
  <2>1. /\ job[v].at \in Archived \ {"gather"} /\ ~Idle(v) /\ job[v].at \in Summed
    BY <1>3 DEF OpenSum, Archived, Summed, Idle
  <2>2. UNCHANGED <<wanted, phase, exit, images, tree, unsalted, hashed, running, upto>>
    BY <1>3 DEF OpenSum
  <2>3. CASE job' = [job EXCEPT ![v].at = "gsumwrite"] /\ sum' = [sum EXCEPT ![Generated(v)] = None]
    <3>1. OfWanted(sum[Data(v)])
      BY <2>1 DEF IInv, JobsInv, ScriptInv
    <3>2. sum'[Data(v)] = sum[Data(v)] /\ wanted' = wanted
      BY <2>1, <2>2, <2>3, WorkerFacts DEF IInv, TypeOK
    <3>3. OfWanted(sum[Data(v)])'
      BY <3>1, <3>2 DEF OfWanted
    <3> QED
      BY <2>1, <2>2, <2>3, <3>3, SumMoves
  <2>4. CASE job' = [job EXCEPT ![v] = AfterFailure(job[v])] /\ UNCHANGED sum
    BY <2>1, <2>2, <2>4, SumFails
  <2> QED
    BY <1>3, <2>3, <2>4 DEF OpenSum, Generated
<1> QED
  BY <1>1, <1>2, <1>3

\* The last checksum is written, and the job is done.
Ends(v, s) ==
  /\ sum' = [sum EXCEPT ![Generated(v)] = s]
  /\ job' = [job EXCEPT ![v] = IF phase # "pool" THEN Gone
               ELSE [NewJob EXCEPT !.at = "ended", !.ok = TRUE, !.tries = job[v].tries]]

\* A job whose container has ended: its volume is complete.
LEMMA JobEnds ==
  ASSUME IInv, NEW v \in Volumes, job[v].at = "gsumwrite",
         UNCHANGED <<wanted, phase, exit, images, tree, unsalted, hashed, running, upto>>,
         NEW s \in Sums(v, "generated"), Ends(v, s)
  PROVE  IInv'
<1> DEFINE done == [NewJob EXCEPT !.at = "ended", !.ok = TRUE, !.tries = job[v].tries]
           j == IF phase # "pool" THEN Gone ELSE done
<1>1. /\ job[v].at = "gsumwrite" /\ job[v].at \in Archived /\ job[v].at \in Summed /\ ~Idle(v)
  BY DEF Archived, Summed, Idle
<1>2. /\ job' = [job EXCEPT ![v] = j]
      /\ sum' = [sum EXCEPT ![Generated(v)] = s]
      /\ UNCHANGED <<wanted, phase, exit, images, tree, unsalted, hashed, running, upto>>
  BY DEF Ends
<1>3. /\ s \in Content /\ s # None
      /\ \A f \in Files : s[f] <= wanted
      /\ \A f \in ConfigFiles : Covers(s[f], tree[Generated(v)][f])
      /\ \A p \in PasswordFiles : Covers(s[p], wanted)
  BY <1>1, SumResult DEF Generated, Kinds
<1>job. /\ job[v] \in Job /\ VolumeInv(v) /\ images \subseteq Volumes /\ 1 <= wanted
      /\ Data(v) \in Trees /\ Generated(v) \in Trees /\ Data(v) # Generated(v)
  BY <1>1, WorkerFacts
<1>4. /\ done \in Job /\ done.at = "ended" /\ done.kept = {} /\ done.fs = NewJob.fs
  BY <1>job, NewJobs DEF Job, JobStates
<1> HIDE DEF done
<1>5. /\ j \in Job /\ j.at \in {"ended", "gone"} /\ j.kept = {}
      /\ (j.ok => phase = "pool") /\ (j.ok => j.at = "ended")
      /\ \A f \in Files : j.fs[f] = 0
  BY <1>4, NewJobs
<1> HIDE DEF j
<1>6. job'[v] = j /\ \A w \in Volumes : w # v => job'[w] = job[w]
  BY <1>2 DEF IInv, TypeOK
<1>7. /\ sum' \in [Trees -> Content \cup {None}] /\ sum'[Generated(v)] = s
      /\ \A t \in Trees : t # Generated(v) => sum'[t] = sum[t]
  BY <1>2, <1>3, <1>job DEF IInv, TypeOK
<1>8. /\ \A f \in ConfigFiles : tree[Data(v)][f] = wanted
      /\ OfWanted(sum[Data(v)])
  BY <1>job, <1>1 DEF VolumeInv, ScriptInv
<1>10. Complete(v)'
  BY <1>2, <1>3, <1>7, <1>8, <1>job DEF Complete, Good, Data, OfWanted
<1>11. OkInv(v)'
  BY <1>5, <1>6, <1>10 DEF OkInv
<1>12. KeptInv(v)'
  BY <1>2, <1>5, <1>6, <1>job DEF VolumeInv, KeptInv
<1>13. AttemptsLeft(v)' /\ ScriptInv(v)'
  BY <1>5, <1>6 DEF AttemptsLeft, ScriptInv, Applied1, Archived, Summed
<1>14. NothingNewer'
  <2>1. \A w \in Volumes, f \in Files : job'[w].fs[f] <= wanted
    <3>1. \A f \in Files : job'[v].fs[f] <= wanted
      <4>1. 0 <= wanted
        BY DEF IInv, TypeOK
      <4> QED
        BY <1>5, <1>6, <4>1
    <3>2. \A w \in Volumes, f \in Files : w # v => job'[w].fs[f] <= wanted
      BY <1>6 DEF IInv, NothingNewer
    <3> QED
      BY <3>1, <3>2
  <2>2. \A t \in Trees : sum'[t] # None => \A f \in Files : sum'[t][f] <= wanted
    BY <1>3, <1>7 DEF IInv, NothingNewer
  <2> QED
    BY <1>2, <2>1, <2>2 DEF IInv, NothingNewer
<1>15. /\ tree' \in [Trees -> Content]
       /\ \A u \in Trees, f \in ConfigFiles : tree[u][f] <= tree'[u][f]
       /\ \A u \in Trees : u \notin {Data(v), Generated(v)} => tree'[u] = tree[u] /\ sum'[u] = sum[u]
       /\ images' \subseteq Volumes /\ VolumeInv(v)'
  BY <1>2, <1>7, <1>11, <1>12, <1>13, <1>job, TreesBounded DEF VolumeInv
<1> QED
  BY <1>1, <1>2, <1>5, <1>7, <1>14, <1>15, WorkerStep

\* The second checksum, with which a container ends and the job is done.
LEMMA LastSumKeeps ==
  \A v \in Volumes : IInv /\ WriteSum(v, "generated", "gsumwrite", "ended") => IInv'
<1> SUFFICES ASSUME NEW v \in Volumes, IInv, WriteSum(v, "generated", "gsumwrite", "ended") PROVE IInv'
  OBVIOUS
<1>1. /\ ~Idle(v) /\ job[v].at = "gsumwrite"
      /\ UNCHANGED <<wanted, phase, exit, images, tree, unsalted, hashed, running, upto>>
  BY DEF WriteSum, Idle
<1>2. CASE job' = [job EXCEPT ![v] = AfterFailure(job[v])] /\ UNCHANGED sum
  BY <1>1, <1>2, SumFails
<1>3. ASSUME NEW s \in Sums(v, "generated"), Ends(v, s) PROVE IInv'
  BY <1>1, <1>3, JobEnds
<1> QED
  BY <1>2, <1>3 DEF WriteSum, Ends, Generated

\* Every step of a worker and of its container.
LEMMA WorkersKeep ==
  \A v \in Volumes : IInv /\ (Start(v) \/ PullImage(v) \/ RunContainer(v) \/ Script(v)) => IInv'
BY StartKeeps, PullKeeps, RunKeeps, PuppetKeeps, ExcludeKeeps, DataKeeps, GeneratedKeeps, SumsKeep,
   LastSumKeeps DEF Script

(***************************************************************************)
(* The parent and the rest of the play                                     *)
(***************************************************************************)

\* New parameters make everything old; nothing on the host changes.
LEMMA ChangeKeeps == IInv /\ ChangeParameters => IInv'
<1> SUFFICES ASSUME IInv, ChangeParameters PROVE IInv'
  OBVIOUS
<1>1. /\ wanted' = wanted + 1 /\ wanted' \in 1 .. MaxVersion /\ wanted \in Int
      /\ exit' = None /\ exit' # 0 /\ upto' = 0 /\ phase = "idle" /\ \A v \in Volumes : Idle(v)
      /\ UNCHANGED <<phase, job, images, tree, sum, unsalted, hashed, running>>
  BY ConstantsAssumption DEF ChangeParameters, IInv, TypeOK
<1>2. TypeOK'
  BY <1>1, ConstantsAssumption DEF IInv, TypeOK
<1>3. NothingNewer'
  <2>1. \A n \in Int : n <= wanted => n <= wanted'
    BY <1>1
  <2>2. /\ \A v \in Volumes, f \in Files : job[v].fs[f] \in Int
        /\ \A t \in Trees, f \in Files : tree[t][f] \in Int
        /\ \A t \in Trees : sum[t] # None => \A f \in Files : sum[t][f] \in Int
    BY ConstantsAssumption DEF IInv, TypeOK, Job, Content
  <2> QED
    BY <1>1, <2>1, <2>2 DEF IInv, NothingNewer
<1>4. ASSUME NEW v \in Volumes
      PROVE  AttemptsLeft(v)' /\ ScriptInv(v)' /\ OkInv(v)' /\ KeptInv(v)'
  <2>1. AttemptsLeft(v) /\ OkInv(v) /\ KeptInv(v) /\ Idle(v)
    BY <1>1 DEF IInv, JobsInv
  <2>2. ScriptInv(v)'
    BY <1>1, <2>1 DEF ScriptInv, Idle, Applied1, Archived, Summed
  <2> QED
    BY <1>1, <2>1, <2>2 DEF AttemptsLeft, OkInv, KeptInv
<1>5. ParentInv'
  BY <1>1 DEF ParentInv
<1>6. ASSUME NEW c \in Startup PROVE RunningInv(c)' /\ AppliedInv(c)'
  BY <1>1 DEF IInv, ContainersInv, RunningInv, AppliedInv, LoadedBetween
<1> QED
  BY <1>2, <1>3, <1>4, <1>5, <1>6 DEF IInv, JobsInv, ContainersInv

\* A run of container-puppet.py begins, with nothing salted and every job queued.
LEMMA LaunchKeeps == IInv /\ Launch => IInv'
<1> SUFFICES ASSUME IInv, Launch PROVE IInv'
  OBVIOUS
<1>1. /\ phase' = "pool" /\ exit' = None /\ exit' # 0 /\ upto' = 0
      /\ job' = [v \in Volumes |-> NewJob]
      /\ UNCHANGED <<wanted, images, tree, sum, unsalted, hashed, running>>
  BY ConstantsAssumption DEF Launch
<1>2. \A v \in Volumes : job'[v] = NewJob
  BY <1>1
<1>3. TypeOK'
  BY <1>1, NewJobs, ConstantsAssumption DEF IInv, TypeOK
<1>4. NothingNewer'
  <2>1. 0 <= wanted
    BY DEF IInv, TypeOK
  <2> QED
    BY <1>1, <1>2, <2>1, NewJobs DEF IInv, NothingNewer
<1>5. ASSUME NEW v \in Volumes
      PROVE  AttemptsLeft(v)' /\ ScriptInv(v)' /\ OkInv(v)' /\ KeptInv(v)'
  <2>1. KeptInv(v)
    BY DEF IInv, JobsInv
  <2> QED
    BY <1>1, <1>2, <2>1, NewJobs
       DEF AttemptsLeft, ScriptInv, OkInv, KeptInv, Applied1, Archived, Summed
<1>6. ParentInv'
  BY <1>1 DEF ParentInv
<1>7. ASSUME NEW c \in Startup PROVE RunningInv(c)' /\ AppliedInv(c)'
  BY <1>1 DEF IInv, ContainersInv, RunningInv, AppliedInv, LoadedBetween
<1> QED
  BY <1>3, <1>4, <1>5, <1>6, <1>7 DEF IInv, JobsInv, ContainersInv

\* The parent sees the pool's results: it goes on to the salts when all have
\* ended, and decides on the exit status by whether each is done.
LEMMA CollectKeeps == IInv /\ Collect => IInv'
<1> SUFFICES ASSUME IInv, Collect PROVE IInv'
  OBVIOUS
<1>1. /\ phase = "pool" /\ phase' = "salt" /\ exit # 0
      /\ \A v \in Volumes : job[v].at = "ended"
      /\ unsalted' = {StepOf[c] : c \in Startup}
      /\ UNCHANGED <<wanted, exit, job, images, tree, sum, hashed, running, upto>>
  BY DEF Collect, IInv, ParentInv
<1>2. TypeOK'
  BY <1>1, ConstantsAssumption DEF IInv, TypeOK
<1>3. NothingNewer'
  BY <1>1 DEF IInv, NothingNewer
<1>4. ASSUME NEW v \in Volumes
      PROVE  AttemptsLeft(v)' /\ ScriptInv(v)' /\ OkInv(v)' /\ KeptInv(v)'
  <2>1. AttemptsLeft(v) /\ ScriptInv(v) /\ OkInv(v) /\ KeptInv(v)
    BY DEF IInv, JobsInv
  <2> QED
    BY <1>1, <2>1 DEF AttemptsLeft, ScriptInv, OkInv, KeptInv, Complete, Good, OfWanted
<1>5. ParentInv'
  BY <1>1 DEF IInv, ParentInv
<1>6. ASSUME NEW c \in Startup PROVE RunningInv(c)' /\ AppliedInv(c)'
  BY <1>1 DEF IInv, ContainersInv, RunningInv, AppliedInv, LoadedBetween
<1> QED
  BY <1>2, <1>3, <1>4, <1>5, <1>6 DEF IInv, JobsInv, ContainersInv

\* The parent dies of a worker's exception; containers that run are left behind.
LEMMA RaiseKeeps == IInv /\ Raise => IInv'
<1> SUFFICES ASSUME IInv, Raise PROVE IInv'
  OBVIOUS
<1>1. /\ phase = "pool" /\ phase' = "idle" /\ exit' = 1 /\ exit # 0 /\ upto = 0
      /\ job' = [v \in Volumes |-> IF job[v].at \in Scripting THEN job[v] ELSE Gone]
      /\ UNCHANGED <<wanted, images, tree, sum, unsalted, hashed, running, upto>>
  BY DEF Raise, IInv, ParentInv
<1>2. \A v \in Volumes : (job'[v] = job[v] /\ job[v].at \in Scripting) \/ job'[v] = Gone
  BY <1>1
<1>3. TypeOK'
  BY <1>1, NewJobs DEF IInv, TypeOK
<1>4. NothingNewer'
  <2>1. 0 <= wanted
    BY DEF IInv, TypeOK
  <2> QED
    BY <1>1, <1>2, <2>1, NewJobs DEF IInv, NothingNewer
<1>5. ASSUME NEW v \in Volumes
      PROVE  AttemptsLeft(v)' /\ ScriptInv(v)' /\ OkInv(v)' /\ KeptInv(v)'
  <2>1. AttemptsLeft(v) /\ ScriptInv(v) /\ OkInv(v) /\ KeptInv(v)
    BY DEF IInv, JobsInv
  <2>2. CASE job'[v] = job[v] /\ job[v].at \in Scripting
    BY <1>1, <2>1, <2>2 DEF AttemptsLeft, ScriptInv, OkInv, KeptInv, OfWanted, Scripting
  <2>3. CASE job'[v] = Gone
    BY <1>1, <2>1, <2>3, NewJobs
       DEF AttemptsLeft, ScriptInv, OkInv, KeptInv, Applied1, Archived, Summed
  <2> QED
    BY <1>2, <2>2, <2>3
<1>6. ParentInv'
  BY <1>1 DEF ParentInv
<1>7. ASSUME NEW c \in Startup PROVE RunningInv(c)' /\ AppliedInv(c)'
  BY <1>1 DEF IInv, ContainersInv, RunningInv, AppliedInv, LoadedBetween
<1> QED
  BY <1>3, <1>4, <1>5, <1>6, <1>7 DEF IInv, JobsInv, ContainersInv

\* The parent writes the startup file of one step, salted with the checksums it reads.
LEMMA HashedKeeps == \A s \in Steps : IInv /\ WriteHashed(s) => IInv'
<1> SUFFICES ASSUME NEW s \in Steps, IInv, WriteHashed(s) PROVE IInv'
  OBVIOUS
<1>1. /\ phase = "salt" /\ exit # 0 /\ s \in unsalted /\ unsalted' = unsalted \ {s}
      /\ hashed' = [c \in Startup |-> IF StepOf[c] = s THEN Salt(c) ELSE hashed[c]]
      /\ UNCHANGED <<wanted, phase, exit, job, images, tree, sum, running, upto>>
  BY DEF WriteHashed, IInv, ParentInv
<1>2. ASSUME NEW c \in Startup
      PROVE  /\ hashed'[c] \in {None} \cup [Matched[c] -> Content \cup {None}]
             /\ Salt(c)' = Salt(c)
             /\ StepOf[c] \notin unsalted' => hashed'[c] = Salt(c)
  <2>1. Salt(c) \in [Matched[c] -> Content \cup {None}]
    BY ConstantsAssumption DEF Salt, IInv, TypeOK
  <2>2. hashed[c] \in {None} \cup [Matched[c] -> Content \cup {None}]
    BY DEF IInv, TypeOK
  <2>3. StepOf[c] \notin unsalted => hashed[c] = Salt(c)
    BY <1>1 DEF IInv, ParentInv
  <2>4. Salt(c)' = Salt(c)
    BY <1>1 DEF Salt
  <2> HIDE DEF Salt
  <2> QED
    BY <1>1, <2>1, <2>2, <2>3, <2>4
<1>3. TypeOK'
  BY <1>1, <1>2 DEF IInv, TypeOK
<1>4. NothingNewer'
  BY <1>1 DEF IInv, NothingNewer
<1>5. ASSUME NEW v \in Volumes
      PROVE  AttemptsLeft(v)' /\ ScriptInv(v)' /\ OkInv(v)' /\ KeptInv(v)'
  <2>1. AttemptsLeft(v) /\ ScriptInv(v) /\ OkInv(v) /\ KeptInv(v)
    BY DEF IInv, JobsInv
  <2> QED
    BY <1>1, <2>1 DEF AttemptsLeft, ScriptInv, OkInv, KeptInv, Complete, Good, OfWanted
<1>6. ParentInv'
  BY <1>1, <1>2 DEF IInv, ParentInv
<1>7. ASSUME NEW c \in Startup PROVE RunningInv(c)' /\ AppliedInv(c)'
  BY <1>1 DEF IInv, ContainersInv, RunningInv, AppliedInv, LoadedBetween
<1> QED
  BY <1>3, <1>4, <1>5, <1>6, <1>7 DEF IInv, JobsInv, ContainersInv

\* A startup file that cannot be written ends the parent without a success.
LEMMA HashedFailsKeeps == \A s \in Steps : IInv /\ HashedFails(s) => IInv'
<1> SUFFICES ASSUME NEW s \in Steps, IInv, HashedFails(s) PROVE IInv'
  OBVIOUS
<1>1. /\ phase' = "idle" /\ exit' = 1 /\ exit # 0 /\ upto = 0 /\ unsalted' = {}
      /\ \A c \in Startup : hashed'[c] \in {None, hashed[c]}
      /\ UNCHANGED <<wanted, job, images, tree, sum, running, upto>>
  BY DEF HashedFails, IInv, ParentInv
<1>2. TypeOK'
  BY <1>1 DEF IInv, TypeOK
<1>3. NothingNewer'
  BY <1>1 DEF IInv, NothingNewer
<1>4. ASSUME NEW v \in Volumes
      PROVE  AttemptsLeft(v)' /\ ScriptInv(v)' /\ OkInv(v)' /\ KeptInv(v)'
  <2>1. AttemptsLeft(v) /\ ScriptInv(v) /\ OkInv(v) /\ KeptInv(v)
    BY DEF IInv, JobsInv
  <2> QED
    BY <1>1, <2>1 DEF AttemptsLeft, ScriptInv, OkInv, KeptInv, OfWanted
<1>5. ParentInv'
  BY <1>1 DEF ParentInv
<1>6. ASSUME NEW c \in Startup PROVE RunningInv(c)' /\ AppliedInv(c)'
  BY <1>1 DEF IInv, ContainersInv, RunningInv, AppliedInv, LoadedBetween
<1> QED
  BY <1>2, <1>3, <1>4, <1>5, <1>6 DEF IInv, JobsInv, ContainersInv

\* The parent exits when every step is salted, with the status decided before.
LEMMA ExitKeeps == IInv /\ Exit => IInv'
<1> SUFFICES ASSUME IInv, Exit PROVE IInv'
  OBVIOUS
<1>1. /\ phase = "salt" /\ unsalted = {} /\ exit # 0 /\ upto = 0
      /\ UNCHANGED <<wanted, job, images, tree, sum, unsalted, hashed, running, upto>>
      /\ \A c \in Startup : hashed[c] = Salt(c)
      /\ \/ exit' = 0 /\ phase' = "up" /\ \A v \in Volumes : job[v].ok
         \/ exit' = 1 /\ phase' = "idle"
  BY DEF Exit, IInv, ParentInv
<1>2. TypeOK'
  BY <1>1 DEF IInv, TypeOK
<1>3. NothingNewer'
  BY <1>1 DEF IInv, NothingNewer
<1>4. ASSUME NEW v \in Volumes
      PROVE  AttemptsLeft(v)' /\ ScriptInv(v)' /\ OkInv(v)' /\ KeptInv(v)'
  <2>1. AttemptsLeft(v) /\ ScriptInv(v) /\ OkInv(v) /\ KeptInv(v)
    BY DEF IInv, JobsInv
  <2> QED
    BY <1>1, <2>1 DEF AttemptsLeft, ScriptInv, OkInv, KeptInv, Complete, Good, OfWanted
<1>5. ParentInv'
  BY <1>1 DEF ParentInv, Salt
<1>6. ASSUME NEW c \in Startup PROVE RunningInv(c)' /\ AppliedInv(c)'
  <2>1. ~(StepOf[c] <= 0)
    BY ConstantsAssumption DEF Steps
  <2> QED
    BY <1>1, <2>1 DEF IInv, ContainersInv, RunningInv, AppliedInv, LoadedBetween
<1> QED
  BY <1>2, <1>3, <1>4, <1>5, <1>6 DEF IInv, JobsInv, ContainersInv

\* After exit status 0 every checksum is there, and is that of the tree beside it.
LEMMA SaltIsSound ==
  ASSUME IInv, exit = 0, NEW c \in Startup
  PROVE  /\ hashed[c] = Salt(c) /\ Salt(c) \in [Matched[c] -> Content]
         /\ \A m \in Matched[c], f \in ConfigFiles : Covers(Salt(c)[m][f], tree[m][f])
         /\ \A m \in Matched[c], p \in PasswordFiles : Covers(Salt(c)[m][p], wanted)
<1>1. hashed[c] = Salt(c) /\ \A v \in Volumes : Complete(v)
  BY DEF IInv, ParentInv, JobsInv, OkInv
<1>2. ASSUME NEW m \in Matched[c]
      PROVE  /\ m \in Trees /\ sum[m] \in Content
             /\ \A f \in ConfigFiles : Covers(sum[m][f], tree[m][f])
             /\ \A p \in PasswordFiles : Covers(sum[m][p], wanted)
  <2>1. m \in Trees
    BY ConstantsAssumption
  <2>2. PICK v \in Volumes : m = Data(v) \/ m = Generated(v)
    BY <2>1 DEF Trees, Kinds, Data, Generated
  <2>3. ConfigFiles \subseteq Files /\ PasswordFiles \subseteq Files /\ sum[m] \in Content \cup {None}
    BY <2>1, ConstantsAssumption DEF ConfigFiles, IInv, TypeOK
  <2>4. CASE m = Data(v)
    <3>1. OfWanted(sum[m]) /\ \A f \in ConfigFiles : tree[m][f] = wanted
      BY <1>1, <2>4 DEF Complete, Good, Data
    <3> QED
      BY <2>1, <2>3, <3>1 DEF OfWanted
  <2>5. CASE m = Generated(v)
    BY <1>1, <2>1, <2>3, <2>5 DEF Complete
  <2> QED
    BY <2>2, <2>4, <2>5
<1>3. \A m \in Matched[c] : Salt(c)[m] = sum[m]
  BY DEF Salt
<1> QED
  BY <1>1, <1>2, <1>3 DEF Salt

\* paunch applies a set of containers of the next step, truthfully salted all of them.
LEMMA AppliedContainers ==
  ASSUME IInv, exit = 0, UNCHANGED tree, NEW C \in SUBSET Startup, running' = Applied(C)
  PROVE  /\ \A c \in Startup \ C : running'[c] = running[c]
         /\ \A c \in C : /\ running'[c] \in Container(c) /\ LoadedBetween(c)'
                         /\ \A m \in Matched[c], f \in ConfigFiles :
                              hashed[c][m][f] = tree[m][f] => running'[c].loaded[m][f] = tree[m][f]
<1>1. \A c \in Startup \ C : running'[c] = running[c]
  BY DEF Applied
<1>2. ASSUME NEW c \in C
      PROVE  /\ running'[c] \in Container(c) /\ LoadedBetween(c)'
             /\ \A m \in Matched[c], f \in ConfigFiles :
                  hashed[c][m][f] = tree[m][f] => running'[c].loaded[m][f] = tree[m][f]
  <2>1. /\ hashed[c] = Salt(c) /\ Salt(c) \in [Matched[c] -> Content]
        /\ \A m \in Matched[c], f \in ConfigFiles : Covers(Salt(c)[m][f], tree[m][f])
    BY SaltIsSound
  <2>2. /\ \A m \in Matched[c] : m \in Trees /\ m \in Mounted[c]
        /\ \A m \in Mounted[c] : m \in Trees
        /\ \A m \in Matched[c], f \in ConfigFiles : tree[m][f] \in 0 .. MaxVersion
    BY ConstantsAssumption DEF IInv, TypeOK, Content, ConfigFiles
  <2>5. \A m \in Matched[c], f \in ConfigFiles : Salt(c)[m][f] \in Int /\ Salt(c)[m][f] <= tree[m][f]
    <3> HIDE DEF Salt
    <3> QED
      BY <2>1, <2>2 DEF Covers
  <2>3. CASE running[c] = None \/ running[c].salt # hashed[c]
    <3>1. running'[c] = [salt |-> hashed[c], loaded |-> Loaded(c)]
      BY <2>3 DEF Applied
    <3>2. Loaded(c) \in [Mounted[c] -> Content] /\ \A m \in Matched[c] : Loaded(c)[m] = tree[m]
      BY <2>2 DEF Loaded, IInv, TypeOK
    <3>3. running'[c].salt = Salt(c) /\ running'[c].loaded = Loaded(c) /\ running'[c] \in Container(c)
      BY <2>1, <3>1, <3>2 DEF Container
    <3> QED
      BY <2>1, <2>2, <2>5, <3>2, <3>3 DEF LoadedBetween
  <2>4. CASE running[c] # None /\ running[c].salt = hashed[c]
    <3>1. running'[c] = running[c]
      BY <2>4 DEF Applied
    <3>2. running[c] \in Container(c) /\ LoadedBetween(c)
      BY <2>4 DEF IInv, ContainersInv, RunningInv
    <3>3. \A m \in Matched[c], f \in ConfigFiles : running[c].loaded[m][f] \in Int
      BY <2>2, <3>2, ConstantsAssumption DEF Container, Content, ConfigFiles
    <3>4. \A m \in Matched[c], f \in ConfigFiles :
            hashed[c][m][f] = tree[m][f] => running[c].loaded[m][f] = tree[m][f]
      BY <2>1, <2>2, <2>4, <3>2, <3>3 DEF LoadedBetween
    <3> QED
      BY <3>1, <3>2, <3>4 DEF LoadedBetween
  <2> QED
    BY <2>3, <2>4
<1> QED
  BY <1>1, <1>2

\* paunch starts the containers of the next step from the salted startup file.
LEMMA PaunchKeeps == IInv /\ PaunchApply => IInv'
<1> SUFFICES ASSUME IInv, PaunchApply PROVE IInv'
  OBVIOUS
<1> DEFINE C == {c \in Startup : StepOf[c] = upto + 1}
<1>1. /\ phase = "up" /\ exit = 0 /\ upto \in 0 .. MaxStep /\ upto < MaxStep
      /\ UNCHANGED <<wanted, exit, job, images, tree, sum, unsalted, hashed>>
      /\ phase' \in {"idle", "up"}
  BY DEF PaunchApply, IInv, ParentInv, TypeOK
<1>2. PICK W \in SUBSET C : running' = Applied(W) /\ (upto' = upto \/ (upto' = upto + 1 /\ W = C))
  <2>1. \/ running' = Applied(C) /\ upto' = upto + 1
        \/ \E W \in SUBSET C : running' = Applied(W) /\ upto' = upto
    BY DEF PaunchApply
  <2> HIDE DEF C
  <2> QED
    BY <2>1
<1>3. W \in SUBSET Startup
  BY DEF C
<1>4. /\ \A c \in Startup \ W : running'[c] = running[c]
      /\ \A c \in W : /\ running'[c] \in Container(c) /\ LoadedBetween(c)'
                      /\ \A m \in Matched[c], f \in ConfigFiles :
                           hashed[c][m][f] = tree[m][f] => running'[c].loaded[m][f] = tree[m][f]
  BY <1>1, <1>2, <1>3, AppliedContainers
<1>5. ASSUME NEW c \in Startup PROVE RunningInv(c)'
  BY <1>1, <1>4 DEF IInv, ContainersInv, RunningInv, LoadedBetween
<1>6. ASSUME NEW c \in Startup PROVE AppliedInv(c)'
  <2>1. CASE c \in W
    BY <1>1, <1>4, <2>1 DEF AppliedInv
  <2>2. CASE c \notin W
    <3>1. StepOf[c] <= upto' => StepOf[c] <= upto
      BY <1>1, <1>2, <2>2, ConstantsAssumption DEF Steps
    <3>2. AppliedInv(c)
      BY DEF IInv, ContainersInv
    <3> QED
      BY <1>1, <1>4, <2>2, <3>1, <3>2 DEF AppliedInv
  <2> QED
    BY <2>1, <2>2
<1>7. TypeOK'
  <2>1. \A c \in Startup : running'[c] = None \/ running'[c].loaded \in [Mounted[c] -> Content]
    BY <1>5 DEF RunningInv, Container
  <2>2. upto' \in 0 .. MaxStep
    BY <1>1, <1>2, ConstantsAssumption
  <2> QED
    BY <1>1, <2>1, <2>2 DEF IInv, TypeOK
<1>8. NothingNewer'
  BY <1>1 DEF IInv, NothingNewer
<1>9. ASSUME NEW v \in Volumes
      PROVE  AttemptsLeft(v)' /\ ScriptInv(v)' /\ OkInv(v)' /\ KeptInv(v)'
  <2>1. AttemptsLeft(v) /\ ScriptInv(v) /\ OkInv(v) /\ KeptInv(v)
    BY DEF IInv, JobsInv
  <2> QED
    BY <1>1, <2>1 DEF AttemptsLeft, ScriptInv, OkInv, KeptInv, Complete, Good, OfWanted
<1>10. ParentInv'
  BY <1>1 DEF IInv, ParentInv, Salt
<1> QED
  BY <1>5, <1>6, <1>7, <1>8, <1>9, <1>10 DEF IInv, JobsInv, ContainersInv

\* The mysql task replaces an archived password by the one it has set in the database.
LEMMA RegenerateKeeps ==
  \A v \in Volumes, p \in PasswordFiles : IInv /\ RegeneratePassword(v, p) => IInv'
<1> SUFFICES ASSUME NEW v \in Volumes, NEW p \in PasswordFiles, IInv, RegeneratePassword(v, p)
             PROVE  IInv'
  OBVIOUS
<1> DEFINE new == [tree[Generated(v)] EXCEPT ![p] = wanted]
<1>1. /\ phase = "up" /\ exit = 0 /\ tree[Generated(v)][p] # 0
      /\ tree' = [tree EXCEPT ![Generated(v)] = new]
      /\ UNCHANGED <<wanted, phase, exit, job, images, sum, unsalted, hashed, running, upto>>
  BY DEF RegeneratePassword, Generated, IInv, ParentInv
<1>2. /\ wanted \in 0 .. MaxVersion /\ wanted \in Int /\ p \in Files /\ p \notin ConfigFiles
      /\ Generated(v) \in Trees /\ tree[Generated(v)] \in Content /\ ConfigFiles \subseteq Files
  BY ConstantsAssumption DEF IInv, TypeOK, ConfigFiles, Generated, Trees, Kinds
<1>3. /\ new \in Content /\ new[p] = wanted
      /\ \A f \in Files : f # p => new[f] = tree[Generated(v)][f]
  BY <1>2 DEF Content
<1> HIDE DEF new
<1>4. /\ tree' \in [Trees -> Content]
      /\ \A t \in Trees : t # Generated(v) => tree'[t] = tree[t]
      /\ \A t \in Trees, f \in ConfigFiles : tree'[t][f] = tree[t][f]
      /\ tree'[Generated(v)] = new
  BY <1>1, <1>2, <1>3 DEF IInv, TypeOK
<1>5. TypeOK'
  BY <1>1, <1>4 DEF IInv, TypeOK
<1>6. NothingNewer'
  <2>1. wanted <= wanted
    BY <1>2
  <2>2. \A t \in Trees, f \in Files : tree'[t][f] <= wanted
    BY <1>2, <1>3, <1>4, <2>1 DEF IInv, NothingNewer
  <2> QED
    BY <1>1, <2>2 DEF IInv, NothingNewer
<1>7. ASSUME NEW w \in Volumes
      PROVE  AttemptsLeft(w)' /\ ScriptInv(w)' /\ OkInv(w)' /\ KeptInv(w)'
  <2>1. /\ AttemptsLeft(w) /\ ScriptInv(w) /\ OkInv(w) /\ KeptInv(w)
        /\ job[w].ok /\ job[w].at = "ended" /\ Complete(w)
    BY <1>1 DEF IInv, JobsInv, ParentInv, OkInv
  <2>2. /\ Data(w) \in Trees /\ Generated(w) \in Trees /\ Data(w) # Generated(v)
    BY DEF Data, Generated, Trees, Kinds
  <2>3. AttemptsLeft(w)' /\ ScriptInv(w)'
    BY <1>1, <2>1 DEF AttemptsLeft, ScriptInv, Applied1, Archived, Summed
  <2>4. OkInv(w)'
    BY <1>1, <1>4, <2>1, <2>2 DEF OkInv, Complete, Good, OfWanted, Data
  <2>5. \A q \in PasswordFiles : tree'[Generated(w)][q] # 0 => tree[Generated(w)][q] # 0
    BY <1>1, <1>2, <1>3, <1>4, <2>2, ConstantsAssumption
  <2>6. KeptInv(w)'
    BY <1>1, <1>4, <2>1, <2>2, <2>5 DEF KeptInv
  <2> QED
    BY <2>3, <2>4, <2>6
<1>8. ParentInv'
  BY <1>1 DEF IInv, ParentInv, Salt
<1>9. ASSUME NEW c \in Startup PROVE RunningInv(c)' /\ AppliedInv(c)'
  <2>1. \A m \in Matched[c] : m \in Trees
    BY ConstantsAssumption
  <2> QED
    BY <1>1, <1>4, <2>1 DEF IInv, ContainersInv, RunningInv, AppliedInv, LoadedBetween
<1> QED
  BY <1>5, <1>6, <1>7, <1>8, <1>9 DEF IInv, JobsInv, ContainersInv

\* A reboot ends the run and its containers wherever they are; trees and checksums stay.
LEMMA RebootKeeps == IInv /\ Reboot => IInv'
<1> SUFFICES ASSUME IInv, Reboot PROVE IInv'
  OBVIOUS
<1>1. /\ phase' = "idle" /\ exit' = None /\ exit' # 0 /\ upto' = 0 /\ unsalted' = {}
      /\ job' = [v \in Volumes |-> Gone]
      /\ running' = [c \in Startup |-> IF running[c] = None THEN None
                                       ELSE [running[c] EXCEPT !.loaded = Loaded(c)]]
      /\ UNCHANGED <<wanted, images, tree, sum>>
      /\ \A c \in Startup : hashed'[c] \in {None, hashed[c]}
  BY ConstantsAssumption DEF Reboot
<1>2. \A v \in Volumes : job'[v] = Gone
  BY <1>1
<1>3. ASSUME NEW c \in Startup PROVE RunningInv(c)'
  <2>1. CASE running[c] = None
    BY <1>1, <2>1 DEF RunningInv
  <2>2. CASE running[c] # None
    <3>1. running[c] \in Container(c) /\ LoadedBetween(c)
      BY <2>2 DEF IInv, ContainersInv, RunningInv
    <3>2. /\ Loaded(c) \in [Mounted[c] -> Content]
          /\ \A m \in Matched[c] : Loaded(c)[m] = tree[m] /\ m \in Trees /\ m \in Mounted[c]
      BY ConstantsAssumption DEF Loaded, IInv, TypeOK
    <3>3. running'[c] = [running[c] EXCEPT !.loaded = Loaded(c)]
      BY <1>1, <2>2
    <3>4. /\ running'[c] \in Container(c) /\ running'[c].salt = running[c].salt
          /\ running'[c].loaded = Loaded(c)
      BY <3>1, <3>2, <3>3 DEF Container
    <3>5. \A m \in Matched[c], f \in ConfigFiles :
            running[c].salt[m][f] \in Int /\ running[c].loaded[m][f] \in Int /\ tree[m][f] \in Int
      BY <3>1, <3>2, ConstantsAssumption DEF Container, Content, ConfigFiles, IInv, TypeOK
    <3>6. \A m \in Matched[c], f \in ConfigFiles :
            running[c].salt[m][f] <= tree[m][f] /\ tree[m][f] <= tree[m][f]
      BY <3>1, <3>5 DEF LoadedBetween
    <3>7. LoadedBetween(c)'
      BY <1>1, <3>2, <3>4, <3>6 DEF LoadedBetween
    <3> QED
      BY <3>4, <3>7 DEF RunningInv, Container
  <2> QED
    BY <2>1, <2>2
<1>4. TypeOK'
  <2>1. \A c \in Startup : running'[c] = None \/ running'[c].loaded \in [Mounted[c] -> Content]
    BY <1>3 DEF RunningInv, Container
  <2>2. \A c \in Startup : hashed'[c] \in {None} \cup [Matched[c] -> Content \cup {None}]
    BY <1>1 DEF IInv, TypeOK
  <2> QED
    BY <1>1, <2>1, <2>2, NewJobs, ConstantsAssumption DEF IInv, TypeOK
<1>5. NothingNewer'
  <2>1. 0 <= wanted
    BY DEF IInv, TypeOK
  <2> QED
    BY <1>1, <1>2, <2>1, NewJobs DEF IInv, NothingNewer
<1>6. ASSUME NEW v \in Volumes
      PROVE  AttemptsLeft(v)' /\ ScriptInv(v)' /\ OkInv(v)' /\ KeptInv(v)'
  <2>1. KeptInv(v)
    BY DEF IInv, JobsInv
  <2> QED
    BY <1>1, <1>2, <2>1, NewJobs
       DEF AttemptsLeft, ScriptInv, OkInv, KeptInv, Applied1, Archived, Summed
<1>7. ParentInv'
  BY <1>1 DEF ParentInv
<1>8. \A c \in Startup : AppliedInv(c)'
  BY <1>1 DEF AppliedInv
<1> QED
  BY <1>3, <1>4, <1>5, <1>6, <1>7, <1>8 DEF IInv, JobsInv, ContainersInv

(***************************************************************************)
(* Invariants and action properties of the specification                   *)
(***************************************************************************)
\* Every step of the specification keeps the invariant.
LEMMA NextInv == IInv /\ [Next]_vars => IInv'
<1> SUFFICES ASSUME IInv, [Next]_vars PROVE IInv'
  OBVIOUS
<1>1. CASE UNCHANGED vars
  <2>1. TypeOK' /\ NothingNewer'
    BY <1>1 DEF vars, IInv, TypeOK, NothingNewer
  <2>2. ASSUME NEW v \in Volumes
        PROVE  AttemptsLeft(v)' /\ ScriptInv(v)' /\ OkInv(v)' /\ KeptInv(v)'
    BY <1>1 DEF vars, IInv, JobsInv, AttemptsLeft, ScriptInv, OkInv, KeptInv, Complete, Good, OfWanted
  <2>3. ParentInv'
    BY <1>1 DEF vars, IInv, ParentInv, Salt
  <2>4. ASSUME NEW c \in Startup PROVE RunningInv(c)' /\ AppliedInv(c)'
    BY <1>1 DEF vars, IInv, ContainersInv, RunningInv, AppliedInv, LoadedBetween
  <2> QED
    BY <2>1, <2>2, <2>3, <2>4 DEF IInv, JobsInv, ContainersInv
<1>2. CASE Next
  BY <1>2, ChangeKeeps, LaunchKeeps, CollectKeeps, RaiseKeeps, HashedKeeps, HashedFailsKeeps, ExitKeeps,
     PaunchKeeps, RegenerateKeeps, RebootKeeps, WorkersKeep DEF Next, Work
<1> QED
  BY <1>1, <1>2

\* The inductive invariant holds in every reachable state.
THEOREM Invariance == Spec => []IInv
BY InitInv, NextInv, PTL DEF Spec

\* The state always has its shape.
THEOREM TypeCorrect == Spec => []TypeOK
<1>1. IInv => TypeOK
  BY DEF IInv
<1> QED
  BY <1>1, Invariance, PTL

\* Exit status 0 of container-puppet.py: config-data is that of the parameters in force.
THEOREM ExitZero == Spec => []ExitZeroIsCurrent
<1>1. IInv => ExitZeroIsCurrent
  BY DEF IInv, ParentInv, JobsInv, OkInv, Complete, Good, ExitZeroIsCurrent
<1> QED
  BY <1>1, Invariance, PTL

\* Exit status 0: every salt of the startup files is a checksum of the tree as it is, of all
\* of it or of what the archive got to.
THEOREM SaltTruthful == Spec => []SaltIsTruthful
<1>1. IInv => SaltIsTruthful
  <2> SUFFICES ASSUME IInv, exit = 0, NEW c \in Startup, NEW m \in Matched[c]
               PROVE  /\ hashed[c][m] # None
                      /\ \A f \in ConfigFiles : Covers(hashed[c][m][f], tree[m][f])
                      /\ \A p \in PasswordFiles : Covers(hashed[c][m][p], wanted)
    BY DEF SaltIsTruthful
  <2>1. /\ hashed[c] = Salt(c) /\ Salt(c) \in [Matched[c] -> Content]
        /\ \A f \in ConfigFiles : Covers(Salt(c)[m][f], tree[m][f])
        /\ \A p \in PasswordFiles : Covers(Salt(c)[m][p], wanted)
    BY SaltIsSound
  <2> QED
    BY <2>1, ConstantsAssumption
<1> QED
  BY <1>1, Invariance, PTL

\* A container whose step paunch has applied runs with what its salted trees now hold, as
\* far as the salt covers them.
THEOREM AppliedCurrent == Spec => []AppliedIsCurrent
<1>1. IInv => AppliedIsCurrent
  <2> SUFFICES ASSUME IInv, exit = 0, NEW c \in Startup, StepOf[c] <= upto,
                      NEW m \in Matched[c], NEW f \in ConfigFiles, ~Missed(c, m, f)
               PROVE  running[c].loaded[m][f] = tree[m][f]
    BY DEF AppliedIsCurrent
  <2>1. hashed[c] = Salt(c) /\ Salt(c) \in [Matched[c] -> Content] /\ Covers(Salt(c)[m][f], tree[m][f])
    BY SaltIsSound
  <2>2. hashed[c][m] # None
    BY <2>1, ConstantsAssumption
  <2>3. hashed[c][m][f] = tree[m][f]
    BY <2>1, <2>2 DEF Covers, Missed
  <2> QED
    BY <2>3 DEF IInv, ContainersInv, AppliedInv
<1> QED
  BY <1>1, Invariance, PTL

Overwrites(t, p) == tree[t][p] # 0 /\ tree'[t][p] # tree[t][p]

\* Neither rsync copies a password file that its target has.
LEMMA ScriptOverwritesNone ==
  ASSUME IInv, NEW v \in Volumes, ArchiveData(v) \/ ArchiveGenerated(v),
         NEW t \in Trees, NEW p \in PasswordFiles
  PROVE  ~Overwrites(t, p)
<1>1. p \in Files /\ tree \in [Trees -> Content] /\ KeptInv(v) /\ job[v] \in Job
  BY ConstantsAssumption DEF IInv, TypeOK, JobsInv
<1>2. CASE ArchiveData(v)
  <2>1. PICK W \in SUBSET (Files \ job[v].kept) :
          tree' = [tree EXCEPT ![Data(v)] = [f \in Files |-> IF f \in W THEN job[v].fs[f] ELSE @[f]]]
    BY <1>2, Zenon DEF ArchiveData, Rsync, Data
  <2>2. job[v].at = "sync"
    BY <1>2 DEF ArchiveData
  <2>3. p \in W => tree[Data(v)][p] = 0
    BY <1>1, <2>1, <2>2 DEF KeptInv
  <2>4. Data(v) \in Trees
    BY DEF Data, Trees, Kinds
  <2>5. p \notin W => tree'[t][p] = tree[t][p]
    BY <1>1, <2>1, <2>4
  <2>6. t # Data(v) => tree'[t] = tree[t]
    BY <1>1, <2>1, <2>4
  <2> QED
    BY <2>3, <2>5, <2>6 DEF Overwrites
<1>3. CASE ArchiveGenerated(v)
  <2>1. PICK W \in SUBSET (job[v].newer \ job[v].kept) :
          tree' = [tree EXCEPT ![Generated(v)] = [f \in Files |-> IF f \in W THEN job[v].fs[f] ELSE @[f]]]
    BY <1>3, Zenon DEF ArchiveGenerated, Rsync, Generated
  <2>2. job[v].at = "gather"
    BY <1>3 DEF ArchiveGenerated
  <2>3. p \in W => tree[Generated(v)][p] = 0
    BY <1>1, <2>1, <2>2 DEF KeptInv
  <2>4. Generated(v) \in Trees
    BY DEF Generated, Trees, Kinds
  <2>5. p \notin W => tree'[t][p] = tree[t][p]
    BY <1>1, <2>1, <2>4
  <2>6. t # Generated(v) => tree'[t] = tree[t]
    BY <1>1, <2>1, <2>4
  <2> QED
    BY <2>3, <2>5, <2>6 DEF Overwrites
<1> QED
  BY <1>2, <1>3

\* An archived password is only ever replaced by the task that has changed it in the
\* database, whatever attempts, aborted runs and reboots there are.
THEOREM PasswordsKept == Spec => PasswordKept
<1>1. ASSUME IInv, [Next]_vars, NEW t \in Trees, NEW p \in PasswordFiles, Overwrites(t, p)
      PROVE  phase = "up" /\ t[2] = "generated"
  <2>1. tree' # tree
    BY <1>1 DEF Overwrites
  <2>2. \/ \E v \in Volumes : ArchiveData(v) \/ ArchiveGenerated(v)
        \/ \E v \in Volumes, q \in PasswordFiles : RegeneratePassword(v, q)
    BY <1>1, <2>1 DEF Next, Work, Script, vars, ChangeParameters, Launch, Collect, Raise, Exit, PaunchApply,
       WriteHashed, HashedFails, Start, PullImage, RunContainer, PuppetApply, Exclude, OpenSum, WriteSum, Reboot
  <2>3. PICK v \in Volumes, q \in PasswordFiles : RegeneratePassword(v, q)
    BY <1>1, <2>2, ScriptOverwritesNone
  <2>4. phase = "up" /\ tree' = [tree EXCEPT ![<<v, "generated">>][q] = wanted]
    BY <2>3 DEF RegeneratePassword
  <2>5. t # <<v, "generated">> => tree'[t] = tree[t]
    BY <1>1, <2>4 DEF IInv, TypeOK
  <2>6. t = <<v, "generated">>
    BY <1>1, <2>5 DEF Overwrites
  <2> QED
    BY <2>4, <2>6
<1>2. IInv /\ [Next]_vars =>
        [\A t \in Trees, p \in PasswordFiles :
           tree[t][p] # 0 /\ tree'[t][p] # tree[t][p] => phase = "up" /\ t[2] = "generated"]_vars
  BY <1>1 DEF Overwrites
<1> QED
  BY <1>2, Invariance, PTL DEF Spec, PasswordKept

(***************************************************************************)
(* The refinement of ConfigGeneration                                      *)
(***************************************************************************)
GoodOnes == {v \in Volumes : Good(v)}

\* Good speaks of config-data only.
LEMMA GoodKept ==
  ASSUME NEW v, UNCHANGED wanted, sum'[Data(v)] = sum[Data(v)],
         \A f \in ConfigFiles : tree'[Data(v)][f] = tree[Data(v)][f]
  PROVE  Good(v)' = Good(v)
BY DEF Good, OfWanted, Data

\* A worker, or a container left behind, touches its own volume, and nobody has said
\* success meanwhile.
LEMMA WorkerRefines ==
  \A v \in Volumes :
    IInv /\ (Start(v) \/ PullImage(v) \/ RunContainer(v) \/ Script(v)) =>
      [Generation!Next]_(Generation!cvars)
<1> SUFFICES ASSUME NEW v \in Volumes, IInv, Start(v) \/ PullImage(v) \/ RunContainer(v) \/ Script(v)
             PROVE  [Generation!Next]_(Generation!cvars)
  OBVIOUS
<1>1. UNCHANGED <<wanted, phase, exit>>
  BY DEF Start, PullImage, RunContainer, Script, PuppetApply, Exclude, ArchiveData, ArchiveGenerated,
     OpenSum, WriteSum
<1>2. exit # 0
  <2>1. job[v].at # "ended"
    BY DEF Start, PullImage, RunContainer, Script, PuppetApply, Exclude, ArchiveData, ArchiveGenerated,
       OpenSum, WriteSum
  <2> QED
    BY <2>1, WorkerBusy
<1>3. \A w \in Volumes : w # v => tree'[Data(w)] = tree[Data(w)] /\ sum'[Data(w)] = sum[Data(w)]
  <2> SUFFICES ASSUME NEW w \in Volumes, w # v
               PROVE  tree'[Data(w)] = tree[Data(w)] /\ sum'[Data(w)] = sum[Data(w)]
    OBVIOUS
  <2>1. \A kind : Data(w) # <<v, kind>>
    BY DEF Data
  <2>2. Data(w) \in Trees
    BY DEF Data, Trees, Kinds
  <2>3. tree'[Data(w)] = tree[Data(w)]
    BY <2>1, <2>2 DEF Start, PullImage, RunContainer, Script, PuppetApply, Exclude, ArchiveData,
       ArchiveGenerated, Rsync, OpenSum, WriteSum, IInv, TypeOK
  <2>4. sum'[Data(w)] = sum[Data(w)]
    BY <2>1, <2>2 DEF Start, PullImage, RunContainer, Script, PuppetApply, Exclude, ArchiveData,
       ArchiveGenerated, OpenSum, WriteSum, IInv, TypeOK
  <2> QED
    BY <2>3, <2>4
<1>4. \A w \in Volumes : w # v => (w \in GoodOnes' <=> w \in GoodOnes)
  BY <1>1, <1>3, GoodKept DEF GoodOnes
<1>5. GoodOnes' \in {GoodOnes \cup {v}, GoodOnes \ {v}}
  <2>1. GoodOnes \subseteq Volumes /\ GoodOnes' \subseteq Volumes
    BY DEF GoodOnes
  <2>2. CASE v \in GoodOnes'
    BY <1>4, <2>1, <2>2
  <2>3. CASE v \notin GoodOnes'
    BY <1>4, <2>1, <2>3
  <2> QED
    BY <2>2, <2>3
<1>6. Generation!Rewrite(v)
  BY <1>1, <1>2, <1>5 DEF Generation!Rewrite, GoodOnes
<1> QED
  BY <1>6 DEF Generation!Next

\* After a change of the parameters no checksum is of the parameters in force.
LEMMA ChangeRefines == IInv /\ ChangeParameters => Generation!Outdate
<1> SUFFICES ASSUME IInv, ChangeParameters PROVE Generation!Outdate
  OBVIOUS
<1>1. /\ wanted' = wanted + 1 /\ wanted \in 0 .. MaxVersion /\ wanted' \in 0 .. MaxVersion
      /\ exit' # 0 /\ phase = "idle" /\ UNCHANGED <<phase, tree, sum>>
  BY ConstantsAssumption DEF ChangeParameters, IInv, TypeOK
<1>2. ASSUME NEW v \in Volumes, Good(v)' PROVE Good(v)
  <2>1. /\ Data(v) \in Trees /\ sum[Data(v)] # None
        /\ \A f \in Files : Covers(sum[Data(v)][f], wanted')
        /\ \A f \in ConfigFiles : tree[Data(v)][f] = wanted'
    BY <1>1, <1>2 DEF Good, OfWanted, Data, Trees, Kinds
  <2>2. ASSUME NEW f \in Files PROVE sum[Data(v)][f] # wanted' /\ tree[Data(v)][f] # wanted'
    BY <1>1, <2>1 DEF IInv, NothingNewer
  <2>3. \A f \in Files : Covers(sum[Data(v)][f], wanted)
    BY <2>1, <2>2 DEF Covers
  <2>4. ConfigFiles = {}
    BY <2>1, <2>2 DEF ConfigFiles
  <2> QED
    BY <2>1, <2>3, <2>4 DEF Good, OfWanted, Data
<1>3. GoodOnes' \in SUBSET GoodOnes
  BY <1>2 DEF GoodOnes
<1> QED
  BY <1>1, <1>3 DEF Generation!Outdate, GoodOnes

\* A run ends, and says success only if every volume is good.
LEMMA Finishes ==
  ASSUME phase \in {"pool", "salt"}, phase' \notin {"pool", "salt"}, GoodOnes' = GoodOnes,
         exit' = 0 => GoodOnes = Volumes
  PROVE  Generation!Finish
<1>1. (phase' \in {"pool", "salt"}) = FALSE
  OBVIOUS
<1>2. (exit' = 0) = FALSE \/ (exit' = 0) = (GoodOnes = Volumes)
  <2>1. CASE exit' = 0
    <3>1. (exit' = 0) = TRUE /\ (GoodOnes = Volumes) = TRUE
      BY <2>1, Zenon
    <3> QED
      BY <3>1
  <2>2. CASE exit' # 0
    BY <2>2, Zenon
  <2> QED
    BY <2>1, <2>2
<1>3. (exit' = 0) \in {FALSE, GoodOnes = Volumes}
  BY <1>2, Zenon
<1> QED
  BY <1>1, <1>3 DEF Generation!Finish, GoodOnes

\* Every step of the host is one of ConfigGeneration, or none.
LEMMA GenerationStep ==
  ASSUME IInv, [Next]_vars
  PROVE  [Generation!Next]_(Generation!cvars)
<1> DEFINE Same == UNCHANGED <<wanted, sum>> /\ \A v \in Volumes, f \in ConfigFiles : tree'[Data(v)][f] = tree[Data(v)][f]
<1>1. Same => GoodOnes' = GoodOnes
  BY GoodKept DEF GoodOnes
<1>2. UNCHANGED <<wanted, sum, tree>> => GoodOnes' = GoodOnes
  BY <1>1
<1> HIDE DEF Same
<1>3. CASE ChangeParameters
  BY <1>3, ChangeRefines DEF Generation!Next
<1>4. CASE Launch
  <2>1. Generation!Begin
    <3>1. phase = "idle" /\ phase' = "pool" /\ exit' # 0 /\ UNCHANGED <<wanted, sum, tree>>
      BY <1>4, ConstantsAssumption DEF Launch
    <3> QED
      BY <1>2, <3>1 DEF Generation!Begin, GoodOnes
  <2> QED
    BY <2>1 DEF Generation!Next
<1>5. CASE Raise
  <2>1. Generation!Finish
    <3>1. phase = "pool" /\ phase' = "idle" /\ exit' # 0 /\ UNCHANGED <<wanted, sum, tree>>
      BY <1>5 DEF Raise
    <3> QED
      BY <1>2, <3>1, Finishes
  <2> QED
    BY <2>1 DEF Generation!Next
<1>6. CASE Exit
  <2>1. Generation!Finish
    <3>1. phase = "salt" /\ phase' \notin {"pool", "salt"} /\ UNCHANGED <<wanted, sum, tree>>
      BY <1>6 DEF Exit
    <3>2. exit' = 0 => \A v \in Volumes : Good(v)
      <4>1. exit' = 0 => \A v \in Volumes : job[v].ok
        BY <1>6 DEF Exit
      <4> QED
        BY <3>1, <4>1 DEF IInv, JobsInv, OkInv, Complete
    <3>3. exit' = 0 => GoodOnes = Volumes
      BY <3>2 DEF GoodOnes
    <3> QED
      BY <1>2, <3>1, <3>3, Finishes
  <2> QED
    BY <2>1 DEF Generation!Next
<1>7. CASE Reboot
  <2>1. phase' = "idle" /\ exit' # 0 /\ UNCHANGED <<wanted, sum, tree>>
    BY <1>7, ConstantsAssumption DEF Reboot
  <2>2. CASE phase \in {"pool", "salt"}
    <3>1. Generation!Finish
      BY <1>2, <2>1, <2>2, Finishes
    <3> QED
      BY <3>1 DEF Generation!Next
  <2>3. CASE phase \notin {"pool", "salt"}
    <3>1. Generation!Outdate
      BY <1>2, <2>1, <2>3 DEF Generation!Outdate, GoodOnes
    <3> QED
      BY <3>1 DEF Generation!Next
  <2> QED
    BY <2>2, <2>3
<1>8. CASE Collect \/ PaunchApply \/ (\E s \in Steps : WriteHashed(s)) \/ UNCHANGED vars
  <2>1. /\ UNCHANGED <<wanted, sum, tree, exit>>
        /\ phase' \in {"pool", "salt"} <=> phase \in {"pool", "salt"}
    BY <1>8 DEF Collect, PaunchApply, WriteHashed, vars
  <2> QED
    BY <1>2, <2>1 DEF Generation!cvars, GoodOnes
<1>9. ASSUME NEW v \in Volumes, NEW p \in PasswordFiles, RegeneratePassword(v, p)
      PROVE  [Generation!Next]_(Generation!cvars)
  <2>1. UNCHANGED <<wanted, sum, exit, phase>>
    BY <1>9 DEF RegeneratePassword
  <2>2. \A w \in Volumes : tree'[Data(w)] = tree[Data(w)]
    BY <1>9 DEF RegeneratePassword, Data, Trees, Kinds, IInv, TypeOK
  <2> QED
    BY <1>1, <2>1, <2>2 DEF Same, Generation!cvars, GoodOnes
<1>10. CASE \E s \in Steps : HashedFails(s)
  <2>1. Generation!Finish
    <3>1. phase = "salt" /\ phase' = "idle" /\ exit' # 0 /\ UNCHANGED <<wanted, sum, tree>>
      BY <1>10 DEF HashedFails
    <3> QED
      BY <1>2, <3>1, Finishes
  <2> QED
    BY <2>1 DEF Generation!Next
<1> QED
  BY <1>3, <1>4, <1>5, <1>6, <1>7, <1>8, <1>9, <1>10, WorkerRefines DEF Next, Work

\* The pool, the retries, the salting and the exit status, aborted runs and reboots
\* included, do only what ConfigGeneration allows.
THEOREM Refinement == Spec => Generation!Safety
<1>1. Init => Generation!Init
  <2> SUFFICES ASSUME Init PROVE Generation!Init
    OBVIOUS
  <2>1. \A v \in Volumes : ~Good(v)
    <3>1. \A v \in Volumes : sum[Data(v)] = None
      BY DEF Init, Data, Trees, Kinds
    <3> QED
      BY <3>1 DEF Good, OfWanted, Data
  <2>2. phase \notin {"pool", "salt"} /\ exit # 0
    BY ConstantsAssumption DEF Init
  <2> QED
    BY <2>1, <2>2 DEF Generation!Init
<1>2. IInv /\ [Next]_vars => [Generation!Next]_(Generation!cvars)
  BY GenerationStep
<1> QED
  BY <1>1, <1>2, Invariance, PTL DEF Spec, Generation!Safety

(***************************************************************************)
(* Sequences                                                               *)
(***************************************************************************)
\* What two sequences joined consist of.
LEMMA ToSetConcat ==
  ASSUME NEW S, NEW a \in Seq(S), NEW b \in Seq(S)
  PROVE  a \o b \in Seq(S) /\ ToSet(a \o b) = ToSet(a) \cup ToSet(b)
<1>0. a \o b \in Seq(S)
  OBVIOUS
<1>1. PICK c \in Seq(S) : c = a \o b
  BY <1>0
<1>2. /\ Len(c) = Len(a) + Len(b) /\ Len(a) \in Nat /\ Len(b) \in Nat
      /\ DOMAIN a = 1..Len(a) /\ DOMAIN b = 1..Len(b) /\ DOMAIN c = 1..Len(c)
  BY <1>1
<1>3. /\ \A i \in 1..Len(a) : c[i] = a[i]
      /\ \A i \in 1..Len(b) : c[Len(a) + i] = b[i]
  BY <1>1
<1>4. ASSUME NEW i \in DOMAIN c PROVE c[i] \in ToSet(a) \cup ToSet(b)
  <2>1. CASE i <= Len(a)
    <3>1. i \in DOMAIN a /\ c[i] = a[i]
      BY <1>2, <1>3, <2>1
    <3> QED
      BY <3>1 DEF ToSet
  <2>2. CASE i > Len(a)
    <3>1. i - Len(a) \in 1..Len(b) /\ Len(a) + (i - Len(a)) = i
      BY <1>2, <2>2
    <3>2. c[i] = b[i - Len(a)] /\ i - Len(a) \in DOMAIN b
      BY <1>2, <1>3, <3>1
    <3> QED
      BY <3>2 DEF ToSet
  <2> QED
    BY <1>2, <2>1, <2>2
<1>5. ASSUME NEW i \in DOMAIN a PROVE a[i] \in ToSet(c)
  <2>1. i \in DOMAIN c /\ c[i] = a[i]
    BY <1>2, <1>3
  <2> QED
    BY <2>1 DEF ToSet
<1>6. ASSUME NEW i \in DOMAIN b PROVE b[i] \in ToSet(c)
  <2>1. Len(a) + i \in DOMAIN c /\ c[Len(a) + i] = b[i]
    BY <1>2, <1>3
  <2> QED
    BY <2>1 DEF ToSet
<1>7. ToSet(c) = ToSet(a) \cup ToSet(b)
  BY <1>4, <1>5, <1>6 DEF ToSet
<1> QED
  BY <1>1, <1>7

\* What sequences of at most one element consist of.
LEMMA ToSetShort == ToSet(<<>>) = {} /\ \A x : <<x>> # <<>> /\ Len(<<x>>) = 1 /\ ToSet(<<x>>) = {x}
<1>1. \A x : Len(<<x>>) = 1 /\ DOMAIN <<x>> = {1} /\ <<x>>[1] = x
  OBVIOUS
<1>2. Len(<<>>) = 0 /\ DOMAIN <<>> = {}
  OBVIOUS
<1> QED
  BY <1>1, <1>2 DEF ToSet

\* A sequence over a set is one over any larger set.
LEMMA SeqOver ==
  /\ \A S : \A x \in S : <<x>> \in Seq(S)
  /\ \A S, T : S \subseteq T => \A list \in Seq(S) : list \in Seq(T)
OBVIOUS

\* The first element stays.
LEMMA AppendFirst ==
  ASSUME NEW list \in Seq(Nat), NEW x \in Nat
  PROVE  Append(list, x) # <<>> /\ (list # <<>> => Append(list, x)[1] = list[1])
<1>1. Len(Append(list, x)) = Len(list) + 1 /\ Len(list) \in Nat
  OBVIOUS
<1>2. Append(list, x) # <<>>
  OBVIOUS
<1>3. ASSUME list # <<>> PROVE Append(list, x)[1] = list[1]
  BY <1>1, <1>3
<1> QED
  BY <1>2, <1>3

\* A later entry goes behind the ones that are in order.
LEMMA InOrderAppend ==
  ASSUME NEW n \in Nat, NEW S \in SUBSET (1..n), NEW list \in Seq(Nat), InOrder(list, S)
  PROVE  Append(list, n + 1) \in Seq(Nat) /\ InOrder(Append(list, n + 1), S \cup {n + 1})
<1> DEFINE new == Append(list, n + 1)
<1>1. /\ new \in Seq(Nat) /\ Len(new) = Len(list) + 1 /\ new[Len(list) + 1] = n + 1
      /\ \A i \in 1..Len(list) : new[i] = list[i]
  OBVIOUS
<1>2. \A i \in 1..Len(list) : list[i] \in S
  BY DEF InOrder, ToSet
<1>3. ToSet(new) = S \cup {n + 1}
  <2>1. \A i \in 1..Len(new) : i \in 1..Len(list) \/ i = Len(list) + 1
    BY <1>1
  <2>2. ToSet(new) \subseteq S \cup {n + 1}
    BY <1>1, <1>2, <2>1 DEF ToSet
  <2>3. \A i \in 1..Len(list) : i \in 1..Len(new)
    BY <1>1
  <2>4. Len(list) + 1 \in 1..Len(new)
    BY <1>1
  <2>5. S \subseteq ToSet(new)
    BY <1>1, <2>3 DEF ToSet, InOrder
  <2>6. n + 1 \in ToSet(new)
    BY <1>1, <2>4 DEF ToSet
  <2> HIDE DEF new
  <2> QED
    BY <2>2, <2>5, <2>6
<1>4. ASSUME NEW j \in DOMAIN new, NEW k \in DOMAIN new, j < k PROVE new[j] < new[k]
  <2>1. j \in 1..Len(list) /\ (k \in 1..Len(list) \/ k = Len(list) + 1)
    BY <1>1, <1>4
  <2>2. CASE k \in 1..Len(list)
    BY <1>1, <1>4, <2>1, <2>2 DEF InOrder
  <2>3. CASE k = Len(list) + 1
    BY <1>1, <1>2, <2>1, <2>3
  <2> QED
    BY <2>1, <2>2, <2>3
<1> QED
  BY <1>1, <1>3, <1>4 DEF InOrder

(***************************************************************************)
(* The merged services: the inductive invariant                            *)
(***************************************************************************)
Tags == STRING \cup {"None"}
Config ==
  [tags : Seq(Tags), manifest : Seq(Nat), image : STRING, volumes : Seq(Nat), privileged : BOOLEAN]

Theirs(v) == UNION {ToSet(services[i].tags) : i \in Own(v)}

\* What a configuration c of volume v is, halfway: as AllConfigured and TagsAreTheirs have it, and
\* its tags are not None any more once any were joined to them.
Halfway(c, v) ==
  /\ c \in Config
  /\ InOrder(c.manifest, Own(v)) /\ InOrder(c.volumes, Mounting(v)) /\ c.manifest # <<>>
  /\ c.image = services[c.manifest[1]].image /\ c.privileged = services[c.manifest[1]].privileged
  /\ c.tags = Null => services[c.manifest[1]].tags = Null
  /\ Theirs(v) \ {""} \subseteq ToSet(c.tags)
  /\ ToSet(c.tags) \subseteq Theirs(v) \cup (IF services[c.manifest[1]].tags = Null THEN {"None"} ELSE {})

Configured == \A v : v \in DOMAIN configs <=> Own(v) # {} /\ Wanted(v)

AllHalfway == \A v \in DOMAIN configs : Halfway(configs[v], v)

MergeInv ==
  /\ services \in ServiceLists /\ taken \in 0..Len(services)
  /\ Configured /\ AllHalfway
  /\ mapped \in BOOLEAN
  /\ died => ~mapped /\ DiesOfAnEntry
  /\ mapped => /\ taken = Len(services)
               /\ arguments = [v \in DOMAIN configs |-> WithDefaults(configs[v])]

\* The entry that is taken, and what it changes of those a volume is configured from.
LEMMA TakeOwn ==
  ASSUME MergeInv, Take
  PROVE  /\ taken + 1 \in DOMAIN services /\ taken' = taken + 1 /\ taken' \in 0..Len(services) /\ taken \in Nat
         /\ services' = services /\ only' = only /\ ~mapped /\ mapped' = mapped
         /\ ~died /\ died' = died
         /\ \A v : /\ Own(v) \subseteq 1..taken
                   /\ Own(v)' = IF Accepted(taken + 1) /\ services[taken + 1].volume = v THEN Own(v) \cup {taken + 1} ELSE Own(v)
         /\ Accepted(taken + 1) => services[taken + 1] \in Service
<1>1. services \in Seq(ToSet(services)) /\ \A i \in DOMAIN services : services[i] # Null => services[i] \in Service
  BY ServiceAssumption DEF MergeInv
<1>2. /\ taken + 1 \in DOMAIN services /\ taken' = taken + 1 /\ taken' \in 0..Len(services) /\ taken \in Nat
      /\ services' = services /\ only' = only /\ mapped' = mapped /\ ~died /\ died' = died
  BY <1>1 DEF MergeInv, Take
<1>3. ~mapped
  BY <1>1 DEF MergeInv, Take
<1>4. 1..taken' = (1..taken) \cup {taken + 1}
  BY <1>2
<1>5. \A v : /\ Own(v) \subseteq 1..taken
             /\ Own(v)' = IF Accepted(taken + 1) /\ services[taken + 1].volume = v THEN Own(v) \cup {taken + 1} ELSE Own(v)
  BY <1>2, <1>4 DEF Own, Accepted
<1> QED
  BY <1>1, <1>2, <1>3, <1>5 DEF Accepted

\* An entry that is not of a volume leaves its configuration right.
LEMMA HalfwayStays ==
  ASSUME NEW v, Own(v)' = Own(v), services' = services, NEW c, Halfway(c, v)
  PROVE  Halfway(c, v)'
<1>1. Mounting(v)' = Mounting(v) /\ Theirs(v)' = Theirs(v)
  BY DEF Mounting, Mounts, Theirs
<1> QED
  BY <1>1 DEF Halfway

\* The first entry of a volume configures it.
LEMMA HalfwayFirst ==
  ASSUME NEW n \in Nat, services[n + 1] \in Service, NEW v, Own(v)' = {n + 1}, services' = services
  PROVE  Halfway(First(n + 1), v)'
<1> DEFINE c == First(n + 1)
<1>0. /\ services[n + 1].tags \in Seq(Tags) /\ services[n + 1].image \in STRING
      /\ services[n + 1].privileged \in BOOLEAN
  BY SeqOver DEF Service, Tags
<1>1. c \in Config
  BY <1>0 DEF First, Config
<1>2. c.manifest = <<n + 1>> /\ c.volumes = (IF Mounts(n + 1) THEN <<n + 1>> ELSE <<>>) /\ c.tags = services[n + 1].tags
      /\ c.image = services[n + 1].image /\ c.privileged = services[n + 1].privileged
  BY DEF First
<1>3. InOrder(<<n + 1>>, {n + 1}) /\ InOrder(<<>>, {}) /\ <<n + 1>>[1] = n + 1
  BY ToSetShort DEF InOrder
<1>6. Mounting(v)' = IF Mounts(n + 1) THEN {n + 1} ELSE {}
  BY DEF Mounting, Mounts
<1>4. Theirs(v)' = ToSet(c.tags)
  BY <1>2 DEF Theirs
<1>5. First(n + 1)' = c
  BY DEF First, Mounts
<1>7. InOrder(c.volumes, Mounting(v)')
  BY <1>2, <1>3, <1>6
<1> HIDE DEF c
<1> QED
  BY <1>1, <1>2, <1>3, <1>4, <1>5, <1>7, ToSetShort DEF Halfway

\* A further entry is joined to the configuration of its volume.
LEMMA HalfwayJoined ==
  ASSUME NEW n \in Nat, services[n + 1] \in Service, NEW v, services' = services,
         Own(v) \subseteq 1..n, Own(v)' = Own(v) \cup {n + 1}, NEW c, Halfway(c, v)
  PROVE  Halfway(Joined(c, n + 1), v)'
<1> DEFINE d == Joined(c, n + 1)
           t == services[n + 1].tags
           vols == IF Mounts(n + 1) THEN Append(c.volumes, n + 1) ELSE c.volumes
<1>0. t \in Seq(Tags) /\ c \in Config /\ c.tags \in Seq(Tags) /\ c.manifest \in Seq(Nat) /\ c.volumes \in Seq(Nat)
  BY SeqOver DEF Service, Halfway, Config, Tags
<1>1. d = [c EXCEPT !.tags = IF Given(t) THEN Format(@) \o t ELSE @, !.manifest = Append(@, n + 1), !.volumes = vols]
  BY DEF Joined
<1>2. /\ d.manifest = Append(c.manifest, n + 1) /\ d.volumes = vols
      /\ d.image = c.image /\ d.privileged = c.privileged
      /\ d.tags = IF Given(t) THEN Format(c.tags) \o t ELSE c.tags
  BY <1>0, <1>1 DEF Config
<1>3. Append(c.manifest, n + 1) \in Seq(Nat) /\ InOrder(Append(c.manifest, n + 1), Own(v)')
  BY <1>0, InOrderAppend DEF Halfway
<1>4. vols \in Seq(Nat) /\ InOrder(vols, Mounting(v)')
  <2>1. Mounting(v) \subseteq 1..n /\ InOrder(c.volumes, Mounting(v))
    BY DEF Mounting, Halfway
  <2>2. Mounting(v)' = IF Mounts(n + 1) THEN Mounting(v) \cup {n + 1} ELSE Mounting(v)
    BY DEF Mounting, Mounts
  <2>3. Append(c.volumes, n + 1) \in Seq(Nat) /\ InOrder(Append(c.volumes, n + 1), Mounting(v) \cup {n + 1})
    BY <1>0, <2>1, InOrderAppend
  <2> QED
    BY <1>0, <2>1, <2>2, <2>3
<1>5. Append(c.manifest, n + 1)[1] = c.manifest[1] /\ Append(c.manifest, n + 1) # <<>>
  <2>1. c.manifest # <<>>
    BY DEF Halfway
  <2>2. n + 1 \in Nat
    OBVIOUS
  <2> QED
    BY <1>0, <2>1, <2>2, AppendFirst
<1>6. Format(c.tags) \in Seq(Tags) /\ ToSet(Format(c.tags)) = ToSet(c.tags) \cup (IF c.tags = Null THEN {"None"} ELSE {})
      /\ Format(c.tags) # <<>>
  <2>1. ToSet(<<"None">>) = {"None"} /\ ToSet(Null) = {} /\ <<"None">> # <<>>
    BY ToSetShort DEF Null
  <2>2. <<"None">> \in Seq(Tags)
    <3>1. "None" \in Tags
      BY DEF Tags
    <3> QED
      BY <3>1, SeqOver, Zenon
  <2> QED
    BY <1>0, <2>1, <2>2 DEF Format, Null
<1>7. d.tags \in Seq(Tags)
      /\ ToSet(d.tags) = IF Given(t) THEN ToSet(Format(c.tags)) \cup ToSet(t) ELSE ToSet(c.tags)
  <2>1. Format(c.tags) \o t \in Seq(Tags) /\ ToSet(Format(c.tags) \o t) = ToSet(Format(c.tags)) \cup ToSet(t)
    BY <1>0, <1>6, ToSetConcat
  <2> HIDE DEF d, t
  <2> QED
    BY <1>0, <1>2, <2>1
<1>8. d \in Config
  BY <1>0, <1>1, <1>2, <1>3, <1>4, <1>7 DEF Config
<1>9. d.tags = Null => c.tags = Null
  <2>1. Format(c.tags) \o t # <<>>
    BY <1>0, <1>6
  <2> QED
    BY <1>2, <2>1 DEF Null
<1>10. Theirs(v)' = Theirs(v) \cup ToSet(t)
  BY DEF Theirs
<1>11. ~Given(t) => ToSet(t) \subseteq {""}
  BY ToSetShort DEF Given, Null
<1>12. Joined(c, n + 1)' = d
  BY DEF Joined, Mounts
<1>13. /\ c.manifest # <<>> /\ c.image = services[c.manifest[1]].image /\ c.privileged = services[c.manifest[1]].privileged
       /\ c.tags = Null => services[c.manifest[1]].tags = Null
       /\ Theirs(v) \ {""} \subseteq ToSet(c.tags)
       /\ ToSet(c.tags) \subseteq Theirs(v) \cup (IF services[c.manifest[1]].tags = Null THEN {"None"} ELSE {})
  BY DEF Halfway
<1> HIDE DEF d, t
<1>14. services[d.manifest[1]] = services[c.manifest[1]] /\ d.manifest # <<>>
  BY <1>2, <1>5
<1>15. Theirs(v)' \ {""} \subseteq ToSet(d.tags)
  BY <1>6, <1>7, <1>10, <1>11, <1>13
<1>16. ToSet(d.tags) \subseteq Theirs(v)' \cup (IF services[d.manifest[1]].tags = Null THEN {"None"} ELSE {})
  BY <1>6, <1>7, <1>10, <1>13, <1>14
<1> QED
  BY <1>2, <1>3, <1>4, <1>8, <1>9, <1>12, <1>13, <1>14, <1>15, <1>16 DEF Halfway

\* The configurations are right after any step.
LEMMA MergeStep == MergeInv /\ [MergeNext]_mergeVars => MergeInv'
<1> SUFFICES ASSUME MergeInv, [MergeNext]_mergeVars PROVE MergeInv'
  OBVIOUS
<1>1. ASSUME Take, Configured', AllHalfway' PROVE MergeInv'
  <2>1. taken' \in 0..Len(services') /\ services' \in ServiceLists /\ mapped' \in BOOLEAN /\ ~mapped' /\ ~died'
    BY <1>1, TakeOwn DEF MergeInv
  <2> QED
    BY <1>1, <2>1 DEF MergeInv
<1>2. CASE Skip
  <2>1. Take /\ configs' = configs
    BY <1>2 DEF Skip
  <2>2. Accepted(taken + 1) => services[taken + 1].volume \notin DOMAIN configs /\ ~Wanted(services[taken + 1].volume)
    BY <1>2, <2>1, TakeOwn DEF Skip, Accepted
  <2>3. \A v : Own(v) # {} /\ Wanted(v) <=> Own(v)' # {} /\ Wanted(v)'
    BY <2>1, <2>2, TakeOwn DEF Wanted
  <2>4. ASSUME NEW v \in DOMAIN configs PROVE Halfway(configs[v], v)'
    <3>1. Own(v)' = Own(v) /\ services' = services
      BY <2>1, <2>2, TakeOwn
    <3>2. Halfway(configs[v], v)
      BY DEF MergeInv, AllHalfway
    <3>3. \A c : Halfway(c, v) => Halfway(c, v)'
      BY <3>1, HalfwayStays
    <3> QED
      BY <2>1, <3>2, <3>3
  <2>5. Configured'
    BY <2>1, <2>3 DEF Configured, MergeInv
  <2>6. AllHalfway'
    BY <2>1, <2>4 DEF AllHalfway
  <2> QED
    BY <1>1, <2>1, <2>5, <2>6
<1>3. CASE Add
  <2>0. PICK new : new = services[taken + 1].volume
    OBVIOUS
  <2>1. Take /\ Accepted(taken + 1)
    BY <1>3, TakeOwn DEF Add, Accepted
  <2>2. /\ new \notin DOMAIN configs /\ Wanted(new)
        /\ configs' = [v \in DOMAIN configs \cup {new} |-> IF v = new THEN First(taken + 1) ELSE configs[v]]
    BY <1>3, <2>0, <2>1, TakeOwn DEF Add, First
  <2>3. Own(new) = {} /\ Own(new)' = {taken + 1}
    <3>1. Own(new) = {}
      BY <2>2 DEF MergeInv, Configured
    <3> QED
      BY <2>0, <2>1, <3>1, TakeOwn
  <2>4. \A v : v # new => Own(v)' = Own(v)
    BY <2>0, <2>1, TakeOwn
  <2>5. \A v : Wanted(v)' = Wanted(v)
    BY <2>1, TakeOwn DEF Wanted
  <2>6. DOMAIN configs' = DOMAIN configs \cup {new}
    BY <2>2
  <2>7. Configured'
    <3> SUFFICES ASSUME NEW v PROVE v \in DOMAIN configs' <=> Own(v)' # {} /\ Wanted(v)
      BY <2>5 DEF Configured
    <3>1. CASE v = new
      <4>1. Own(v)' # {}
        BY <2>3, <3>1
      <4> QED
        BY <2>2, <2>6, <3>1, <4>1
    <3>2. CASE v # new
      BY <2>4, <2>6, <3>2 DEF MergeInv, Configured
    <3> QED
      BY <3>1, <3>2
  <2>8. AllHalfway'
    <3> SUFFICES ASSUME NEW v \in DOMAIN configs' PROVE Halfway(configs[v], v)'
      BY DEF AllHalfway
    <3>1. CASE v = new
      <4>1. PICK n \in Nat : n = taken
        BY <2>1, TakeOwn
      <4>2. Halfway(First(n + 1), v)'
        BY <2>1, <2>3, <3>1, <4>1, TakeOwn, HalfwayFirst
      <4>3. PICK c : c = First(n + 1)
        OBVIOUS
      <4>4. First(n + 1)' = c
        BY <2>1, <4>3, TakeOwn DEF First, Mounts
      <4>5. configs'[v] = c
        BY <2>2, <2>6, <3>1, <4>1, <4>3
      <4> QED
        BY <4>2, <4>4, <4>5
    <3>2. CASE v # new
      <4>1. v \in DOMAIN configs /\ configs'[v] = configs[v]
        BY <2>2, <2>6, <3>2
      <4>2. \A c : Halfway(c, v) => Halfway(c, v)'
        BY <2>1, <2>4, <3>2, TakeOwn, HalfwayStays
      <4>3. Halfway(configs[v], v)
        BY <4>1 DEF MergeInv, AllHalfway
      <4> QED
        BY <4>1, <4>2, <4>3
    <3> QED
      BY <3>1, <3>2
  <2> QED
    BY <1>1, <2>1, <2>7, <2>8
<1>4. CASE Join
  <2>0. PICK its : its = services[taken + 1].volume
    OBVIOUS
  <2>1. Take /\ Accepted(taken + 1)
    BY <1>4, TakeOwn DEF Join, Accepted
  <2>2. its \in DOMAIN configs /\ configs' = [configs EXCEPT ![its] = Joined(@, taken + 1)]
    BY <1>4, <2>0, <2>1, TakeOwn DEF Join, Joined
  <2>3. Own(its) \subseteq 1..taken /\ Own(its)' = Own(its) \cup {taken + 1}
    BY <2>0, <2>1, TakeOwn
  <2>4. \A v : v # its => Own(v)' = Own(v)
    BY <2>0, <2>1, TakeOwn
  <2>5. \A v : Wanted(v)' = Wanted(v)
    BY <2>1, TakeOwn DEF Wanted
  <2>6. DOMAIN configs' = DOMAIN configs
    BY <2>2
  <2>7. Configured'
    <3> SUFFICES ASSUME NEW v PROVE v \in DOMAIN configs' <=> Own(v)' # {} /\ Wanted(v)
      BY <2>5 DEF Configured
    <3>1. CASE v = its
      <4>1. Wanted(v)
        BY <2>2, <3>1 DEF MergeInv, Configured
      <4>2. Own(v)' # {}
        BY <2>3, <3>1
      <4> QED
        BY <2>2, <2>6, <3>1, <4>1, <4>2
    <3>2. CASE v # its
      BY <2>4, <2>6, <3>2 DEF MergeInv, Configured
    <3> QED
      BY <3>1, <3>2
  <2>8. AllHalfway'
    <3> SUFFICES ASSUME NEW v \in DOMAIN configs' PROVE Halfway(configs[v], v)'
      BY DEF AllHalfway
    <3>0. Halfway(configs[v], v)
      BY <2>6 DEF MergeInv, AllHalfway
    <3>1. CASE v = its
      <4>1. PICK n \in Nat : n = taken
        BY <2>1, TakeOwn
      <4>2. PICK c : c = configs[v]
        OBVIOUS
      <4>3. services[n + 1] \in Service /\ services' = services /\ Own(v) \subseteq 1..n /\ Own(v)' = Own(v) \cup {n + 1}
        BY <2>1, <2>3, <3>1, <4>1, TakeOwn
      <4>4. Halfway(Joined(c, n + 1), v)'
        BY <3>0, <4>2, <4>3, HalfwayJoined
      <4>5. PICK d : d = Joined(c, n + 1)
        OBVIOUS
      <4>6. Joined(c, n + 1)' = d
        BY <4>3, <4>5 DEF Joined, Mounts
      <4>7. configs'[v] = d
        BY <2>2, <3>1, <4>1, <4>2, <4>5
      <4> QED
        BY <4>4, <4>6, <4>7
    <3>2. CASE v # its
      <4>1. configs'[v] = configs[v]
        BY <2>2, <2>6, <3>2
      <4>2. \A c : Halfway(c, v) => Halfway(c, v)'
        BY <2>1, <2>4, <3>2, TakeOwn, HalfwayStays
      <4> QED
        BY <3>0, <4>1, <4>2
    <3> QED
      BY <3>1, <3>2
  <2> QED
    BY <1>1, <2>1, <2>7, <2>8
<1>5. ASSUME UNCHANGED <<services, only, taken, configs>> PROVE Configured' /\ AllHalfway'
  <2>1. \A v : Own(v)' = Own(v) /\ Wanted(v)' = Wanted(v)
    BY <1>5 DEF Own, Wanted, Accepted
  <2>2. Configured'
    BY <1>5, <2>1 DEF Configured, MergeInv
  <2>3. ASSUME NEW v \in DOMAIN configs PROVE Halfway(configs[v], v)'
    <3>1. \A c : Halfway(c, v) => Halfway(c, v)'
      BY <1>5, <2>1, HalfwayStays
    <3>2. Halfway(configs[v], v)
      BY DEF MergeInv, AllHalfway
    <3> QED
      BY <1>5, <3>1, <3>2
  <2> QED
    BY <1>5, <2>2, <2>3 DEF AllHalfway
<1>6. CASE MapProcesses
  <2>1. UNCHANGED <<services, only, taken, configs>> /\ taken = Len(services) /\ mapped' = TRUE /\ ~died'
    BY <1>6 DEF MapProcesses
  <2>2. arguments' = [v \in DOMAIN configs' |-> WithDefaults(configs'[v])]
    BY <1>6 DEF MapProcesses
  <2> QED
    BY <1>5, <2>1, <2>2 DEF MergeInv
<1>7. CASE UNCHANGED mergeVars
  <2>1. UNCHANGED <<services, only, taken, configs, died, mapped, arguments>>
    BY <1>7 DEF mergeVars
  <2>2. DiesOfAnEntry' <=> DiesOfAnEntry
    BY <2>1 DEF DiesOfAnEntry, TooShort, Accepted, Mounts
  <2> QED
    BY <1>5, <2>1, <2>2 DEF MergeInv
<1>8. CASE Die
  <2>1. /\ UNCHANGED <<services, only, taken, configs, mapped, arguments>> /\ died' = TRUE
        /\ taken < Len(services)
    BY <1>8 DEF Die
  <2>2. /\ services \in Seq(ToSet(services)) /\ taken \in Nat /\ taken + 1 \in DOMAIN services
        /\ mapped = FALSE
    BY <2>1, ServiceAssumption DEF MergeInv
  <2>3. DiesOfAnEntry
    <3>1. CASE TooShort(taken + 1)
      BY <2>2, <3>1 DEF DiesOfAnEntry
    <3>2. CASE ~TooShort(taken + 1)
      <4>1. PICK its : its = services[taken + 1].volume
        OBVIOUS
      <4>2. /\ Accepted(taken + 1) /\ Mounts(taken + 1) /\ its \in DOMAIN configs
            /\ ~Extendable(configs[its])
        BY <1>8, <3>2, <4>1 DEF Die, Extends
      <4>3. PICK i : i = configs[its].manifest[1]
        OBVIOUS
      <4>4. services[i].volumes \in {"absent", "null"}
        BY <4>2, <4>3 DEF Extendable
      <4>5. i \in Own(its)
        <5>1. PICK list : list = configs[its].manifest
          OBVIOUS
        <5>2. list \in Seq(Nat) /\ list # <<>> /\ ToSet(list) = Own(its)
          BY <4>2, <5>1 DEF MergeInv, AllHalfway, Halfway, Config, InOrder
        <5>3. 1 \in DOMAIN list
          BY <5>2
        <5> QED
          BY <4>3, <5>1, <5>2, <5>3 DEF ToSet
      <4>6. i \in 1..(taken + 1) /\ Accepted(i) /\ services[i].volume = its
        BY <2>2, <4>5 DEF Own
      <4> QED
        BY <2>2, <4>1, <4>2, <4>4, <4>6 DEF DiesOfAnEntry
    <3> QED
      BY <3>1, <3>2
  <2>4. DiesOfAnEntry'
    BY <2>1, <2>3 DEF DiesOfAnEntry, TooShort, Accepted, Mounts
  <2> QED
    BY <1>5, <2>1, <2>2, <2>4 DEF MergeInv
<1> QED
  BY <1>2, <1>3, <1>4, <1>6, <1>7, <1>8 DEF MergeNext

\* Before the first entry there is no configuration.
LEMMA MergeStart == MergeInit => MergeInv
<1> SUFFICES ASSUME MergeInit PROVE MergeInv
  OBVIOUS
<1>1. services \in Seq(ToSet(services)) /\ services \in ServiceLists /\ taken = 0 /\ configs = <<>> /\ mapped = FALSE /\ died = FALSE
  BY ServiceAssumption DEF MergeInit
<1>2. DOMAIN configs = {}
  BY <1>1
<1>3. \A v : Own(v) = {}
  BY <1>1 DEF Own
<1>4. Configured /\ AllHalfway
  BY <1>2, <1>3 DEF Configured, AllHalfway
<1>5. taken \in 0..Len(services) /\ mapped = FALSE /\ died = FALSE
  BY <1>1
<1> QED
  BY <1>1, <1>4, <1>5 DEF MergeInv

\* The arguments of the processes follow from the configurations.
LEMMA MergedRight == MergeInv => ServicesMerged
<1> SUFFICES ASSUME MergeInv, mapped PROVE AllConfigured /\ TagsAreTheirs
  BY DEF ServicesMerged, MergeInv
<1>1. arguments = [v \in DOMAIN configs |-> WithDefaults(configs[v])] /\ DOMAIN arguments = DOMAIN configs
  BY DEF MergeInv
<1>2. ASSUME NEW v \in DOMAIN configs
      PROVE  /\ InOrder(arguments[v].manifest, Own(v)) /\ InOrder(arguments[v].volumes, Mounting(v))
             /\ arguments[v].manifest = configs[v].manifest
             /\ arguments[v].image = services[configs[v].manifest[1]].image
             /\ arguments[v].privileged = services[configs[v].manifest[1]].privileged
             /\ ToSet(DefaultTags) \cup (Theirs(v) \ {""}) \subseteq ToSet(arguments[v].tags)
             /\ ToSet(arguments[v].tags) \subseteq ToSet(DefaultTags) \cup Theirs(v) \cup
                  (IF services[configs[v].manifest[1]].tags = Null THEN {"None"} ELSE {})
  <2> DEFINE c == configs[v]
             first == services[c.manifest[1]]
  <2>1. Halfway(c, v)
    BY DEF MergeInv, AllHalfway
  <2>2. /\ c \in Config /\ InOrder(c.manifest, Own(v)) /\ InOrder(c.volumes, Mounting(v))
        /\ c.image = first.image /\ c.privileged = first.privileged
        /\ Theirs(v) \ {""} \subseteq ToSet(c.tags)
        /\ ToSet(c.tags) \subseteq Theirs(v) \cup (IF first.tags = Null THEN {"None"} ELSE {})
    BY <2>1 DEF Halfway
  <2>3. PICK d : d = WithDefaults(c)
    OBVIOUS
  <2>4. /\ d.manifest = c.manifest /\ d.volumes = c.volumes /\ d.image = c.image /\ d.privileged = c.privileged
        /\ d.tags = IF Given(c.tags) THEN DefaultTags \o c.tags ELSE DefaultTags
    BY <2>2, <2>3 DEF WithDefaults, Config
  <2>5. arguments[v] = d
    BY <1>1, <2>3
  <2>6. ToSet(d.tags) = ToSet(DefaultTags) \cup (IF Given(c.tags) THEN ToSet(c.tags) ELSE {})
    <3>1. PICK words : DefaultTags \in Seq(words) /\ c.tags \in Seq(words)
      <4> DEFINE words == ToSet(DefaultTags) \cup Tags
      <4>1. DefaultTags \in Seq(ToSet(DefaultTags))
        BY DEF DefaultTags, ToSet
      <4>2. c.tags \in Seq(Tags)
        BY <2>2 DEF Config
      <4>3. DefaultTags \in Seq(words) /\ c.tags \in Seq(words)
        BY <4>1, <4>2, SeqOver, Zenon
      <4> QED
        BY <4>3
    <3>2. ToSet(DefaultTags \o c.tags) = ToSet(DefaultTags) \cup ToSet(c.tags)
      BY <3>1, ToSetConcat
    <3> HIDE DEF c
    <3> QED
      BY <2>4, <3>2
  <2>7. ~Given(c.tags) => ToSet(c.tags) \subseteq {""}
    BY ToSetShort DEF Given, Null
  <2> HIDE DEF c, first
  <2>8. /\ ToSet(DefaultTags) \cup (Theirs(v) \ {""}) \subseteq ToSet(d.tags)
        /\ ToSet(d.tags) \subseteq ToSet(DefaultTags) \cup Theirs(v) \cup (IF first.tags = Null THEN {"None"} ELSE {})
    BY <2>2, <2>6, <2>7
  <2>9. /\ InOrder(d.manifest, Own(v)) /\ InOrder(d.volumes, Mounting(v)) /\ d.manifest = c.manifest
        /\ d.image = first.image /\ d.privileged = first.privileged
    BY <2>2, <2>4
  <2> QED
    BY <2>5, <2>8, <2>9 DEF c, first
<1>3. DOMAIN arguments = {v \in {services[i].volume : i \in {j \in 1..taken : Accepted(j)}} : Wanted(v)}
  BY <1>1 DEF MergeInv, Configured, Own
<1>4. AllConfigured
  <2>1. ASSUME NEW v \in DOMAIN arguments
        PROVE  /\ InOrder(arguments[v].manifest, Own(v)) /\ InOrder(arguments[v].volumes, Mounting(v))
               /\ arguments[v].image = services[arguments[v].manifest[1]].image
               /\ arguments[v].privileged = services[arguments[v].manifest[1]].privileged
    BY <1>1, <1>2
  <2> QED
    BY <1>3, <2>1, Zenon DEF AllConfigured
<1>5. TagsAreTheirs
  <2>1. ASSUME NEW v \in DOMAIN arguments
        PROVE  LET theirs == UNION {ToSet(services[i].tags) : i \in Own(v)}
                   first == services[arguments[v].manifest[1]]
                   tags == ToSet(arguments[v].tags)
               IN  /\ ToSet(DefaultTags) \cup (theirs \ {""}) \subseteq tags
                   /\ tags \subseteq ToSet(DefaultTags) \cup theirs \cup (IF first.tags = Null THEN {"None"} ELSE {})
    BY <1>1, <1>2 DEF Theirs
  <2> QED
    BY <2>1 DEF TagsAreTheirs
<1> QED
  BY <1>4, <1>5

\* container-puppet.py merges the services of a volume completely, and gives puppet the
\* tags of all of them; it dies only of an entry that is too short, or of volumes for a
\* config_volume whose first service has no list of them.
THEOREM ServicesAreMerged == MergeSpec => []ServicesMerged
BY MergeStart, MergeStep, MergedRight, PTL DEF MergeSpec
=============================================================================
