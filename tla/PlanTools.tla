------------------------------ MODULE PlanTools ------------------------------
(***************************************************************************)
(* The tools with which an operator works on a copy of the templates: the  *)
(* rendering and cleaning of the tree, and the conversion and extension of *)
(* the NIC configurations.  They share no files, so that each behaviour    *)
(* has the tools of one kind run, and leaves the other where it starts.    *)
(***************************************************************************)
EXTENDS Integers, Sequences

CONSTANTS
  Walks, Sources, Datas, MaxRevs,
  Files, Params, Reference, Originals, MaxTime, MaxKills

VARIABLES
  script, \* the tools at work: "plan", "nic"
  walk, data, rev, disk, cmd, planPc, planTodo, jobs,
  file, original, backups, clock, tool, pc, at, todo, stamp, discard, converted, kills, merged

Plan == INSTANCE PlanRendering WITH pc <- planPc, todo <- planTodo
Nic == INSTANCE NicConfigTools

\* Walks list entries, data files roles and networks.
ASSUME WalkAssumption ==
  \A w \in Walks : w \in Seq(Plan!ToSet(w)) /\ \A e \in Plan!ToSet(w) : e.kind \in {"role", "network", "plain", "file"}
ASSUME DataAssumption ==
  \A d \in Datas :
    /\ d.roles \in Seq(Plan!ToSet(d.roles)) /\ \A i \in DOMAIN d.roles : d.roles[i].of = "role"
    /\ d.null => d.networks = <<>>
    /\ d.networks \in Seq(Plan!ToSet(d.networks)) /\ \A i \in DOMAIN d.networks : d.networks[i].of = "network"

\* The templates per role and network that the repository has: *.role.j2.yaml, *.network.j2.yaml.
\* "network/config" is any of its directories of samples, all of which are cleaned.
ASSUME TemplateAssumption ==
  \A w \in Walks : \A e \in Plan!ToSet(w) :
    /\ e.kind = "role" => e.dir = "network/config" \/ (e.dir = "puppet" /\ e.name[2] = "role")
    /\ e.kind = "network" =>
         \/ e.dir = "network" /\ e.name[2] \in {"", "v6"}
         \/ /\ e.dir = "network/ports"
            /\ e.name[2] \in {"", "v6", "from_pool", "from_pool_v6", "external_resource", "external_resource_v6"}

\* A walk lists the sources.  What stands in for the output of a template is excluded, and what
\* does not is named otherwise.
ASSUME SourceAssumption ==
  /\ \A w \in Walks : Sources \subseteq {Plan!Path(e) : e \in Plan!ToSet(w)}
  /\ \A d \in Datas :
       /\ \A w \in Walks : \A j \in Plan!AllJobs(d, w) : j.path \in Sources => j.kind # "plain" /\ j.path \in d.excluded
       /\ \A i \in DOMAIN d.networks : Plan!NetworkFiles(d.networks[i]) \cap Sources \subseteq d.excluded
       /\ \A i \in DOMAIN d.roles : Plan!RoleFiles(d.roles[i]) \cap Sources \subseteq d.excluded

ASSUME NicAssumption ==
  Reference \subseteq Params /\ \A f \in Files : Originals[f] \subseteq Nic!Content

planVars == <<walk, data, rev, disk, cmd, planPc, planTodo, jobs>>
nicVars == <<file, original, backups, clock, tool, pc, at, todo, stamp, discard, converted, kills, merged>>

Init ==
  /\ Plan!Init /\ Nic!Init
  /\ \/ script = "plan" /\ original = [f \in Files |-> CHOOSE c \in Originals[f] : TRUE]
     \/ script = "nic" /\ walk = (CHOOSE w \in Walks : TRUE) /\ data = (CHOOSE d \in Datas : TRUE)

RunPlan == script = "plan" /\ Plan!Next /\ UNCHANGED <<script, nicVars>>
RunNic == script = "nic" /\ Nic!Next /\ UNCHANGED <<script, planVars>>

Next == RunPlan \/ RunNic

Spec == Init /\ [][Next]_<<script, planVars, nicVars>>

\* What was rendered is current: RenderedIsCurrent of PlanRendering.
RenderedIsCurrent == Plan!RenderedIsCurrent

\* Cleaning removes it: CleanRemoves of PlanRendering.
CleanRemoves == Plan!CleanRemoves

\* Nothing else is overwritten or deleted: Protected of PlanRendering.
Protected == Plan!Protected

\* The operator's NIC configuration is in the file or a backup: OriginalSaved of NicConfigTools.
OriginalSaved == Nic!OriginalSaved

\* Its parameters are lost only with a file that was cut and saved: ParametersKept of NicConfigTools.
ParametersKept == Nic!ParametersKept

\* A merge keeps what it found and makes comments of keys: MergeRepairs of NicConfigTools.
MergeRepairs == Nic!MergeRepairs
=============================================================================
