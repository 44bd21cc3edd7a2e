--------------------------- MODULE UndercloudPost ---------------------------
(***************************************************************************)
(* extraconfig/post_deploy/undercloud_post.py: flavors and keypair in      *)
(* nova, TripleO's workbooks, workflows, cron trigger and password         *)
(* environment in mistral, and the start of three workflows.  Any call may *)
(* fail; the next run starts again from the first call.  Nova and mistral  *)
(* are external; kept of them is that they refuse to create what exists    *)
(* and to delete a workflow that a trigger is associated with.  Mistral is *)
(* also the user's: workbooks, workflows and cron triggers of others are   *)
(* there, and the script tells them from TripleO's by name or tag.         *)
(***************************************************************************)
EXTENDS Integers, Sequences

CONSTANTS
  Profiles,  \* the flavors, in the script's order
  Books,     \* workbooks TripleO may ship; each defines one workflow, tagged as managed
  LogBook,   \* the one whose workflow publishes the logs, always shipped
  Mine,      \* a workbook of the user's, with its workflow
  Named,     \* another, whose name starts with "tripleo"; its workflow has no tag
  MaxRevs,   \* bound: configurations in a behaviour
  MaxFaults  \* bound: calls that fail

VARIABLES
  conf,       \* its revision, the workbooks shipped, the services enabled, a public key file
  flavors,    \* per profile: exists, the profile in its specs, the old boot option
  keypair,    \* the default keypair exists
  workbooks, workflows,
  triggers,   \* cron triggers, each with the workflow it starts
  env,        \* the revision of the passwords in mistral's environment, 0: no environment
  plan,       \* the overcloud plan: "none", "creating" (by an execution), "there"
  pc, k,      \* the script: next call, flavor at work
  extra,      \* capabilities:profile in the dictionary that is updated from flavor to flavor
  gone,       \* workflows_delete
  faults

pvars == <<conf, flavors, keypair, workbooks, workflows, triggers, env, plan, pc, k, extra, gone, faults>>
nova == <<flavors, keypair, k, extra>>
mistral == <<workbooks, workflows, triggers, env, plan, gone>>

NoSpec == "none"      \* no specs at all
Plain == "plain"      \* specs, and no profile among them
Own(i) == IF Profiles[i] = "baremetal" THEN Plain ELSE Profiles[i]
Logs == [name |-> "publish-ui-logs-hourly", of |-> LogBook]
UserTrigger(w) == [name |-> "user", of |-> w]
Ended == {"idle", "done", "failed"}
Calls == {"flavor", "spec", "keypair", "books", "list", "triggers", "flows", "create", "cron",
          "env", "newenv", "plan", "validations"}

\* A fresh undercloud, or one that an older release has set up.
Init ==
  /\ conf \in [rev : {1}, books : {B \in SUBSET Books : LogBook \in B},
               enabled : SUBSET {"nova", "mistral", "validations"}, key : BOOLEAN]
  /\ \E old \in BOOLEAN :
       /\ flavors = [i \in DOMAIN Profiles |->
                      [made |-> old, spec |-> IF old THEN Own(i) ELSE NoSpec, boot |-> old]]
       /\ workbooks = {Mine, Named} \cup (IF old THEN Books ELSE {})
       /\ triggers = {UserTrigger(Mine), UserTrigger(Named)} \cup (IF old THEN {Logs} ELSE {})
  /\ workflows = workbooks
  /\ keypair \in BOOLEAN /\ env = 0 /\ plan = "none"
  /\ pc = "idle" /\ k = 1 /\ extra = Plain /\ gone = {} /\ faults = 0

\* A new release may ship other workbooks, and the passwords may change.
Reconfigure ==
  /\ pc \in Ended /\ conf.rev < MaxRevs
  /\ \E B \in SUBSET Books : LogBook \in B /\ conf' = [conf EXCEPT !.rev = @ + 1, !.books = B]
  /\ pc' = "idle"
  /\ UNCHANGED <<nova, mistral, faults>>

\* Between runs the user has a workflow of TripleO's started, too.
Subscribe ==
  /\ pc \in Ended
  /\ \E w \in workflows \cap Books : triggers' = triggers \cup {UserTrigger(w)}
  /\ UNCHANGED <<conf, nova, workbooks, workflows, env, plan, gone, pc, faults>>

\* Where the script goes on when it has finished with nova.
Mistral == IF "mistral" \in conf.enabled THEN "books" ELSE "done"

Begin ==
  /\ pc \in {"idle", "failed"}
  /\ k' = 1 /\ extra' = Plain
  /\ pc' = IF "nova" \in conf.enabled THEN "flavor" ELSE Mistral
  /\ UNCHANGED <<conf, flavors, keypair, mistral, faults>>

(***************************************************************************)
(* _configure_nova and _create_default_keypair                             *)
(***************************************************************************)

NextFlavor ==
  IF k < Len(Profiles) THEN k' = k + 1 /\ pc' = "flavor" ELSE k' = k /\ pc' = "keypair"

CreateFlavor ==
  /\ pc = "flavor" /\ ~flavors[k].made
  /\ flavors' = [flavors EXCEPT ![k].made = TRUE]
  /\ extra' = IF Profiles[k] # "baremetal" THEN Profiles[k] ELSE Plain
  /\ pc' = "spec"
  /\ UNCHANGED <<conf, keypair, k, mistral, faults>>

SetFlavorSpecs ==
  /\ pc = "spec"
  /\ flavors' = [flavors EXCEPT ![k].spec = extra]
  /\ NextFlavor
  /\ UNCHANGED <<conf, keypair, extra, mistral, faults>>

\* A flavor that exists only loses the boot option of an older release.
MigrateFlavor ==
  /\ pc = "flavor" /\ flavors[k].made
  /\ flavors' = [flavors EXCEPT ![k].boot = FALSE]
  /\ NextFlavor
  /\ UNCHANGED <<conf, keypair, extra, mistral, faults>>

\* The keypair, unless it is there or there is no public key to make it of.
CreateKeypair ==
  /\ pc = "keypair"
  /\ keypair' = (keypair \/ conf.key)
  /\ pc' = Mistral
  /\ UNCHANGED <<conf, flavors, k, extra, mistral, faults>>

(***************************************************************************)
(* _configure_wrokbooks_and_workflows                                      *)
(***************************************************************************)
TripleO(w) == w \in Books \cup {Named}   \* the workbook's name starts with "tripleo"
Managed(w) == w \in Books                \* the workflow's tag is tripleo-common-managed

DeleteWorkbook ==
  /\ pc = "books"
  /\ \/ \E w \in workbooks : TripleO(w) /\ workbooks' = workbooks \ {w} /\ pc' = pc
     \/ (\A w \in workbooks : ~TripleO(w)) /\ pc' = "list" /\ UNCHANGED workbooks
  /\ UNCHANGED <<conf, nova, workflows, triggers, env, plan, gone, faults>>

\* MUTANT of ListWorkflows: workflows that are not managed are listed too.
ListAllWorkflows ==
  /\ pc = "list"
  /\ gone' = workflows
  /\ pc' = "triggers"
  /\ UNCHANGED <<conf, nova, workbooks, workflows, triggers, env, plan, faults>>

ListWorkflows ==
  /\ pc = "list"
  /\ gone' = {w \in workflows : Managed(w)}
  /\ pc' = "triggers"
  /\ UNCHANGED <<conf, nova, workbooks, workflows, triggers, env, plan, faults>>

DeleteTrigger ==
  /\ pc = "triggers"
  /\ \/ \E t \in triggers : t.of \in gone /\ triggers' = triggers \ {t} /\ pc' = pc
     \/ (\A t \in triggers : t.of \notin gone) /\ pc' = "flows" /\ UNCHANGED triggers
  /\ UNCHANGED <<conf, nova, workbooks, workflows, env, plan, gone, faults>>

DeleteWorkflow ==
  /\ pc = "flows"
  /\ \/ \E w \in gone : (\A t \in triggers : t.of # w) /\ workflows' = workflows \ {w} /\ gone' = gone \ {w} /\ pc' = pc
     \/ gone = {} /\ pc' = "create" /\ UNCHANGED <<workflows, gone>>
  /\ UNCHANGED <<conf, nova, workbooks, triggers, env, plan, faults>>

CreateWorkbook ==
  /\ pc = "create"
  /\ \/ \E w \in conf.books \ workbooks :
          /\ workbooks' = workbooks \cup {w}
          /\ workflows' = workflows \cup {w}
          /\ pc' = pc
     \/ conf.books \subseteq workbooks /\ pc' = "cron" /\ UNCHANGED <<workbooks, workflows>>
  /\ UNCHANGED <<conf, nova, triggers, env, plan, gone, faults>>

(***************************************************************************)
(* Cron trigger, environment, plan, validations                            *)
(***************************************************************************)
CreateCron ==
  /\ pc = "cron" /\ Logs \notin triggers /\ LogBook \in workflows
  /\ triggers' = triggers \cup {Logs}
  /\ pc' = "env"
  /\ UNCHANGED <<conf, nova, workbooks, workflows, env, plan, gone, faults>>

\* MUTANT of UpdateEnv: the environment is created without a look at what is there.
UpdateNoEnv ==
  /\ pc = "env"
  /\ pc' = "newenv"
  /\ UNCHANGED <<conf, nova, mistral, faults>>

\* Any API error of the get or the update, not only NotFound, leads to the creation.
UpdateEnv ==
  /\ pc = "env"
  /\ \/ env > 0 /\ env' = conf.rev /\ pc' = "plan" /\ faults' = faults
     \/ env = 0 /\ pc' = "newenv" /\ UNCHANGED <<env, faults>>
     \/ faults < MaxFaults /\ faults' = faults + 1 /\ pc' = "newenv" /\ UNCHANGED env
  /\ UNCHANGED <<conf, nova, workbooks, workflows, triggers, plan, gone>>

\* If the environment exists after all, the creation fails and the run with it.
CreateEnv ==
  /\ pc = "newenv"
  /\ \/ env = 0 /\ env' = conf.rev /\ pc' = "plan"
     \/ env > 0 /\ pc' = "failed" /\ UNCHANGED env
  /\ UNCHANGED <<conf, nova, workbooks, workflows, triggers, plan, gone, faults>>

\* The script looks for the plan's container, not for an execution that is creating it.
CreatePlan ==
  /\ pc = "plan"
  /\ plan' = IF plan = "there" THEN plan ELSE "creating"
  /\ pc' = IF "validations" \in conf.enabled THEN "validations" ELSE "done"
  /\ UNCHANGED <<conf, nova, workbooks, workflows, triggers, env, gone, faults>>

StartValidations ==
  /\ pc = "validations"
  /\ pc' = "done"
  /\ UNCHANGED <<conf, nova, mistral, faults>>

\* The execution ends, at any time, with or without a container.
PlanCreated ==
  /\ plan = "creating"
  /\ plan' \in {"none", "there"}
  /\ UNCHANGED <<conf, nova, workbooks, workflows, triggers, env, gone, pc, faults>>

(***************************************************************************)
(* Failures                                                                *)
(***************************************************************************)
Fail ==
  /\ pc \in Calls /\ faults < MaxFaults
  /\ pc' = "failed" /\ faults' = faults + 1
  /\ UNCHANGED <<conf, nova, mistral>>

\* Mistral refuses the next call, and no failure explains it.
Refused ==
  \/ pc = "flows" /\ gone # {} /\ \A w \in gone : \E t \in triggers : t.of = w
  \/ pc = "cron" /\ (Logs \in triggers \/ LogBook \notin workflows)

Nova == CreateFlavor \/ SetFlavorSpecs \/ MigrateFlavor \/ CreateKeypair
Workbooks == DeleteWorkbook \/ ListWorkflows \/ DeleteTrigger \/ DeleteWorkflow \/ CreateWorkbook
Call == Nova \/ Workbooks \/ CreateCron \/ UpdateEnv \/ CreateEnv \/ CreatePlan \/ StartValidations

Next == Reconfigure \/ Subscribe \/ Begin \/ Call \/ PlanCreated \/ Fail

Spec == Init /\ [][Next]_pvars /\ WF_pvars(Begin) /\ WF_pvars(Call)

(***************************************************************************)
(* Properties                                                              *)
(***************************************************************************)

\* Deleting in the order triggers, workflows, and creating everything again is never refused,
\* wherever earlier runs stopped ("in order to delete workflows they should have no triggers
\* associated", 95), nor is the cron trigger, which every run creates without a look.
NeverRefused == ~Refused

\* Of what the user has in mistral, the script takes what it cannot tell from TripleO's and
\* nothing else: a workbook not named tripleo* stays, every workflow without the managed tag
\* stays, that of a workbook named tripleo* as well, and so do the triggers of these.  Not
\* kept are a workbook named tripleo* (88-90) and a trigger of a managed workflow (96-98).
MineKept ==
  /\ Mine \in workbooks
  /\ \A w \in {Mine, Named} : w \in workflows /\ UserTrigger(w) \in triggers

\* After a run that went through, mistral has the workbooks shipped and no other managed
\* workflow, the trigger, and the passwords in force; nova has the keypair if there is a key
\* file, and all flavors, migrated, with no specs or their own, though one dictionary is
\* updated from flavor to flavor.
DoneIsInForce ==
  pc = "done" =>
    /\ "mistral" \in conf.enabled =>
         /\ workbooks = conf.books \cup {Mine} /\ workflows = workbooks \cup {Named}
         /\ Logs \in triggers /\ env = conf.rev
    /\ "nova" \in conf.enabled =>
         /\ conf.key => keypair
         /\ \A i \in DOMAIN Profiles :
              flavors[i].made /\ ~flavors[i].boot /\ flavors[i].spec \in {NoSpec, Own(i)}
=============================================================================
