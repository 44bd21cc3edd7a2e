----------------------------- MODULE ServiceChecks ---------------------------
(***************************************************************************)
(* Checks of tools/yaml-validate.py that compute: the comparisons of the   *)
(* roles' services, the search for the use of mysql in the templates that  *)
(* a service includes, the order of conditions in upgrade tasks, and the   *)
(* scan of these for duplicate conditions.  A check returns 1 for an       *)
(* error; what raises is caught by validate, which gives 1 as well.        *)
(***************************************************************************)
EXTENDS Naturals, Sequences, SequencesExt

CONSTANTS
  ServiceNames, \* the names of services
  RoleCases,    \* roles and what they are compared with
  ServiceCases, \* services and the templates they include
  TaskCases,    \* upgrade tasks
  LineCases     \* lines of templates after "upgrade_tasks"

VARIABLES
  check,  \* the check that runs: "role", "mysql", "tasks", "whens"
  input,  \* what it checks
  line,   \* of a scan: how many lines it has read,
  count,  \* and the conditions it has counted
  retval  \* what the check returned, or Running

checkVars == <<check, input, line, count, retval>>

Running == 2
Error(wrong) == IF wrong THEN 1 ELSE 0

(***************************************************************************)
(* Roles that must have the services of another and some of their own.  A  *)
(* list of services is the number of times each is in it: they are sorted  *)
(* where they are compared.                                                *)
(***************************************************************************)
Bag == [ServiceNames -> Nat]

\* Not all of the extras can be removed from the services: remove raises.
Lacking(services, extras) == \E s \in ServiceNames : services[s] < extras[s]

\* The roles with Ceph, hyperconverged or not, and ControllerNoCeph.
CompareRole(services, extras, appended, reference) ==
  Error(Lacking(services, extras) \/ [s \in ServiceNames |-> services[s] - extras[s] + appended[s]] # reference)

ASSUME RoleAssumption ==
  \A c \in RoleCases : {c.services, c.extras, c.appended, c.reference} \subseteq Bag

(***************************************************************************)
(* The use of mysql.  A template: whether its settings have the protocol   *)
(* of mysql, the templates whose settings they include in the order of the *)
(* search ("class" for a class name), whether it has the mysql client as a *)
(* resource, and whether its puppet configuration includes that.           *)
(***************************************************************************)
\* The search stops at the first match, so that read_all goes into one template at most.
Followed(templates, t) ==
  LET includes == templates[t].includes
  IN  IF includes = <<>> THEN {} ELSE {Head(includes)} \ {"class"}

\* What the recursion comes to: the least set that has t, and what is followed from its members.
ReadAll(templates, t) ==
  {u \in DOMAIN templates : \A S \in SUBSET DOMAIN templates :
     t \in S /\ (\A v \in S : Followed(templates, v) \subseteq S) => u \in S}

MysqlUsage(templates, t) ==
  Error(/\ \E u \in ReadAll(templates, t) : templates[u].mysql
        /\ ~templates[t].client \/ ~templates[t].puppet)

ASSUME ServiceCaseAssumption ==
  \A c \in ServiceCases :
    /\ c.service \in DOMAIN c.templates
    /\ \A t \in DOMAIN c.templates :
         /\ c.templates[t].includes \in Seq(DOMAIN c.templates \cup {"class"})
         /\ c.templates[t].mysql \in BOOLEAN /\ c.templates[t].client \in BOOLEAN /\ c.templates[t].puppet \in BOOLEAN

\* No template includes itself, at any distance: neither read_all nor heat would end.
ASSUME IncludeAssumption ==
  \A c \in ServiceCases : \A S \in SUBSET DOMAIN c.templates :
    S # {} => \E t \in S : ToSet(c.templates[t].includes) \cap S = {}

(***************************************************************************)
(* Upgrade tasks.  A concatenation has its second list checked, which may  *)
(* be a concatenation in its turn: lists has the first list of each, and   *)
(* then what the last second one is, tasks, a get_attr, which is not       *)
(* looked at, or another function or no second list at all, which raises.  *)
(* A task is its "when", a list of conditions or one string that joins     *)
(* them, which only gets a warning: a condition is that the step is a      *)
(* number, another one on the step ("range"), or one on anything else.     *)
(***************************************************************************)
OnStep(when) == \E i \in DOMAIN when : when[i].on \in {"step", "range"}
StepFirst(when) == OnStep(when) => when[1].on = "step"

CheckedList(tasks) == tasks.lists[Len(tasks.lists)]

UpgradeTasks(tasks) ==
  Error(\/ tasks.form = "other"
        \/ /\ tasks.form = "tasks"
           /\ \E task \in ToSet(CheckedList(tasks)) : task.form = "list" /\ ~StepFirst(task.when))

ASSUME TaskAssumption ==
  \A tasks \in TaskCases :
    /\ tasks.lists \in Seq(ToSet(tasks.lists)) /\ Len(tasks.lists) > 0 /\ tasks.form \in {"tasks", "attr", "other"}
    /\ \A k \in DOMAIN tasks.lists : \A task \in ToSet(tasks.lists[k]) : task.when \in Seq(ToSet(task.when))

(***************************************************************************)
(* The checks                                                              *)
(***************************************************************************)
CheckInit ==
  /\ \/ check = "role" /\ input \in RoleCases
     \/ check = "mysql" /\ input \in ServiceCases
     \/ check = "tasks" /\ input \in TaskCases
     \/ check = "whens" /\ input \in LineCases
  /\ line = 0 /\ count = 0 /\ retval = Running

Return(value) == retval = Running /\ retval' = value /\ UNCHANGED <<check, input, line, count>>

CheckRole == check = "role" /\ Return(CompareRole(input.services, input.extras, input.appended, input.reference))
CheckMysql == check = "mysql" /\ Return(MysqlUsage(input.templates, input.service))
CheckTasks == check = "tasks" /\ Return(UpgradeTasks(input))

\* MUTANT of Counted: a dash does not begin anew.
CountedOn(n, kind) == IF kind = "when" THEN n + 1 ELSE n

\* validate_upgrade_tasks_duplicate_whens.  A line has "  when:", or else it has " -" (a task
\* begins, or anything else does), or neither.
Counted(n, kind) ==
  CASE kind = "when" -> n + 1
    [] kind = "dash" -> 0
    [] kind = "other" -> n

ScanLine ==
  /\ check = "whens" /\ retval = Running /\ line < Len(input)
  /\ line' = line + 1 /\ count' = Counted(count, input[line'].kind)
  /\ retval' = IF count' > 1 THEN 1 ELSE Running
  /\ UNCHANGED <<check, input>>

ScanEnds == check = "whens" /\ line = Len(input) /\ Return(0)

\* The first line of a task has a dash.
ASSUME LineAssumption ==
  \A lines \in LineCases :
    /\ lines \in Seq(ToSet(lines)) /\ \A l \in ToSet(lines) : l.kind \in {"when", "dash", "other"}
    /\ \A i \in DOMAIN lines : i + 1 \in DOMAIN lines /\ lines[i + 1].kind # "dash" => lines[i + 1].task = lines[i].task

CheckNext == CheckRole \/ CheckMysql \/ CheckTasks \/ ScanLine \/ ScanEnds

CheckSpec == CheckInit /\ [][CheckNext]_checkVars

(***************************************************************************)
(* Properties                                                              *)
(***************************************************************************)
\* A role passes exactly if it has the services of its reference role and the extras of its
\* kind, each as often as they have it and in any order.
RolesAgree ==
  retval = 0 <=>
    /\ \A s \in ServiceNames : input.services[s] + input.appended[s] = input.reference[s] + input.extras[s]
    /\ \A s \in ServiceNames : input.extras[s] <= input.services[s]

\* What a service includes, at any distance: there is a chain of inclusions to it.
Reachable(templates, t) ==
  {u \in DOMAIN templates : \A S \in SUBSET DOMAIN templates :
     t \in S /\ (\A v \in S : ToSet(templates[v].includes) \ {"class"} \subseteq S) => u \in S}

\* A service is only accused of using mysql without its client if some template that it
\* includes, at any distance, does use it; and a use is not missed where no template of these
\* includes more than one.
MysqlFound ==
  LET reachable == Reachable(input.templates, input.service)
      service == input.templates[input.service]
      wrong == (\E u \in reachable : input.templates[u].mysql) /\ (~service.client \/ ~service.puppet)
  IN  /\ retval = 1 => wrong
      /\ wrong /\ (\A u \in reachable : Len(input.templates[u].includes) <= 1) => retval = 1

\* Two conditions are found exactly if no line with a dash is between some two, which is so for
\* two of one task, but where a command or a list of conditions has one; and never in two tasks.
WhensFound ==
  retval = 1 <=> \E i, j \in DOMAIN input :
    /\ i < j /\ input[i].kind = "when" /\ input[j].kind = "when" /\ input[i].task = input[j].task
    /\ \A k \in i..j : input[k].kind # "dash"

\* Ansible evaluates the conditions of a task in their order, up to the first that is false.
Evaluated(when, step) ==
  {i \in DOMAIN when : \A j \in 1..(i - 1) : when[j].on = "step" => when[j].n = step}

\* In tasks that pass, a task that is bound to a step has none of its other conditions evaluated
\* in another step, where a result they ask for may not have been registered.  This is so for
\* the tasks whose conditions are a list, in a list of tasks or, of a concatenation, in its
\* second; nothing is promised of the others.
NothingTooEarly ==
  retval = 0 /\ input.form = "tasks" =>
    \A task \in ToSet(CheckedList(input)) : \A step \in 0..5 :
      LET own == {task.when[i].n : i \in {j \in DOMAIN task.when : task.when[j].on = "step"}}
      IN  task.form = "list" /\ own # {} /\ step \notin own => Evaluated(task.when, step) = {1}

\* yaml-validate.py: what the comparison of roles, the search for uses of mysql, the scan for
\* duplicate conditions of upgrade tasks and the check of their order are right about, which
\* is not all that they are for: a use of mysql behind a second include, a duplicate behind a
\* dash, and tasks in the first list of a concatenation or with their conditions in one string
\* escape them.
ChecksRight ==
  retval # Running =>
    /\ check = "role" => RolesAgree
    /\ check = "mysql" => MysqlFound
    /\ check = "tasks" => NothingTooEarly
    /\ check = "whens" => WhensFound
=============================================================================
