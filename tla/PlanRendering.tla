---------------------------- MODULE PlanRendering ----------------------------
(***************************************************************************)
(* tools/process-templates.py: renders the Jinja2 templates of a tree for  *)
(* the roles and networks of two data files, in place or into an output    *)
(* directory, and cleans the tree of what it rendered.  Between two        *)
(* commands the data files may change; a command may stop anywhere, on a   *)
(* template that does not render or a file it must not overwrite.          *)
(*                                                                         *)
(* A path is a directory and a name; a name is a prefix and a stem, so     *)
(* that <<"compute", "role">> is compute-role.yaml.                        *)
(***************************************************************************)
EXTENDS Integers, Sequences, SequencesExt

CONSTANTS
  Walks,   \* orders in which os.walk may list the templates and the files
  Sources, \* the paths of files that are in the tree and not rendered
  Datas,   \* contents of roles_data.yaml, network_data.yaml (null: it is empty) and j2_excludes.yaml, and the
           \* outputs that do not render with them
  MaxRevs  \* bound: changes of the data

VARIABLES
  walk,    \* the order of this filesystem
  data, rev,
  disk,    \* per tree and path: nothing, a source file, or rendered from a revision
  cmd,     \* the command that is running or has run last
  pc,      \* "idle", "render", "clean", "done" (exit status 0), "failed"
  todo,    \* the entries of the walk left, or the networks and roles to be cleaned of
  jobs     \* the outputs left of the entry at work

rvars == <<walk, data, rev, disk, cmd, pc, todo, jobs>>

Nothing == 0
Source == -1
Trees == {"base", "out"}
Path(e) == [dir |-> e.dir, name |-> e.name]
Entries == ToSet(walk)
IsTemplate(e) == e.kind # "file"
NoCommand == [op |-> "none", safe |-> FALSE, dry |-> FALSE, tree |-> "base"]
Commands == [op : {"render"}, safe : BOOLEAN, dry : BOOLEAN, tree : Trees]

(***************************************************************************)
(* What a template is rendered to                                          *)
(***************************************************************************)
NicName(r) == <<"", IF r.nic # "" THEN r.nic ELSE r.low>>

RoleOutput(t, r) ==
  [dir |-> t.dir, name |-> IF t.dir = "network/config" THEN NicName(r) ELSE <<r.low, t.name[2]>>]

\* name_lower defaults to the name in lower case, which is kept in low in either case.
NetworkOutput(t, n) == [dir |-> t.dir, name |-> <<n.low, t.name[2]>>]

Job(kind, path) == [kind |-> kind, path |-> path]

\* The outputs of one entry of a directory for the roles and networks d: one file per role,
\* per network, of which those that are disabled come to nothing, or one.
Jobs(d, t) ==
  CASE t.kind = "role" -> [i \in DOMAIN d.roles |-> Job("role", RoleOutput(t, d.roles[i]))]
    [] t.kind = "network" ->
         [i \in DOMAIN d.networks |->
            Job(IF d.networks[i].enabled THEN "network" ELSE "disabled", NetworkOutput(t, d.networks[i]))]
    [] t.kind \in {"plain", "file"} -> <<Job(t.kind, Path(t))>>

AllJobs(d, w) == UNION {ToSet(Jobs(d, t)) : t \in {e \in ToSet(w) : IsTemplate(e)}}

\* All paths there may be.
Paths == {Path(e) : e \in Entries} \cup UNION {{j.path : j \in AllJobs(d, walk)} : d \in Datas}

Init ==
  /\ walk \in Walks /\ data \in Datas /\ rev = 1
  /\ disk = [tree \in Trees |-> [p \in Paths |-> IF tree = "base" /\ p \in Sources THEN Source ELSE Nothing]]
  /\ cmd = NoCommand /\ pc = "idle" /\ todo = <<>> /\ jobs = <<>>

Reconfigure ==
  /\ pc \in {"done", "failed"} /\ rev < MaxRevs
  /\ rev' = rev + 1 /\ data' \in Datas \ {data}
  /\ pc' = "idle" /\ cmd' = NoCommand
  /\ UNCHANGED <<walk, disk, todo, jobs>>

(***************************************************************************)
(* process_templates                                                       *)
(***************************************************************************)
BeginRender ==
  /\ pc \in {"idle", "done", "failed"}
  /\ cmd' \in Commands
  /\ pc' = "render" /\ todo' = walk /\ jobs' = <<>>
  /\ UNCHANGED <<walk, data, rev, disk>>

NextEntry ==
  /\ pc = "render" /\ jobs = <<>> /\ todo # <<>>
  /\ todo' = Tail(todo) /\ jobs' = Jobs(data, Head(todo))
  /\ UNCHANGED <<walk, data, rev, disk, cmd, pc>>

\* Networks that are disabled, and names that are excluded, which are joined to the template
\* path, while output names are joined to the output directory.
Skipped(j) ==
  j.kind = "disabled" \/ (j.kind \in {"role", "network"} /\ cmd.tree = "base" /\ j.path \in data.excluded)

Present(path) == disk[cmd.tree][path] # Nothing
Put(path, content) == disk' = [disk EXCEPT ![cmd.tree][path] = content]

\* Safe mode ends the command, also a dry run, at the first file that exists.
Overwrite(j) == j.kind # "file" /\ cmd.safe /\ Present(j.path) /\ ~Skipped(j)

\* A template that does not render ends it as well.
Stops(j) == Overwrite(j) \/ (j.kind # "file" /\ j.path \in data.broken /\ ~Skipped(j))

\* Other files are copied to an output directory, in a dry run and in safe mode as well.
CopyFile(j) ==
  /\ j.kind = "file"
  /\ IF cmd.tree = "out" /\ disk["base"][j.path] # Nothing THEN Put(j.path, disk["base"][j.path]) ELSE UNCHANGED disk

\* MUTANT of RenderFile: what is there is left as it is, safe mode or not.
RenderMissing(j) ==
  /\ j.kind # "file" /\ ~Stops(j)
  /\ IF cmd.dry \/ Skipped(j) \/ Present(j.path) THEN UNCHANGED disk ELSE Put(j.path, rev)

\* MUTANT of RenderFile: exclusions are not looked at.
RenderSkipped(j) ==
  /\ j.kind # "file" /\ ~(cmd.safe /\ Present(j.path)) /\ j.path \notin data.broken
  /\ IF cmd.dry \/ j.kind = "disabled" THEN UNCHANGED disk ELSE Put(j.path, rev)

\* The file is written in full from the data of the run; a dry run only looks.
RenderFile(j) ==
  /\ j.kind # "file" /\ ~Stops(j)
  /\ IF cmd.dry \/ Skipped(j) THEN UNCHANGED disk ELSE Put(j.path, rev)

Visit ==
  /\ pc = "render" /\ jobs # <<>>
  /\ CopyFile(Head(jobs)) \/ RenderFile(Head(jobs))
  /\ jobs' = Tail(jobs)
  /\ UNCHANGED <<walk, data, rev, cmd, pc, todo>>

Stop ==
  /\ pc = "render" /\ jobs # <<>> /\ Stops(Head(jobs))
  /\ pc' = "failed"
  /\ UNCHANGED <<walk, data, rev, disk, cmd, todo, jobs>>

(***************************************************************************)
(* clean_templates, with the tree as the working directory                 *)
(***************************************************************************)
\* MUTANT of NetworkStems: the outputs in network/ are forgotten.
NetworkStemsOfPorts ==
  {[dir |-> "network/ports", stem |-> s] :
     s \in {"", "external_resource", "from_pool", "v6", "from_pool_v6"}}

\* The files of a network that are deleted: a list beside, not of, the templates.
NetworkStems ==
  {[dir |-> "network", stem |-> s] : s \in {"", "from_pool", "v6", "from_pool_v6"}}
  \cup {[dir |-> "network/ports", stem |-> s] :
          s \in {"", "external_resource", "from_pool", "v6", "from_pool_v6"}}

NetworkFiles(n) == {[dir |-> x.dir, name |-> <<n.low, x.stem>>] : x \in NetworkStems}

RoleFiles(r) ==
  {[dir |-> "puppet", name |-> <<r.low, "role">>],
   [dir |-> "extraconfig/pre_network", name |-> <<r.low, "host_config_and_reboot">>],
   [dir |-> "network/config", name |-> <<"", r.low>>],
   [dir |-> "network/config", name |-> NicName(r)]}

Delete(paths) == disk' = [disk EXCEPT !["base"] = [p \in DOMAIN @ |-> IF p \in paths THEN Nothing ELSE @[p]]]

\* First the walk deletes what is named like a template without .j2.  An empty file of
\* networks, which the rendering takes for no networks (113), stops the cleaning there.
BeginClean ==
  /\ pc \in {"idle", "done", "failed"}
  /\ cmd' = [NoCommand EXCEPT !.op = "clean"]
  /\ pc' = IF data.null THEN "failed" ELSE "clean"
  /\ todo' = data.networks \o data.roles /\ jobs' = <<>>
  /\ Delete({Path(e) : e \in {x \in Entries : x.kind = "plain"}})
  /\ UNCHANGED <<walk, data, rev>>

\* Then, network by network and role by role, the files of each.  A network without
\* name_lower, which the rendering accepts, stops the cleaning.
CleanOne ==
  /\ pc = "clean" /\ todo # <<>>
  /\ LET x == Head(todo) IN
       \/ x.of = "network" /\ x.given /\ Delete(NetworkFiles(x)) /\ todo' = Tail(todo) /\ UNCHANGED pc
       \/ x.of = "network" /\ ~x.given /\ pc' = "failed" /\ UNCHANGED <<disk, todo>>
       \/ x.of = "role" /\ Delete(RoleFiles(x)) /\ todo' = Tail(todo) /\ UNCHANGED pc
  /\ UNCHANGED <<walk, data, rev, cmd, jobs>>

Finish ==
  /\ pc \in {"render", "clean"} /\ todo = <<>> /\ jobs = <<>>
  /\ pc' = "done"
  /\ UNCHANGED <<walk, data, rev, disk, cmd, todo, jobs>>

Next == Reconfigure \/ BeginRender \/ NextEntry \/ Visit \/ Stop \/ BeginClean \/ CleanOne \/ Finish

Spec == Init /\ [][Next]_rvars

(***************************************************************************)
(* Properties                                                              *)
(***************************************************************************)

Succeeded(op) == pc = "done" /\ cmd.op = op

\* Every output of the current data, but for those of role and network templates excluded.
Wanted == {j.path : j \in {i \in AllJobs(data, walk) : ~Skipped(i)}}

\* A rendering that exits with 0 has rendered every file from the data of this run, whatever
\* earlier commands left; into an output directory only if the tree has no rendered files,
\* which are copied over, or under, the new ones as the walk happens to list them.  Nothing is
\* said of a path where the tree has a source file in place of a rendered one: in place it is
\* excluded, and in an output directory the copy and the rendered file follow that order too.
RenderedIsCurrent ==
  Succeeded("render") /\ ~cmd.dry
    /\ (cmd.tree = "out" => \A p \in DOMAIN disk["base"] : disk["base"][p] <= 0)
  => \A p \in Wanted : p \in Sources \/ disk[cmd.tree][p] = rev

\* Safe mode never overwrites a file with a rendered one, even if the command fails later.
SafeKeeps ==
  [][pc = "render" /\ cmd.safe /\ jobs # <<>> /\ Head(jobs).kind # "file" =>
       \A p \in DOMAIN disk[cmd.tree] : Present(p) => disk'[cmd.tree][p] = disk[cmd.tree][p]]_rvars

\* No sequence of commands overwrites or deletes a file that is not rendered, except that
\* cleaning deletes the file that stands in for an excluded one.
SourcesKept ==
  [][\A p \in Sources : disk["base"][p] = Source =>
       disk'["base"][p] = Source \/ (cmd'.op = "clean" /\ p \in data.excluded)]_rvars

\* Both: what was there before a command and is not the command's to write stays as it is.
Protected == SafeKeeps /\ SourcesKept

\* Whatever the data's templates can render, for enabled networks and others.
Rendered == {j.path : j \in AllJobs(data, walk)}

\* Cleaning that exits with 0 leaves nothing of what the data's roles and networks, enabled or
\* not, are rendered to, but for the external_resource_*_v6 files that its list lacks.
CleanRemoves ==
  Succeeded("clean") => \A p \in Rendered : disk["base"][p] <= 0 \/ p.name[2] = "external_resource_v6"
=============================================================================
