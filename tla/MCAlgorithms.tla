----------------------------- MODULE MCAlgorithms ----------------------------
(***************************************************************************)
(* The tools and loops that compute, each on every input of a small set.   *)
(* A behaviour has one of them run, the others wait with an input of       *)
(* theirs.                                                                 *)
(***************************************************************************)
EXTENDS ServiceConfigs, EndpointMap, EnvironmentGenerator, ServiceChecks, TLC

VARIABLE tool

Bounded(S, n) == UNION {[1..k -> S] : k \in 0..n}
One(S) == CHOOSE x \in S : TRUE

(***************************************************************************)
(* Entries of container-puppet.json: up to 4 of 8                          *)
(***************************************************************************)
Entry(volume, tags, manifest, image, privileged, volumes) ==
  [volume |-> volume, tags |-> tags, manifest |-> manifest, image |-> image,
   privileged |-> privileged, volumes |-> volumes]

Entries ==
  {Null, Entry("", Null, "", "", FALSE, "short"),
   Entry("heat", Null, "include a", "i", FALSE, "empty"),
   Entry("heat", <<"heat_config">>, "include b", "i", TRUE, "some"),
   Entry("heat", <<"heat_api_paste_ini">>, "include f", "i", FALSE, "null"),
   Entry("heat", <<"">>, "include c", "j", FALSE, "absent"),
   Entry("heat", <<"x">>, "", "i", FALSE, "some"),
   Entry("nova", <<"nova_config">>, "include e", "k", FALSE, "some")}
MCServiceLists == Bounded(Entries, 4)

(***************************************************************************)
(* Endpoints: two services, of which the second has the name of the        *)
(* first's variant                                                         *)
(***************************************************************************)
Endpoint(protocol, port, suffixes, names) ==
  [protocol |-> protocol, port |-> port, net |-> "Net", suffixes |-> suffixes, names |-> names]
Plain == Endpoint(Absent, Absent, <<>> :> "none", <<>>)
Own1 == Endpoint("https", "1", <<>> :> "/v1", <<>>)
Versions == Endpoint(Absent, Absent, (<<>> :> "/") @@ (<<"V3">> :> "/v3") @@ (<<"Cfn">> :> "/cfn"), <<>>)
Named == Endpoint(Absent, "2", (<<>> :> "/") @@ (<<"EC2">> :> "/ec2"), <<"EC2">> :> <<"Heat", "Cfn", "EC2">>)
TypeSets(kinds) ==   \* as in the data, a name is only given to an internal endpoint
  {"Internal" :> e : e \in kinds} \cup {("Internal" :> e) @@ ("Public" :> f) : e \in kinds, f \in {Plain, Versions}}
Named2(name, port, types) == [name |-> name, port |-> port, protocol |-> Absent, types |-> types]
MCConfigs ==
  {<<Named2(<<"Heat">>, p, t), Named2(<<"Heat", "Cfn">>, "8000", u)>> :
     p \in {"8004", Absent}, t \in {<<>>} \cup TypeSets({Own1, Versions, Named}), u \in TypeSets({Plain, Named})}

(***************************************************************************)
(* Definitions of environments: one with up to two children, of which one  *)
(* may have a child, and another                                           *)
(***************************************************************************)
MCTemplates ==
  ("one.yaml" :> [Plain |-> "1", EndpointMap |-> "{}", server |-> "none"])
  @@ ("two.yaml" :> [Plain |-> "2", RoleName |-> "", Other |-> "o"])
Asks == {<<>>, "one.yaml" :> All, "one.yaml" :> <<"Plain">>, "two.yaml" :> All,
         ("one.yaml" :> <<"Plain", "EndpointMap">>) @@ ("two.yaml" :> All), "two.yaml" :> <<"server">>}
FileSeqs(ask) ==
  [i \in 1..Cardinality(DOMAIN ask) |->
     LET file == SetToSortSeq(DOMAIN ask, LAMBDA a, b : a = "one.yaml")[i]
     IN  [file |-> file, sections |-> IF i = 1 THEN "parameters" :> ask[file]
                                      ELSE ("parameters" :> ask[file]) @@ ("Compute" :> ask[file])]]
Statics == {<<>>, "static" :> {"Plain"}, "static" :> {"RoleName"}}
SampleMaps == {<<>>, "sample" :> ("Other" :> "t"), "sample" :> (("Plain" :> "s") @@ ("EndpointMap" :> "m"))}
Inputs(name) ==
  {name @@ (IF ask = <<>> THEN <<>> ELSE "files" :> FileSeqs(ask)) @@ st @@ sa :
     ask \in Asks, st \in Statics, sa \in SampleMaps}
Below == {<<>>} \cup {<<c>> : c \in Inputs("name" :> "child")}
         \cup {<<c @@ ("children" :> <<"name" :> "grandchild">>), "name" :> "base">> : c \in Inputs(<<>>)}
Roots == {e @@ ("children" :> cs) : e \in Inputs("name" :> "base"), cs \in Below}
MCDefinitions == {<<e, "name" :> "last">> : e \in Roots}
MCEnvironments == {"name" :> "last", "name" :> "grandchild"} \cup Roots \cup UNION {ToSet(cs) : cs \in Below}

(***************************************************************************)
(* Cases of the checks                                                     *)
(***************************************************************************)
Osd(n) == [s \in ServiceNames |-> IF s = "osd" THEN n ELSE 0]
MCRoleCases ==
  [services : [ServiceNames -> 0..2], reference : [ServiceNames -> 0..1], extras : {Osd(0), Osd(1), [s \in ServiceNames |-> 1]},
   appended : {Osd(0), Osd(2)}]

Includes(mysql, includes, client) == [mysql |-> mysql, includes |-> includes, client |-> client, puppet |-> client]
MCServiceCases ==
  {[service |-> "a",
    templates |-> ("a" :> Includes(ma, ia, ca)) @@ ("b" :> Includes(mb, ib, FALSE)) @@ ("c" :> Includes(mc, <<>>, FALSE))] :
     ma, mb, mc, ca \in BOOLEAN, ia \in Bounded({"b", "c", "class"}, 2), ib \in Bounded({"c", "class"}, 2)}

\* The lines after "upgrade_tasks": a task begins with a dash.
Line(k, n) == [kind |-> k, task |-> n]
Task(n) == {<<Line("dash", n)>> \o [i \in DOMAIN rest |-> Line(rest[i], n)] : rest \in Bounded({"when", "dash", "other"}, 4)}
MCLineCases == {first \o second : first \in Task(1), second \in {t \in Task(2) : Len(t) <= 3}}

Step(n) == [on |-> "step", n |-> n]
Conditions == {Step(0), Step(2), [on |-> "range"], [on |-> "result"]}
TaskLists == Bounded([form : {"list", "string"}, when : Bounded(Conditions, 3) \ {<<>>}], 1)
MCTaskCases ==
  [form : {"tasks"}, lists : {<<l>> : l \in TaskLists} \cup {<<<<>>, l>> : l \in TaskLists} \cup {<<<<>>, <<>>, l>> : l \in TaskLists}]
  \cup [form : {"attr", "other"}, lists : {<<<<>>>>, <<<<>>, <<>>>>}]

(***************************************************************************)
(* One runs                                                                *)
(***************************************************************************)
mapVars == <<data, template, status>>

AnyConfig == One(Configs)
AnyDefinition == One(Definitions)
AnyRole == One(RoleCases)

Init ==
  /\ tool \in {"merge", "map", "generate", "check"}
  /\ (tool # "merge" => services = <<>> /\ only = "") /\ MergeInit
  /\ (tool # "map" => data = AnyConfig) /\ MapInit
  /\ (tool # "generate" => definition = AnyDefinition) /\ GenerateInit
  /\ (tool # "check" => check = "role" /\ input = AnyRole) /\ CheckInit

Next ==
  \/ tool = "merge" /\ MergeNext /\ UNCHANGED <<tool, mapVars, generateVars, checkVars>>
  \/ tool = "map" /\ MapNext /\ UNCHANGED <<tool, mergeVars, generateVars, checkVars>>
  \/ tool = "generate" /\ GenerateNext /\ UNCHANGED <<tool, mergeVars, mapVars, checkVars>>
  \/ tool = "check" /\ CheckNext /\ UNCHANGED <<tool, mergeVars, mapVars, generateVars>>

Spec == Init /\ [][Next]_<<tool, mergeVars, mapVars, generateVars, checkVars>>
=============================================================================
