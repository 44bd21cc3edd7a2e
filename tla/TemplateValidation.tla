-------------------------- MODULE TemplateValidation -------------------------
(***************************************************************************)
(* tools/yaml-validate.py over a tree of files, and the developer who      *)
(* repairs what it reports and runs it again.  A run validates the files   *)
(* one by one and collects the parameters of the heat templates; then it   *)
(* compares the endpoint maps of the environments with the base map, and   *)
(* the definitions of each parameter with one another.  A check catches    *)
(* what it raises; what comes after the checks, and the two comparisons,   *)
(* do not, and end the program with a traceback and without its list.      *)
(* What a single check looks at is abstracted to whether a file fails it;  *)
(* which checks a file gets, in which order, and what is collected of a    *)
(* file that fails one, is as in the program.                              *)
(***************************************************************************)
EXTENDS Naturals, FiniteSets

CONSTANTS
  Files,
  Place,      \* Place[f]: the directory or name that decides on the checks of f
  Base,       \* endpoint_map.yaml
  Envs,       \* the environments that must contain an endpoint map
  Copies,     \* files of the name of one of these, elsewhere in the tree
  Original,   \* Original[c]: the environment of this name
  Ansible,    \* task files, which need not be heat templates (ANSIBLE_TASKS_YAMLS)
  Params,
  Fields,     \* of a parameter's definition
  Exclusions, \* Exclusions[p]: the fields that may differ (PARAMETER_DEFINITION_EXCLUSIONS)
  Right,      \* Right[p]: the definition the developer settles on if there are several
  RightMap,   \* and the endpoints on for a base without any
  Trees       \* the trees to start from: per file, what it contains

\* No EndpointMap, or one without a value; and the same of a parameter.
NoEndpoints == "no endpoints"
NullEndpoints == "null"
Undefined == [x \in Fields |-> "undefined"]
Null == [x \in Fields |-> "null"]

FileFields == {"parses", "heat", "fails", "params", "endpoints"}

ASSUME FileAssumption ==
  /\ Base \in Files /\ Envs \subseteq Files \ {Base} /\ IsFiniteSet(Envs)
  /\ Copies \subseteq Files \ (Envs \cup {Base}) /\ Original \in [Copies -> Envs]
  /\ Ansible \subseteq Files \ (Envs \cup Copies \cup {Base})
  /\ Exclusions \in [Params -> SUBSET Fields]
  /\ RightMap \notin {NoEndpoints, NullEndpoints}
  /\ \A p \in Params : Right[p] \notin {Undefined, Null}
  /\ \A t \in Trees : DOMAIN t = Files /\ \A f \in Files : DOMAIN t[f] = FileFields

VARIABLES
  content,  \* per file: parses, heat, what it fails, its parameters, its endpoints
  phase,    \* "idle", "walk", "endpoints", "compare", "ended"; or ended by a traceback from
            \* "validate", "validate_endpoint_map" or "update"
  todo,     \* files not yet visited
  map,      \* param_map: per parameter, the files it was found in
  base, envs,   \* endpoint maps read: of the base (or not), of these environments
  failed,   \* failed_files
  exit,     \* exit_val
  culprit,   \* the file under way when validate raised (the last "Validating ..." of the output)
  rounds    \* how often a list of failed files has been repaired (history), up to MaxRounds

tvars == <<content, phase, todo, map, base, envs, failed, exit, culprit, rounds>>

MaxRounds == 6

Init ==
  /\ content \in Trees /\ rounds = 0
  /\ phase = "idle" /\ todo = {} /\ map = [p \in Params |-> {}] /\ culprit = {}
  /\ base = FALSE /\ envs = {} /\ failed = {} /\ exit = 0

Begin ==
  /\ phase = "idle"
  /\ phase' = "walk" /\ todo' = Files /\ map' = [p \in Params |-> {}] /\ culprit' = {}
  /\ base' = FALSE /\ envs' = {} /\ failed' = {} /\ exit' = 0
  /\ UNCHANGED <<content, rounds>>

(***************************************************************************)
(* validate                                                                *)
(***************************************************************************)
Fails(f, check) == check \in content[f].fails

\* The checks that a place entails.  Only the directories of services are looked at as
\* services; what has been moved to deployment/ is only searched for interpolations.
Checks(place) ==
  CASE place = "puppet/services" -> {"service", "interpolation"}
    [] place = "docker/services" -> {"docker service", "interpolation"}
    [] place = "docker/services/logging" -> {"logging", "interpolation"}
    [] place = "deployment" -> {"interpolation"}
    [] place = "hyperconverged-ceph" -> {"compute services"}
    [] place = "roles" -> {"role name", "role services"}
    [] place = "network_data" -> {"networks"}
    [] place = "other" -> {}

\* The version is not supported: the file is left at once.
Unsupported(f) == content[f].heat /\ Fails(f, "version")

\* The loading, or a check, raises: the traceback is the only thing that is said of the file,
\* and of a task file, which need not be YAML, not even that.
Excepted(f) == ~content[f].parses \/ (~Unsupported(f) /\ Fails(f, "exception"))

\* Nothing is collected of such a file.
Unread(f) == Excepted(f) \/ Unsupported(f)

\* The old nic configuration is only looked for if everything before was right.
Checked(f) ==
  IF \E c \in Checks(Place[f]) : Fails(f, c) THEN 1
  ELSE IF content[f].heat /\ Fails(f, "nic config") THEN 1 ELSE 0

\* MUTANT of Retval: the result of the last check stands.
RetvalOfLast(f) ==
  IF Unread(f) THEN IF f \in Ansible /\ Excepted(f) THEN 0 ELSE 1
  ELSE IF content[f].heat THEN IF Fails(f, "resources") THEN 1 ELSE 0
  ELSE Checked(f)

Retval(f) ==
  IF Unread(f) THEN IF f \in Ansible /\ Excepted(f) THEN 0 ELSE 1
  ELSE IF content[f].heat /\ Fails(f, "resources") THEN 1
  ELSE Checked(f)

\* What comes after the checks is not in their try: parameters without a value, or a resource
\* without a type or properties, end the program.
Breaks(f) == ~Unread(f) /\ content[f].heat /\ Fails(f, "uncaught")

\* The parameters of f that are collected.
Collected(f) ==
  IF Unread(f) \/ ~content[f].heat THEN {} ELSE {p \in Params : content[f].params[p] # Undefined}

\* A file may not lie in environments/services-docker, whatever is in it.
Misplaced(f) == Fails(f, "services-docker")

\* An EndpointMap is found in f.
Mapped(f) == content[f].parses /\ content[f].endpoints # NoEndpoints

\* Of resources of which one is wrong and one raises, the one that comes first decides.
Visit(f) ==
  /\ phase = "walk" /\ f \in todo /\ (Breaks(f) => Fails(f, "resources"))
  /\ todo' = todo \ {f}
  /\ phase' = IF todo = {f} THEN "endpoints" ELSE phase
  /\ map' = [p \in Params |-> IF p \in Collected(f) THEN map[p] \cup {f} ELSE map[p]]
  /\ LET fails == Misplaced(f) \/ Retval(f) = 1
     IN  /\ failed' = IF fails THEN failed \cup {f} ELSE failed
         /\ exit' = IF fails THEN 1 ELSE exit
  /\ base' = IF f = Base THEN Mapped(f) /\ content[f].endpoints # NullEndpoints ELSE base
  /\ envs' = IF f \in Envs \cup Copies /\ Mapped(f) THEN envs \cup {f} ELSE envs
  /\ UNCHANGED <<content, culprit, rounds>>

Break(f) ==
  /\ phase = "walk" /\ f \in todo /\ Breaks(f)
  /\ phase' = "validate" /\ culprit' = {f} /\ exit' = 1
  /\ UNCHANGED <<content, todo, map, base, envs, failed, rounds>>

(***************************************************************************)
(* The end of the program                                                  *)
(***************************************************************************)
Differs(f) == content[f].endpoints # content[Base].endpoints

\* The maps are counted: a copy makes one too many, or stands in for one that is missing.
Comparable == base /\ Cardinality(envs) = Cardinality(Envs)

\* What is missing is listed by name.
Unmatched == Envs \ {IF f \in Copies THEN Original[f] ELSE f : f \in envs}

Wrong ==
  IF Comparable THEN {f \in envs : Differs(f)}
  ELSE (IF base THEN {} ELSE {Base}) \cup (IF Cardinality(envs) # Cardinality(Envs) THEN Unmatched ELSE {})

\* A map without a value has no keys to compare.
NullMap == Comparable /\ \E f \in envs : content[f].endpoints = NullEndpoints

\* MUTANT of Endpoints: compared only if nothing has failed.
EndpointsIfRight ==
  /\ phase = "endpoints" /\ ~NullMap
  /\ failed' = IF failed # {} THEN failed ELSE Wrong
  /\ exit' = IF failed # {} \/ Wrong # {} \/ ~Comparable THEN 1 ELSE exit
  /\ phase' = "compare"
  /\ UNCHANGED <<content, todo, map, base, envs, culprit, rounds>>

\* MUTANT of Endpoints: a base without a map is not listed.
EndpointsUnnamed ==
  /\ phase = "endpoints" /\ ~NullMap
  /\ failed' = failed \cup (Wrong \ {Base})
  /\ exit' = IF Wrong # {} \/ ~Comparable THEN 1 ELSE exit
  /\ phase' = "compare"
  /\ UNCHANGED <<content, todo, map, base, envs, culprit, rounds>>

Endpoints ==
  /\ phase = "endpoints" /\ ~NullMap
  /\ failed' = failed \cup Wrong
  /\ exit' = IF Wrong # {} \/ ~Comparable THEN 1 ELSE exit
  /\ phase' = "compare"
  /\ UNCHANGED <<content, todo, map, base, envs, culprit, rounds>>

EndpointsRaise ==
  /\ phase = "endpoints" /\ NullMap
  /\ phase' = "validate_endpoint_map" /\ exit' = 1
  /\ UNCHANGED <<content, todo, map, base, envs, failed, culprit, rounds>>

Agree(p, f, g) ==
  \A x \in Fields \ Exclusions[p] : content[f].params[p][x] = content[g].params[p][x]

\* All definitions must equal the first.
Mismatched(p) == \E f, g \in map[p] : ~Agree(p, f, g)

\* A definition without a value cannot take the excluded fields; one alone is not looked at.
Valueless(p, f) ==
  /\ f \in map[p] /\ content[f].params[p] = Null
  /\ \E g \in map[p] : g # f
NullDefinition == \E p \in Params : \E f \in map[p] : Valueless(p, f)

Compare ==
  /\ phase = "compare" /\ ~NullDefinition
  /\ LET mismatches == {p \in Params : Mismatched(p)}
     IN  /\ failed' = failed \cup UNION {map[p] : p \in mismatches}
         /\ exit' = IF mismatches # {} THEN 1 ELSE exit
  /\ phase' = "ended"
  /\ UNCHANGED <<content, todo, map, base, envs, culprit, rounds>>

CompareRaise ==
  /\ phase = "compare" /\ NullDefinition
  /\ phase' = "update" /\ exit' = 1
  /\ UNCHANGED <<content, todo, map, base, envs, failed, culprit, rounds>>

(***************************************************************************)
(* The developer, who knows what the run has said and nothing else         *)
(***************************************************************************)
\* An environment is updated to match the base, as the report says, and the base only gets
\* a map if it has none.
RightEndpoints ==
  IF content[Base].endpoints \in {NoEndpoints, NullEndpoints} THEN RightMap ELSE content[Base].endpoints

\* The failures of f that validate has printed, if the file could be loaded.  A check stands for
\* all that it looks at: the developer makes the file pass it.
Printed(f) ==
  IF ~content[f].parses \/ Retval(f) = 0 THEN {}
  ELSE IF Unsupported(f) THEN {"version"}
  ELSE IF Excepted(f) THEN {"exception"}
  ELSE Checks(Place[f]) \cup {"resources"}
       \cup IF \E c \in Checks(Place[f]) : Fails(f, c) THEN {} ELSE {"nic config"}

\* What a file in the list becomes.  What an earlier failure has hidden stays.
Repaired(f) ==
  [parses |-> content[f].parses \/ Retval(f) = 1, heat |-> content[f].heat,
   fails |-> content[f].fails \ (Printed(f) \cup {"services-docker"}),
   params |-> [p \in Params |-> IF f \in map[p] /\ Mismatched(p) THEN Right[p] ELSE content[f].params[p]],
   endpoints |-> IF f \in Wrong THEN RightEndpoints ELSE content[f].endpoints]

Repair ==
  /\ phase = "ended" /\ exit = 1
  /\ content' = [f \in Files |-> IF f \in failed THEN Repaired(f) ELSE content[f]]
  /\ phase' = "idle" /\ rounds' = IF rounds < MaxRounds THEN rounds + 1 ELSE rounds
  /\ UNCHANGED <<todo, map, base, envs, failed, exit, culprit>>

\* After a traceback from validate, only what raised is known, and the file it was in.
MendTemplate ==
  /\ phase = "validate"
  /\ content' = [f \in Files |->
       IF f \in culprit THEN [content[f] EXCEPT !.fails = @ \ {"uncaught"}] ELSE content[f]]
  /\ phase' = "idle"
  /\ UNCHANGED <<todo, map, base, envs, failed, exit, culprit, rounds>>

\* A traceback from a comparison names no file: the developer looks for what has no value.
MendMaps ==
  /\ phase = "validate_endpoint_map"
  /\ content' = [f \in Files |->
       IF f \in envs /\ content[f].endpoints = NullEndpoints
       THEN [content[f] EXCEPT !.endpoints = RightEndpoints] ELSE content[f]]
  /\ phase' = "idle"
  /\ UNCHANGED <<todo, map, base, envs, failed, exit, culprit, rounds>>

MendDefinitions ==
  /\ phase = "update"
  /\ content' = [f \in Files |->
       [content[f] EXCEPT !.params =
          [p \in Params |-> IF Valueless(p, f) THEN Right[p] ELSE content[f].params[p]]]]
  /\ phase' = "idle"
  /\ UNCHANGED <<todo, map, base, envs, failed, exit, culprit, rounds>>

Validate == Begin \/ (\E f \in Files : Visit(f) \/ Break(f)) \/ Endpoints \/ EndpointsRaise \/ Compare \/ CompareRaise
Developer == Repair \/ MendTemplate \/ MendMaps \/ MendDefinitions
Next == Validate \/ Developer

Spec == Init /\ [][Next]_tvars /\ WF_tvars(Next)

(***************************************************************************)
(* Properties                                                              *)
(***************************************************************************)

\* What the checks can look at, and what is a heat template.
Loaded(f) == content[f].parses /\ ~(f \in Ansible /\ Fails(f, "exception"))
Heat(f) == Loaded(f) /\ content[f].heat
Defines(f, p) == Heat(f) /\ content[f].params[p] # Undefined

\* No file has both the name of an environment and an endpoint map.
NoTwins == \A c \in Copies : content[c].endpoints = NoEndpoints

\* Exit status 0 means that every file, unless it is a task file that cannot be loaded or
\* checked, passes the checks of its place and as a heat template, with nothing in it that
\* raises, that no two heat templates disagree on a parameter beyond the fields excluded, and
\* that the endpoint maps that were found match the base; they are those of all environments
\* if no copy of one is about, which would stand in for it.
ZeroIsClean ==
  phase = "ended" /\ exit = 0 =>
    /\ \A f \in Files : content[f].parses \/ f \in Ansible
    /\ \A f \in Files : Loaded(f) =>
         content[f].fails \cap (Checks(Place[f]) \cup {"exception", "services-docker"}) = {}
    /\ \A f \in Files : Heat(f) => content[f].fails \cap {"version", "nic config", "resources", "uncaught"} = {}
    /\ \A p \in Params : \A f, g \in Files : Defines(f, p) /\ Defines(g, p) => Agree(p, f, g)
    /\ \A f \in envs : ~Differs(f)
    /\ NoTwins => \A f \in Envs : ~Differs(f)

\* However much of what is wrong is hidden, by files that cannot be loaded, by checks that raise
\* or that keep others from being made, by maps that are missing: five lists of failed files
\* show all of it.  Runs that end in a traceback are not counted: each of these shows
\* one thing only and hides every file that was still to come.
FiveRoundsSuffice == NoTwins => rounds <= 5

\* Repairing what is reported, run after run, ends in a run that succeeds: whatever makes a run
\* fail is in its list of failed files, or in its traceback.  Not so if a copy of an environment
\* has an endpoint map: there is one too many then, and the run fails with an empty list.
Converges == []NoTwins => <>[](phase = "ended" /\ exit = 0)
=============================================================================
