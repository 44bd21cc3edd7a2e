-------------------------- MODULE EnvironmentGenerator -----------------------
(***************************************************************************)
(* tripleo_heat_templates/environment_generator.py: sample environments    *)
(* from the parameters of heat templates.  A definition of an environment  *)
(* is a function from the keys it has; "files" is the sequence in which    *)
(* its files are read, each with what is asked of it per section (a list   *)
(* of names or All).  A written file shows per section, and apart for the  *)
(* static parameters, the value of each parameter.                         *)
(***************************************************************************)
EXTENDS Naturals, Sequences, SequencesExt

CONSTANTS
  Environments, \* the environments of definitions, and their children
  Definitions,  \* what a file of definitions may say: sequences of environments
  Templates,    \* Templates[file]: the parameters it defines, with their defaults
  Private,      \* _PRIVATE_OVERRIDES, and the names that begin with _
  Hidden        \* _HIDDEN_PARAMS

All == <<"all">>

Get(env, key, default) == IF key \in DOMAIN env THEN env[key] ELSE default
Children(env) == Get(env, "children", <<>>)
Static(env) == Get(env, "static", {})
Samples(env) == Get(env, "sample", <<>>)
FilesOf(env) == Get(env, "files", <<>>)

ASSUME DefinitionAssumption ==
  /\ Definitions \subseteq Seq(Environments)
  /\ \A env \in Environments : Children(env) \in Seq(Environments)

VARIABLES
  definition, \* the environments of the file
  pending,  \* calls to come, in their order: the path of inputs from the ancestor to this one
            \* (each with its place among its siblings), and the environment of the parent
  written,  \* the files that are there
  raised,   \* whether the program has stopped at an error
  done      \* the paths of the calls that have written, in their order (history)

generateVars == <<definition, pending, written, raised, done>>

(***************************************************************************)
(* _generate_environment                                                   *)
(***************************************************************************)
\* The keys of the input replace those of the parent, whole.
Inherit(parent, input) ==
  [key \in (DOMAIN parent \ {"children"}) \cup DOMAIN input |-> IF key \in DOMAIN input THEN input[key] ELSE parent[key]]

\* MUTANT of NewNames: all is all.
NewNamesAll(env, file, asked) == IF asked = All THEN DOMAIN Templates[file] ELSE ToSet(asked)

NewNames(env, file, asked) ==
  IF asked = All
  THEN DOMAIN Templates[file] \ (Hidden \ (Static(env) \cup DOMAIN Samples(env)))
  ELSE ToSet(asked)

Sections(env) == UNION {DOMAIN f.sections : f \in ToSet(FilesOf(env))}

\* A parameter is asked of a file that does not define it: the program stops.
Missing(env) ==
  \E f \in ToSet(FilesOf(env)) : \E role \in DOMAIN f.sections :
    ~(NewNames(env, f.file, f.sections[role]) \subseteq DOMAIN Templates[f.file])

ParamNames(env, role) ==
  UNION {NewNames(env, f.file, f.sections[role]) : f \in {g \in ToSet(FilesOf(env)) : role \in DOMAIN g.sections}}

\* Of a parameter in several files the definition read last counts, in all the sections.
Shown(env, p) ==
  LET files == FilesOf(env)
      defining == {i \in DOMAIN files : p \in DOMAIN Templates[files[i].file]}
      last == CHOOSE i \in defining : \A j \in defining : j <= i
  IN  IF p \in DOMAIN Samples(env) THEN Samples(env)[p] ELSE Templates[files[last].file][p]

Written(env) ==
  [registry |-> Get(env, "registry", {}),
   ordinary |-> [role \in Sections(env) |->
      [p \in ParamNames(env, role) \ (Private \cup Static(env)) |-> Shown(env, p)]],
   static |-> [role \in Sections(env) |-> [p \in ParamNames(env, role) \cap Static(env) |-> Shown(env, p)]]]

Node(n, input) == [n |-> n, input |-> input]

\* The calls for a list of environments below a path.
Calls(path, parent, inputs) ==
  [i \in DOMAIN inputs |-> [path |-> Append(path, Node(i, inputs[i])), parent |-> parent]]

GenerateInit ==
  /\ definition \in Definitions /\ pending = Calls(<<>>, <<>>, definition)
  /\ written = <<>> /\ raised = FALSE /\ done = <<>>

\* The environment of the call that is next.
Env == Inherit(Head(pending).parent, Last(Head(pending).path).input)

Raise == pending # <<>> /\ ~raised /\ Missing(Env) /\ raised' = TRUE /\ UNCHANGED <<definition, pending, written, done>>

\* The file is written, and the calls for the children come first.
Write ==
  /\ pending # <<>> /\ ~raised /\ ~Missing(Env)
  /\ written' = [file \in DOMAIN written \cup {Env.name} |-> IF file = Env.name THEN Written(Env) ELSE written[file]]
  /\ pending' = Calls(Head(pending).path, Env, Children(Last(Head(pending).path).input)) \o Tail(pending)
  /\ done' = Append(done, Head(pending).path)
  /\ UNCHANGED <<definition, raised>>

GenerateNext == Raise \/ Write

GenerateSpec == GenerateInit /\ [][GenerateNext]_generateVars

(***************************************************************************)
(* Properties                                                              *)
(***************************************************************************)
\* What a path gives to a key: that of the nearest that has it; but an environment has the
\* children of its own input.
Having(path, key) == {i \in DOMAIN path : key \in DOMAIN path[i].input}
Nearest(path, key) == path[CHOOSE i \in Having(path, key) : \A j \in Having(path, key) : j <= i].input[key]
Keys(path) == {key \in UNION {DOMAIN path[i].input : i \in DOMAIN path} : key = "children" => key \in DOMAIN Last(path).input}
Effective(path) == [key \in Keys(path) |-> Nearest(path, key)]

\* Path p comes before path q: it leads to q, or to an earlier sibling where they part.
Before(p, q) ==
  \/ Len(p) < Len(q) /\ \A i \in DOMAIN p : p[i].n = q[i].n
  \/ \E k \in DOMAIN p \cap DOMAIN q : p[k].n < q[k].n /\ \A i \in 1..(k - 1) : p[i].n = q[i].n

Paths == ToSet(done) \cup {c.path : c \in ToSet(pending)}

\* Whoever reads the definitions alone knows the files: each is that of the last environment of
\* its name, in the order of the definitions, and has every key from the nearest ancestor
\* that has it.  None is left out: those of a list, and the children of those that are written,
\* are written or still to come, but where a parameter that its file does not define has stopped
\* the program.
FilesFollowDefinitions ==
  /\ DOMAIN written = {Effective(p).name : p \in ToSet(done)}
  /\ \A i \in DOMAIN done :
       LET name == Effective(done[i]).name IN
       (\A j \in DOMAIN done : j > i => Effective(done[j]).name # name) => written[name] = Written(Effective(done[i]))
  /\ \A i, j \in DOMAIN done : i < j => Before(done[i], done[j])
  /\ \A n \in DOMAIN definition : <<Node(n, definition[n])>> \in Paths
  /\ \A p \in ToSet(done) : \A n \in DOMAIN Children(Last(p).input) : Append(p, Node(n, Children(Last(p).input)[n])) \in Paths
  /\ raised => pending # <<>> /\ Missing(Effective(Head(pending).path))

\* A hidden parameter is in a file only where its environment, or an ancestor whose key is in
\* force, names it: in the lists of names, as static, or with a sample.
Requested(env) ==
  Static(env) \cup DOMAIN Samples(env)
  \cup UNION {UNION {ToSet(f.sections[r]) : r \in DOMAIN f.sections} : f \in ToSet(FilesOf(env))}

HiddenOnRequest ==
  \A file \in DOMAIN written : \E p \in ToSet(done) :
    /\ Effective(p).name = file
    /\ \A r \in DOMAIN written[file].ordinary :
         Hidden \cap (DOMAIN written[file].ordinary[r] \cup DOMAIN written[file].static[r]) \subseteq Requested(Effective(p))

\* A user is never invited to change what must not be: a parameter is in no ordinary section if
\* it is private, or static in the environment.
NotForUsers ==
  \A file \in DOMAIN written : \E p \in ToSet(done) :
    /\ Effective(p).name = file
    /\ \A r \in DOMAIN written[file].ordinary :
         DOMAIN written[file].ordinary[r] \cap (Private \cup Static(Effective(p))) = {}

\* environment_generator.py: the files are those defined, hidden parameters are in them only
\* on request, and what a user may not change is not offered.
EnvironmentsRight == FilesFollowDefinitions /\ HiddenOnRequest /\ NotForUsers
=============================================================================
