----------------------------- MODULE EndpointMap -----------------------------
(***************************************************************************)
(* network/endpoints/build_endpoint_map.py: the data of the services'      *)
(* endpoints becomes a heat template, with the default of the parameter    *)
(* EndpointMap and the outputs that read it, or is compared with the       *)
(* template that is there.  A name is the sequence of its words, so that   *)
(* Heat + Cfn and HeatCfn are the same name; what a key of the data does   *)
(* not give is Absent.                                                     *)
(***************************************************************************)
EXTENDS Naturals, Sequences, FiniteSets, SequencesExt

CONSTANT Configs   \* what endpoint_data.yaml may say: the services, sorted by name

Absent == "absent"
EndpointTypes == {"Internal", "Public", "Admin", "UIConfig"}

\* A service is named once.  A name given to an output is given once, and does not end like those
\* that are composed.
ASSUME ConfigAssumption ==
  \A config \in Configs :
    /\ config \in Seq(ToSet(config))
    /\ \A i, j \in DOMAIN config : config[i].name = config[j].name => i = j
    /\ \A s \in ToSet(config) :
         /\ s.name \in Seq(STRING) /\ DOMAIN s.types \subseteq EndpointTypes
         /\ \A t \in DOMAIN s.types :
              /\ \A v \in DOMAIN s.types[t].suffixes : v \in Seq(STRING)
              /\ \A v \in DOMAIN s.types[t].names :
                   /\ s.types[t].names[v] \in Seq(STRING) \ {<<>>}
                   /\ Last(s.types[t].names[v]) \notin EndpointTypes
                   /\ \A u \in DOMAIN s.types : \A w \in DOMAIN s.types[u].names :
                        s.types[t].names[v] = s.types[u].names[w] => <<t, v>> = <<u, w>>

VARIABLES
  data,      \* endpoint_data.yaml
  template,  \* endpoint_map.yaml
  status     \* exit status of the tool, or NoStatus since the data were edited

NoStatus == 3

(***************************************************************************)
(* generate_endpoint_map_template                                          *)
(***************************************************************************)
Or(value, default) == IF value = Absent THEN default ELSE value

Key(service, type) == service.name \o <<type>>

\* The port of the service is read even where each type has its own: without one, the
\* generation raises.
Raises(config) == \E s \in ToSet(config) : s.port = Absent /\ DOMAIN s.types # {}

Item(s, type) ==
  [protocol |-> Or(s.types[type].protocol, Or(s.protocol, "http")), port |-> Or(s.types[type].port, s.port)]

\* endpoint_map_default.  Keys of two endpoints are never the same: no type ends another.
Pairs(config) == {p \in ToSet(config) \X EndpointTypes : p[2] \in DOMAIN p[1].types}

Default(config) ==
  [key \in {Key(p[1], p[2]) : p \in Pairs(config)} |->
     LET p == CHOOSE q \in Pairs(config) : Key(q[1], q[2]) = key IN Item(p[1], p[2])]

\* MUTANT of OutputName: the name given stands for each variant.
OutputNameOfAll(s, tv) ==
  LET type == s.types[tv[1]]
  IN  IF DOMAIN type.names # {} THEN type.names[CHOOSE v \in DOMAIN type.names : TRUE] ELSE s.name \o tv[2] \o <<tv[1]>>

\* The variants of a service share its entry in the map; each has an output of its own.
OutputName(s, tv) ==
  IF tv[2] \in DOMAIN s.types[tv[1]].names THEN s.types[tv[1]].names[tv[2]] ELSE s.name \o tv[2] \o <<tv[1]>>

Output(s, tv) ==
  [reads |-> Key(s, tv[1]), net |-> s.types[tv[1]].net, suffix |-> s.types[tv[1]].suffixes[tv[2]]]

\* The pairs of a type and a variant of a service.
Variants(s) == UNION {{<<t, v>> : v \in DOMAIN s.types[t].suffixes} : t \in DOMAIN s.types}
OutputNames(s) == {OutputName(s, tv) : tv \in Variants(s)}

\* template_endpoint_items, into a dict: of two outputs with one name, that of the later service
\* stays.
Outputs(config) ==
  LET last(name) == CHOOSE i \in DOMAIN config :
                      name \in OutputNames(config[i]) /\ \A j \in DOMAIN config : name \in OutputNames(config[j]) => j <= i
  IN  [name \in UNION {OutputNames(s) : s \in ToSet(config)} |->
         LET s == config[last(name)] IN Output(s, CHOOSE tv \in Variants(s) : OutputName(s, tv) = name)]

Template(config) == [complete |-> TRUE, default |-> Default(config), outputs |-> Outputs(config)]

(***************************************************************************)
(* The tool and its user                                                   *)
(***************************************************************************)
MapInit ==
  /\ data \in Configs /\ status = NoStatus
  /\ template = [complete |-> FALSE, default |-> <<>>, outputs |-> <<>>]

EditData == data' \in Configs \ {data} /\ status' = NoStatus /\ UNCHANGED template

\* The template is only opened once it is generated.
Build ==
  /\ \/ Raises(data) /\ status' = 1 /\ UNCHANGED template
     \/ ~Raises(data) /\ status' = 0 /\ template' = Template(data)
  /\ UNCHANGED data

\* It is truncated and written, and the tool may be killed in between.
BuildKilled ==
  /\ ~Raises(data)
  /\ template' = [template EXCEPT !.complete = FALSE] /\ status' = NoStatus /\ UNCHANGED data

\* The option --check.  What was written of a file may not even parse.
Check ==
  /\ \/ Raises(data) /\ status' = 1
     \/ ~Raises(data) /\ template = Template(data) /\ status' = 0
     \/ ~Raises(data) /\ template # Template(data) /\ status' = 2
     \/ ~Raises(data) /\ ~template.complete /\ status' = 1
  /\ UNCHANGED <<data, template>>

\* Input and output are one file: nothing is read or written.
Refuse == status' = 1 /\ UNCHANGED <<data, template>>

MapNext == EditData \/ Build \/ BuildKilled \/ Check \/ Refuse

MapSpec == MapInit /\ [][MapNext]_<<data, template, status>>

(***************************************************************************)
(* Properties                                                              *)
(***************************************************************************)
\* Every output finds its protocol, port and host in the default map, and so in every
\* environment's map with the same keys, which yaml-validate.py demands of them.
OutputsResolve ==
  \A name \in DOMAIN template.outputs :
    LET key == template.outputs[name].reads
    IN  key \in DOMAIN template.default /\ template.default[key].port # Absent

\* No endpoint is lost: each variant of each has an output that leads to it under its own network
\* and suffix, and to its port and protocol, unless a later service produces the same name.
NothingLost ==
  \A i \in DOMAIN data : \A tv \in Variants(data[i]) :
    LET name == OutputName(data[i], tv) IN
    \/ /\ name \in DOMAIN template.outputs /\ template.outputs[name] = Output(data[i], tv)
       /\ template.default[Key(data[i], tv[1])] = Item(data[i], tv[1])
    \/ \E j \in DOMAIN data : j > i /\ name \in OutputNames(data[j])

\* build_endpoint_map.py: when it has exited with 0, be it that it has built the template or
\* checked the one that was there, the outputs find what they read, and no endpoint is lost.
EndpointsRight == status = 0 => OutputsResolve /\ NothingLost
=============================================================================
