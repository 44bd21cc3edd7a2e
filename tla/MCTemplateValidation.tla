------------------------- MODULE MCTemplateValidation ------------------------
EXTENDS TemplateValidation

MCFiles == {"endpoint_map", "tls", "public", "copy", "keystone", "nova", "hci", "tasks"}

MCPlace == [f \in MCFiles |->
  CASE f = "keystone" -> "deployment" [] f = "nova" -> "puppet/services" [] f = "hci" -> "hyperconverged-ceph"
    [] f \in {"endpoint_map", "tls", "public", "copy", "tasks"} -> "other"]

MCOriginal == [c \in {"copy"} |-> "tls"]

MCFields == {"default", "description"}
Def(d, t) == [x \in MCFields |-> IF x = "default" THEN d ELSE t]
MCExclusions == [p \in {"Debug", "Ip"} |-> IF p = "Ip" THEN {"default"} ELSE {}]
MCRight == [p \in {"Debug", "Ip"} |-> Def("1", "a")]

Plain == [parses |-> TRUE, heat |-> FALSE, fails |-> {}, params |-> [p \in {"Debug", "Ip"} |-> Undefined],
          endpoints |-> NoEndpoints]
Environment(endpoints) == [Plain EXCEPT !.endpoints = endpoints]
Unparsed(file) == [file EXCEPT !.parses = FALSE]
Template(debug, ip, fails) ==
  [Plain EXCEPT !.heat = TRUE, !.fails = fails,
     !.params = [p \in {"Debug", "Ip"} |-> IF p = "Debug" THEN debug ELSE ip]]

\* A template in which everything is wrong, one failure behind the other.
Deep == Unparsed(Template(Def("3", "b"), Def("1", "b"), {"version", "exception", "service", "nic config"}))

\* Endpoint map, two environments and a copy of one of them: missing, unread, old and null maps.
Endpointed ==
  {<<Environment("new"), Environment("new"), Environment("new"), Plain>>,
   <<Environment(NoEndpoints), Unparsed(Environment("old")), Environment("new"), Plain>>,
   <<Unparsed(Environment(NullEndpoints)), Environment("old"), Environment(NullEndpoints), Plain>>,
   <<Environment("new"), Environment(NullEndpoints), Environment("old"), [Plain EXCEPT !.fails = {"services-docker"}]>>,
   <<Environment("new"), Environment(NoEndpoints), Environment("new"), Environment("new")>>,
   <<Environment("new"), Environment("new"), Environment("old"), Unparsed(Environment(NullEndpoints))>>}

Keystones == {Template(Def("1", "a"), Def("2", "a"), {}), Template(Def("2", "a"), Null, {"interpolation"}),
              Template(Null, Undefined, {"uncaught", "resources"})}
Novas == {Template(Def("1", "a"), Def("1", "a"), {}), Deep,
          Template(Undefined, Def("1", "b"), {"service", "uncaught"})}
Hcis == {Plain, [Plain EXCEPT !.fails = {"compute services"}]}
Tasks == {Unparsed(Plain), Template(Undefined, Def("1", "b"), {"exception"}), Template(Def("2", "a"), Undefined, {})}

MCTrees ==
  {[f \in MCFiles |-> CASE f = "endpoint_map" -> e[1] [] f = "tls" -> e[2] [] f = "public" -> e[3] [] f = "copy" -> e[4]
                       [] f = "keystone" -> k [] f = "nova" -> n [] f = "hci" -> h [] f = "tasks" -> t] :
     e \in Endpointed, k \in Keystones, n \in Novas, h \in Hcis, t \in Tasks}
=============================================================================
