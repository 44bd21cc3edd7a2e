--------------------------- MODULE CtlplaneNetwork --------------------------
(***************************************************************************)
(* extraconfig/post_deploy/undercloud_ctlplane_network.py, which makes the *)
(* ctlplane network of the undercloud what the configuration says, one     *)
(* Neutron call after the other.  Any call may fail; the script then stops *)
(* where it is, and the next run starts again from the first call with     *)
(* what is there by then.  Neutron is external: of its rules those are     *)
(* kept that the script's order of calls is written for.  A subnet has one *)
(* cidr and physical network throughout: a change of either, after which   *)
(* the lookups find nothing, is left out.                                  *)
(***************************************************************************)
EXTENDS Naturals

CONSTANTS
  Names,       \* the subnets that may be configured
  Local,       \* the one local to the undercloud
  V6,          \* those with an IPv6 cidr
  MaxRevs,     \* bound: configurations in a behaviour
  MaxFaults    \* bound: calls that fail

VARIABLES
  conf,     \* the configuration: its revision, its subnets, routed networks and neutron enabled
  network,  \* the revision the network's own values have, 0 if there is no network
  segments, \* the segments of the network, by the subnet whose physical network they are on
  subnet,   \* per subnet, the revision its values have (0: absent) and its segment
  routers,  \* the subnets a router was created for
  served,   \* those whose router has an interface on them
  tags,     \* the network's tags: the subnets whose cidr it carries
  pc, name, todo, cidrs,  \* the script: next call, subnet at work, the others left, net_cidrs
  faults

nvars == <<conf, network, segments, subnet, routers, served, tags, pc, name, todo, cidrs, faults>>

NoSegment == "none"
Made(n) == subnet[n].rev > 0
Ended == {"idle", "done", "failed"}
Calls == {"network", "associate", "rename", "segment", "create", "update", "router", "interface", "tags"}

Init ==
  /\ conf \in [rev : {1}, subnets : {S \in SUBSET Names : Local \in S},
               routed : BOOLEAN, neutron : BOOLEAN]
  /\ network = 0
  /\ segments = {}
  /\ subnet = [n \in Names |-> [rev |-> 0, segment |-> NoSegment]]
  /\ routers = {} /\ served = {} /\ tags = {}
  /\ pc = "idle" /\ name = Local /\ todo = {} /\ cidrs = {}
  /\ faults = 0

\* The operator changes undercloud.conf: adds or drops remote subnets, enables or
\* disables routed networks or neutron's API, or changes values only.
Reconfigure ==
  /\ pc \in Ended /\ conf.rev < MaxRevs
  /\ \E S \in SUBSET Names, r, e \in BOOLEAN :
       /\ Local \in S
       /\ conf' = [rev |-> conf.rev + 1, subnets |-> S, routed |-> r, neutron |-> e]
  /\ pc' = "idle"
  /\ UNCHANGED <<network, segments, subnet, routers, served, tags, name, todo, cidrs, faults>>

\* A first or failed deployment, or one whose configuration has changed; without neutron's
\* API it is left at a warning.
Begin ==
  /\ pc \in {"idle", "failed"}
  /\ pc' = (IF conf.neutron THEN "network" ELSE "done") /\ name' = Local /\ cidrs' = {}
  /\ todo' = IF conf.routed THEN conf.subnets \ {Local} ELSE {}
  /\ UNCHANGED <<conf, network, segments, subnet, routers, served, tags, faults>>

\* The call with which the work on subnet n starts, from what the two lookups find: a
\* local subnet gets a missing segment, a remote one has its segment renamed or created.
Turn(n) ==
  CASE n = Local /\ Made(n) /\ conf.routed /\ subnet[n].segment = NoSegment -> "associate"
    [] n = Local /\ Made(n) /\ ~(conf.routed /\ subnet[n].segment = NoSegment) -> "update"
    [] n = Local /\ ~Made(n) -> "create"
    [] n # Local /\ (Made(n) \/ n \in segments) -> "rename"
    [] n # Local /\ ~Made(n) /\ n \notin segments -> "segment"

\* The subnet at work is finished: the next one, in the order of a dictionary.
Proceed ==
  /\ cidrs' = cidrs \cup {name}
  /\ \/ todo = {} /\ pc' = "tags" /\ UNCHANGED <<name, todo>>
     \/ \E m \in todo : name' = m /\ todo' = todo \ {m} /\ pc' = Turn(m)

\* MUTANT of EnsureNetwork: a remote subnet may be worked on before the local one.
EnsureNetworkAnyFirst ==
  /\ pc = "network"
  /\ network' = conf.rev
  /\ segments' = segments \cup {Local}
  /\ \E m \in todo \cup {Local} : name' = m /\ todo' = (todo \cup {Local}) \ {m} /\ pc' = Turn(m)
  /\ UNCHANGED <<conf, subnet, routers, served, tags, cidrs, faults>>

\* A network of a physical network comes with its segment.
EnsureNetwork ==
  /\ pc = "network"
  /\ network' = conf.rev
  /\ segments' = segments \cup {Local}
  /\ pc' = Turn(Local)
  /\ UNCHANGED <<conf, subnet, routers, served, tags, name, todo, cidrs, faults>>

(***************************************************************************)
(* Neutron's rules: the subnets of a network are all on segments or none   *)
(* is, and only the single subnet of a network with a single segment may   *)
(* be given its segment later.                                             *)
(***************************************************************************)
MayCreate(segment) ==
  \A n \in Names : Made(n) => (subnet[n].segment = NoSegment <=> segment = NoSegment)

MayAssociate(n) == segments = {n} /\ \A m \in Names \ {n} : ~Made(m)

\* Local subnet of a network that was not routed.
Associate ==
  /\ pc = "associate" /\ MayAssociate(name)
  /\ subnet' = [subnet EXCEPT ![name].segment = name]
  /\ pc' = "update"
  /\ UNCHANGED <<conf, network, segments, routers, served, tags, name, todo, cidrs, faults>>

UpdateSegment ==
  /\ pc = "rename" /\ (Made(name) => subnet[name].segment # NoSegment)
  /\ pc' = IF Made(name) THEN "update" ELSE "create"
  /\ UNCHANGED <<conf, network, segments, subnet, routers, served, tags, name, todo, cidrs, faults>>

CreateSegment ==
  /\ pc = "segment"
  /\ segments' = segments \cup {name}
  /\ pc' = "create"
  /\ UNCHANGED <<conf, network, subnet, routers, served, tags, name, todo, cidrs, faults>>

\* The segment a new subnet is put on.
Segment == IF name # Local \/ conf.routed THEN name ELSE NoSegment

\* An IPv6 subnet needs a router that advertises it; others are finished.
CreateSubnet ==
  /\ pc = "create" /\ MayCreate(Segment)
  /\ subnet' = [subnet EXCEPT ![name] = [rev |-> conf.rev, segment |-> Segment]]
  /\ \/ name \in V6 /\ pc' = "router" /\ UNCHANGED <<name, todo, cidrs>>
     \/ name \notin V6 /\ Proceed
  /\ UNCHANGED <<conf, network, segments, routers, served, tags, faults>>

\* MUTANT of UpdateSubnet: an existing subnet keeps its values.
UpdateNothing ==
  /\ pc = "update"
  /\ Proceed
  /\ UNCHANGED <<conf, network, segments, subnet, routers, served, tags, faults>>

UpdateSubnet ==
  /\ pc = "update"
  /\ subnet' = [subnet EXCEPT ![name].rev = conf.rev]
  /\ Proceed
  /\ UNCHANGED <<conf, network, segments, routers, served, tags, faults>>

CreateRouter ==
  /\ pc = "router"
  /\ routers' = routers \cup {name}
  /\ pc' = "interface"
  /\ UNCHANGED <<conf, network, segments, subnet, served, tags, name, todo, cidrs, faults>>

AddInterface ==
  /\ pc = "interface"
  /\ served' = served \cup {name}
  /\ Proceed
  /\ UNCHANGED <<conf, network, segments, subnet, routers, tags, faults>>

SetTags ==
  /\ pc = "tags"
  /\ tags' = cidrs
  /\ pc' = "done"
  /\ UNCHANGED <<conf, network, segments, subnet, routers, served, name, todo, cidrs, faults>>

\* A call, or a lookup before it, raises; the call before it has had its effect.
Fail ==
  /\ pc \in Calls /\ faults < MaxFaults
  /\ pc' = "failed" /\ faults' = faults + 1
  /\ UNCHANGED <<conf, network, segments, subnet, routers, served, tags, name, todo, cidrs>>

\* Neutron refuses the next call, as it will in every other run.
Refused ==
  \/ pc = "associate" /\ ~MayAssociate(name)
  \/ pc = "rename" /\ Made(name) /\ subnet[name].segment = NoSegment
  \/ pc = "create" /\ ~MayCreate(Segment)

Call ==
  \/ EnsureNetwork \/ Associate \/ UpdateSegment \/ CreateSegment \/ CreateSubnet
  \/ UpdateSubnet \/ CreateRouter \/ AddInterface \/ SetTags

Next == Reconfigure \/ Begin \/ Call \/ Fail

Spec == Init /\ [][Next]_nvars /\ WF_nvars(Begin) /\ WF_nvars(Call)

(***************************************************************************)
(* Properties                                                              *)
(***************************************************************************)

\* Neutron never refuses what the script asks for, from wherever earlier runs stopped and
\* however routed networks were switched: the local subnet is worked on first "to ensure
\* it is can have the subnet associated with a segment" before remote ones exist (285-287).
NeverRefused == ~Refused

\* After a run that went through with neutron's API, the network is as configured: its own values, the tags,
\* and for each subnet the tags name its values and, if networks are routed, its segment.
DoneIsInForce ==
  pc = "done" /\ conf.neutron =>
    /\ network = conf.rev
    /\ tags = IF conf.routed THEN conf.subnets ELSE {Local}
    /\ \A n \in tags : subnet[n].rev = conf.rev /\ (conf.routed => subnet[n].segment = n)

\* Every IPv6 subnet of a network that is done has a router that sends advertisements
\* (229-230: "we need to start a router so that router advertisments are sent out").
RoutersServe == pc = "done" /\ conf.neutron => \A n \in V6 : Made(n) => n \in served
=============================================================================
