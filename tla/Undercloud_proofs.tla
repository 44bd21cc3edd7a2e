--------------------------- MODULE Undercloud_proofs --------------------------
(***************************************************************************)
(* For any subnets, workbooks, flavors, and any sequence of failures,      *)
(* reruns and new configurations: neutron and mistral never refuse a call  *)
(* of the two scripts, what a script that went through leaves is what is   *)
(* configured, and what is the user's stays.                               *)
(***************************************************************************)
EXTENDS Undercloud, TLAPS

(***************************************************************************)
(* The inductive invariant of the network's script                         *)
(***************************************************************************)
Revision == Nat \ {0}
Value == [rev : Nat, segment : Names \cup {"none"}]

NetType ==
  /\ netConf \in [rev : Revision, subnets : SUBSET Names, routed : BOOLEAN, neutron : BOOLEAN]
  /\ Local \in netConf.subnets
  /\ subnet \in [Names -> Value]
  /\ segments \subseteq Names
  /\ netPc \in Net!Ended \cup Net!Calls
  /\ name \in Names /\ todo \subseteq Names /\ cidrs \subseteq Names

\* The local subnet may have no segment yet, remote ones always have their own; and there
\* is nothing remote in neutron before the local one has its segment.
SegmentsInv ==
  /\ \A n \in Names : Net!Made(n) =>
       subnet[n].segment = n \/ (n = Local /\ subnet[n].segment = "none")
  /\ \A n \in Names \ {Local} : Net!Made(n) \/ n \in segments =>
       Net!Made(Local) /\ subnet[Local].segment = Local

\* Subnet n is as configured.
InForce(n) ==
  subnet[n].rev = netConf.rev /\ (netConf.routed => subnet[n].segment = n)

\* What a run has to work on.
Scope == IF netConf.routed THEN netConf.subnets ELSE {Local}

\* Where a run is: the local subnet is worked on first, and all behind are in force.
RunInv ==
  /\ netPc = "network" => name = Local /\ cidrs = {} /\ todo = Scope \ {Local}
  /\ netPc \in Net!Calls \ {"network"} =>
       /\ network = netConf.rev /\ Local \in segments
       /\ \A n \in cidrs : InForce(n)
       /\ name # Local => netConf.routed /\ Local \in cidrs
       /\ Local \notin todo
  /\ netPc \in Net!Calls \ {"network", "tags"} => cidrs \cup {name} \cup todo = Scope
  /\ netPc = "tags" => cidrs = Scope
  /\ netPc = "associate" => name = Local /\ netConf.routed /\ Net!Made(name) /\ subnet[name].segment = "none"
  /\ netPc \in {"rename", "segment"} => name # Local
  /\ netPc = "create" /\ name = Local => ~Net!Made(Local)
  /\ netPc = "update" => Net!Made(name) /\ (netConf.routed => subnet[name].segment = name)
  /\ netPc \in {"router", "interface"} => InForce(name)
  /\ netPc = "done" /\ netConf.neutron => network = netConf.rev /\ tags = Scope /\ \A n \in Scope : InForce(n)

NetInv == NetType /\ SegmentsInv /\ RunInv

(***************************************************************************)
(* The inductive invariant of the post configuration's script              *)
(***************************************************************************)
Flavor(i) == [made : BOOLEAN, spec : {"none", Post!Own(i)}, boot : BOOLEAN]

PostConf ==
  [rev : Revision, books : SUBSET Books, enabled : SUBSET {"nova", "mistral", "validations"}, key : BOOLEAN]

PostType ==
  /\ postConf \in PostConf
  /\ LogBook \in postConf.books
  /\ DOMAIN flavors = DOMAIN Profiles /\ \A i \in DOMAIN Profiles : flavors[i] \in Flavor(i)
  /\ k \in DOMAIN Profiles
  /\ workbooks \subseteq Books \cup {Mine, Named} /\ workflows \subseteq Books \cup {Mine, Named}
  /\ Post!Logs.of = LogBook /\ \A t \in triggers : t = Post!Logs \/ t = Post!UserTrigger(t.of)
  /\ gone \subseteq Books /\ env \in Nat
  /\ postPc \in Post!Ended \cup Post!Calls

\* Only what exists is created without a look, and a trigger has its workflow.
MistralInv ==
  /\ Post!MineKept
  /\ \A t \in triggers : t.of \in workflows

\* The flavor is migrated.
Migrated(i) == flavors[i].made /\ ~flavors[i].boot

FlavorsInv ==
  /\ \A i \in DOMAIN Profiles : ~flavors[i].made => ~flavors[i].boot
  /\ postPc \in {"flavor", "spec"} => \A i \in 1 .. k - 1 : Migrated(i)
  /\ postPc = "spec" => Migrated(k) /\ extra = Post!Own(k)
  /\ postPc = "keypair" => \A i \in DOMAIN Profiles : Migrated(i)
  /\ postPc \in (Post!Calls \ {"flavor", "spec", "keypair"}) \cup {"done"} /\ "nova" \in postConf.enabled =>
       (postConf.key => keypair) /\ \A i \in DOMAIN Profiles : Migrated(i)

\* Mistral is being configured, or has been.
AtMistral(calls) == postPc \in calls \/ (postPc = "done" /\ "mistral" \in postConf.enabled)

\* Where the script is in mistral: what has been deleted, and what is there again.
PlaceInv ==
  /\ postPc \in {"list", "triggers", "flows"} => workbooks = {Mine}
  /\ postPc \in {"triggers", "flows"} => gone = workflows \cap Books
  /\ postPc = "flows" => \A t \in triggers : t.of \notin gone
  /\ postPc = "create" => workflows = workbooks \cup {Named} /\ workbooks \subseteq postConf.books \cup {Mine}
  /\ postPc \in {"create", "cron"} => Post!Logs \notin triggers
  /\ AtMistral({"cron", "env", "newenv", "plan", "validations"}) =>
       workbooks = postConf.books \cup {Mine} /\ workflows = workbooks \cup {Named}
  /\ AtMistral({"env", "newenv", "plan", "validations"}) => Post!Logs \in triggers
  /\ AtMistral({"plan", "validations"}) => env = postConf.rev

PostInv == PostType /\ MistralInv /\ FlavorsInv /\ PlaceInv

IInv == NetInv /\ PostInv

(***************************************************************************)
(* The network's script                                                    *)
(***************************************************************************)
\* The first call for a subnet, given what neutron has.
LEMMA Turns ==
  ASSUME NetType, SegmentsInv, NEW n \in Names
  PROVE  LET call == Net!Turn(n)
         IN  /\ call \in {"associate", "update", "create", "rename", "segment"}
             /\ n # Local <=> call \in {"rename", "segment"}
             /\ call = "associate" => netConf.routed /\ Net!Made(n) /\ subnet[n].segment = "none"
             /\ call = "create" => ~Net!Made(n)
             /\ call = "update" => Net!Made(n) /\ (netConf.routed => subnet[n].segment = n)
<1>1. /\ netConf.routed \in BOOLEAN
      /\ Net!Made(n) => subnet[n].segment = n \/ (n = Local /\ subnet[n].segment = "none")
      /\ n # "none"
  BY SubnetAssumption DEF NetType, SegmentsInv
<1>2. CASE n = Local /\ Net!Made(n) /\ netConf.routed /\ subnet[n].segment = "none"
  BY <1>2 DEF Net!Turn, Net!NoSegment
<1>3. CASE n = Local /\ Net!Made(n) /\ ~(netConf.routed /\ subnet[n].segment = "none")
  BY <1>1, <1>3 DEF Net!Turn, Net!NoSegment
<1>4. CASE n = Local /\ ~Net!Made(n)
  BY <1>4 DEF Net!Turn, Net!NoSegment
<1>5. CASE n # Local /\ (Net!Made(n) \/ n \in segments)
  BY <1>5 DEF Net!Turn, Net!NoSegment
<1>6. CASE n # Local /\ ~Net!Made(n) /\ n \notin segments
  BY <1>6 DEF Net!Turn, Net!NoSegment
<1> QED
  BY <1>2, <1>3, <1>4, <1>5, <1>6

\* The script's calls, and where it may be between runs.
LEMMA Places ==
  /\ Net!Calls = {"network", "associate", "rename", "segment", "create", "update", "router", "interface", "tags"}
  /\ Net!Ended = {"idle", "done", "failed"}
BY DEF Net!Calls, Net!Ended

\* Before the first run there is no network.
LEMMA NetInit == Net!Init => NetInv
<1> SUFFICES ASSUME Net!Init PROVE NetInv
  OBVIOUS
<1>1. NetType
  BY SubnetAssumption DEF Net!Init, Net!NoSegment, NetType, Net!Ended, Value, Revision
<1>2. \A n \in Names : ~Net!Made(n)
  <2>1. subnet = [n \in Names |-> [rev |-> 0, segment |-> "none"]]
    BY DEF Net!Init, Net!NoSegment
  <2>2. \A n \in Names : subnet[n].rev = 0
    BY <2>1
  <2>3. \A n \in Names : ~(subnet[n].rev > 0)
    <3> SUFFICES ASSUME NEW n \in Names, NEW r, r = subnet[n].rev PROVE ~(r > 0)
      OBVIOUS
    <3> QED
      BY <2>2
  <2> QED
    BY <2>3 DEF Net!Made
<1>3. SegmentsInv
  BY <1>2 DEF Net!Init, SegmentsInv
<1>4. RunInv
  BY Places DEF Net!Init, RunInv
<1> QED
  BY <1>1, <1>3, <1>4 DEF NetInv

\* The script of the other one at work leaves everything.
LEMMA NetStays == NetInv /\ UNCHANGED netVars => NetInv'
BY DEF netVars, NetInv, NetType, SegmentsInv, RunInv, InForce, Scope, Net!Made

\* A step that changes neither neutron nor the configuration leaves what is said of them.
LEMMA NeutronStays ==
  ASSUME NetType, SegmentsInv, UNCHANGED <<netConf, segments, subnet>>
  PROVE  /\ SegmentsInv' /\ Scope' = Scope
         /\ \A n \in Names : (Net!Made(n)' <=> Net!Made(n)) /\ (InForce(n)' <=> InForce(n))
BY DEF SegmentsInv, Scope, Net!Made, InForce

\* A new configuration comes between runs.
LEMMA NetReconfigureKeeps == NetInv /\ Net!Reconfigure => NetInv'
<1> SUFFICES ASSUME NetInv, Net!Reconfigure PROVE NetInv'
  OBVIOUS
<1>1. UNCHANGED <<network, segments, subnet, name, todo, cidrs>> /\ netPc' = "idle"
  BY DEF Net!Reconfigure
<1>2. NetType'
  BY <1>1, Places DEF NetInv, NetType, Net!Reconfigure, Revision, Net!Ended
<1>3. SegmentsInv'
  BY <1>1 DEF NetInv, SegmentsInv, Net!Made
<1>4. RunInv'
  BY <1>1, Places DEF RunInv
<1> QED
  BY <1>2, <1>3, <1>4 DEF NetInv

\* Every run begins with the network and the local subnet.
LEMMA NetBeginKeeps == NetInv /\ Net!Begin => NetInv'
<1> SUFFICES ASSUME NetInv, Net!Begin PROVE NetInv'
  OBVIOUS
<1>1. /\ UNCHANGED <<netConf, network, segments, subnet>> /\ name' = Local /\ cidrs' = {}
      /\ netPc' = (IF netConf.neutron THEN "network" ELSE "done")
  BY DEF Net!Begin
<1>2. SegmentsInv' /\ Scope' = Scope
  BY <1>1, NeutronStays DEF NetInv
<1>3. todo' = Scope \ {Local}
  BY SubnetAssumption DEF Net!Begin, Scope, NetInv, NetType
<1>4. NetType'
  BY <1>1, <1>3, SubnetAssumption DEF NetInv, NetType, Net!Calls, Net!Ended, Scope
<1>5. RunInv'
  BY <1>1, <1>2, <1>3, Places DEF RunInv
<1> QED
  BY <1>2, <1>4, <1>5 DEF NetInv

\* A call fails: what has been done is what the next run finds.
LEMMA NetFailKeeps == NetInv /\ Net!Fail => NetInv'
<1> SUFFICES ASSUME NetInv, Net!Fail PROVE NetInv'
  OBVIOUS
<1>1. UNCHANGED <<netConf, segments, subnet, name, todo, cidrs>> /\ netPc' = "failed"
  BY DEF Net!Fail
<1>2. SegmentsInv'
  BY <1>1, NeutronStays DEF NetInv
<1>3. NetType'
  BY <1>1 DEF NetInv, NetType, Net!Ended
<1>4. RunInv'
  BY <1>1, Places DEF RunInv
<1> QED
  BY <1>2, <1>3, <1>4 DEF NetInv

\* The network is there, with the segment it comes with, and the local subnet's turn.
LEMMA NetworkKeeps == NetInv /\ Net!EnsureNetwork => NetInv'
<1> SUFFICES ASSUME NetInv, Net!EnsureNetwork PROVE NetInv'
  OBVIOUS
<1>1. /\ UNCHANGED <<netConf, subnet, name, todo, cidrs>> /\ netPc = "network"
      /\ network' = netConf.rev /\ segments' = segments \cup {Local} /\ netPc' = Net!Turn(Local)
  BY DEF Net!EnsureNetwork
<1>2. name = Local /\ cidrs = {} /\ todo = Scope \ {Local}
  BY <1>1 DEF NetInv, RunInv
<1>3. SegmentsInv' /\ Scope' = Scope
  BY <1>1 DEF NetInv, SegmentsInv, Scope, Net!Made
<1>4. Local \in Scope
  BY DEF Scope, NetInv, NetType
<1>5. /\ netPc' \in {"associate", "update", "create"}
      /\ netPc' = "associate" => netConf.routed /\ Net!Made(Local) /\ subnet[Local].segment = "none"
      /\ netPc' = "create" => ~Net!Made(Local)
      /\ netPc' = "update" => Net!Made(Local) /\ (netConf.routed => subnet[Local].segment = Local)
  BY <1>1, Turns, SubnetAssumption DEF NetInv
<1>6. NetType'
  BY <1>1, <1>5, Places, SubnetAssumption DEF NetInv, NetType
<1>7. Net!Made(Local)' <=> Net!Made(Local)
  BY <1>1 DEF Net!Made
<1>8. RunInv'
  BY <1>1, <1>2, <1>3, <1>4, <1>5, <1>7, Places DEF RunInv
<1> QED
  BY <1>3, <1>6, <1>8 DEF NetInv

\* Whatever subnet comes next, the state has its shape.
LEMMA ProceedsTypes ==
  ASSUME NetType, SegmentsInv, Net!Proceed, UNCHANGED <<netConf, segments>>, subnet' \in [Names -> Value]
  PROVE  NetType'
<1>1. cidrs' \subseteq Names
  BY DEF NetType, Net!Proceed
<1>2. name' \in Names /\ todo' \subseteq Names
  BY DEF NetType, Net!Proceed
<1>3. netPc' \in Net!Ended \cup Net!Calls
  <2>1. CASE netPc' = "tags"
    BY <2>1, Places
  <2>2. ASSUME NEW m \in todo, netPc' = Net!Turn(m) PROVE netPc' \in Net!Calls
    BY <2>2, Turns, Places DEF NetType
  <2> QED
    BY <2>1, <2>2 DEF Net!Proceed
<1> QED
  BY <1>1, <1>2, <1>3 DEF NetType

\* The next subnet's turn, or that of the tags.
LEMMA Proceeds ==
  ASSUME NetInv, NetType', SegmentsInv', Net!Proceed, netPc \in Net!Calls \ {"network", "tags"},
         UNCHANGED <<netConf, network, segments>>, \A n \in cidrs \cup {name} : InForce(n)'
  PROVE  NetInv'
<1>1. Scope' = Scope
  BY DEF Scope
<1>2. /\ network = netConf.rev /\ Local \in segments /\ Local \notin todo
      /\ name # Local => netConf.routed /\ Local \in cidrs
      /\ cidrs \cup {name} \cup todo = Scope
  BY Places DEF NetInv, RunInv
<1>3. cidrs' = cidrs \cup {name}
  BY DEF Net!Proceed
<1>4. CASE todo = {} /\ netPc' = "tags" /\ name' = name /\ todo' = todo
  BY <1>1, <1>2, <1>3, <1>4, Places DEF NetInv, RunInv
<1>5. ASSUME NEW m \in todo, name' = m, todo' = todo \ {m}, netPc' = Net!Turn(m) PROVE NetInv'
  <2>1. m \in Names /\ m # Local
    BY <1>2, <1>5 DEF NetInv, NetType
  <2>2. netPc' \in {"rename", "segment"}
    BY <1>5, <2>1, Turns DEF NetInv
  <2>3. netConf.routed
    BY <1>2, <1>5, <2>1 DEF Scope
  <2>4. Local \in cidrs' /\ cidrs' \cup {m} \cup todo' = Scope
    BY <1>2, <1>3, <1>5
  <2> QED
    BY <1>1, <1>2, <1>3, <1>5, <2>1, <2>2, <2>3, <2>4, Places DEF NetInv, RunInv
<1> QED
  BY <1>4, <1>5 DEF Net!Proceed

\* The local subnet gets its segment.
LEMMA AssociateKeeps == NetInv /\ Net!Associate => NetInv'
<1> SUFFICES ASSUME NetInv, Net!Associate PROVE NetInv'
  OBVIOUS
<1>1. /\ UNCHANGED <<netConf, network, segments, name, todo, cidrs>> /\ netPc = "associate" /\ netPc' = "update"
      /\ subnet' = [subnet EXCEPT ![name].segment = name]
  BY DEF Net!Associate
<1>2. name = Local /\ netConf.routed /\ Net!Made(Local)
  BY <1>1 DEF NetInv, RunInv
<1>3. subnet \in [Names -> Value] /\ Local \in Names
  BY SubnetAssumption DEF NetInv, NetType
<1>4. subnet' \in [Names -> Value] /\ subnet'[Local].segment = Local
  BY <1>1, <1>2, <1>3 DEF Value
<1>5. /\ \A n \in Names : subnet'[n].rev = subnet[n].rev
      /\ \A n \in Names \ {Local} : subnet'[n] = subnet[n]
  BY <1>1, <1>2, <1>3 DEF Value
<1>6. NetType'
  BY <1>1, <1>4, Places DEF NetInv, NetType
<1>7. SegmentsInv'
  BY <1>1, <1>3, <1>4, <1>5 DEF NetInv, SegmentsInv, Net!Made
<1>8. \A n \in cidrs : InForce(n)'
  <2>1. cidrs \subseteq Names /\ \A n \in cidrs : InForce(n)
    BY <1>1, Places DEF NetInv, NetType, RunInv
  <2> QED
    BY <1>1, <1>4, <1>5, <2>1 DEF InForce
<1>9. Net!Made(Local)' /\ Scope' = Scope
  BY <1>1, <1>2, <1>3, <1>5 DEF Net!Made, Scope
<1>10. RunInv'
  BY <1>1, <1>2, <1>4, <1>8, <1>9, Places DEF NetInv, RunInv
<1> QED
  BY <1>6, <1>7, <1>10 DEF NetInv

\* A remote subnet's segment gets its name.
LEMMA RenameKeeps == NetInv /\ Net!UpdateSegment => NetInv'
<1> SUFFICES ASSUME NetInv, Net!UpdateSegment PROVE NetInv'
  OBVIOUS
<1>1. /\ UNCHANGED <<netConf, network, segments, subnet, name, todo, cidrs>> /\ netPc = "rename"
      /\ netPc' = IF Net!Made(name) THEN "update" ELSE "create"
  BY DEF Net!UpdateSegment
<1>2. /\ SegmentsInv' /\ Scope' = Scope /\ \A n \in Names : Net!Made(n)' <=> Net!Made(n)
      /\ \A n \in Names : InForce(n)' <=> InForce(n)
  BY <1>1, NeutronStays DEF NetInv
<1>3. NetType'
  BY <1>1, Places DEF NetInv, NetType
<1>4. name \in Names /\ name # Local /\ cidrs \subseteq Names
  BY <1>1 DEF NetInv, RunInv, NetType
<1>5. netPc' = "update" => Net!Made(name) /\ subnet[name].segment = name
  BY <1>1, <1>4 DEF NetInv, SegmentsInv
<1>6. RunInv'
  BY <1>1, <1>2, <1>4, <1>5, Places DEF NetInv, RunInv
<1> QED
  BY <1>2, <1>3, <1>6 DEF NetInv

\* A remote subnet gets a segment to be created on.
LEMMA SegmentKeeps == NetInv /\ Net!CreateSegment => NetInv'
<1> SUFFICES ASSUME NetInv, Net!CreateSegment PROVE NetInv'
  OBVIOUS
<1>1. /\ UNCHANGED <<netConf, network, subnet, name, todo, cidrs>> /\ netPc = "segment" /\ netPc' = "create"
      /\ segments' = segments \cup {name}
  BY DEF Net!CreateSegment
<1>2. name \in Names /\ name # Local /\ netConf.routed /\ Local \in cidrs /\ cidrs \subseteq Names
  BY <1>1, Places DEF NetInv, RunInv, NetType
<1>3. Scope' = Scope /\ \A n : (Net!Made(n)' <=> Net!Made(n)) /\ (InForce(n)' <=> InForce(n))
  BY <1>1 DEF Scope, Net!Made, InForce
<1>4. NetType'
  BY <1>1, <1>2, Places DEF NetInv, NetType
<1>5. Net!Made(Local) /\ subnet[Local].segment = Local
  <2>1. InForce(Local) /\ netConf.rev \in Revision /\ subnet[Local].rev \in Nat
    BY <1>1, <1>2, SubnetAssumption, Places DEF NetInv, RunInv, NetType, Value
  <2> QED
    BY <1>2, <2>1 DEF InForce, Net!Made, Revision
<1>6. SegmentsInv'
  BY <1>1, <1>3, <1>5 DEF NetInv, SegmentsInv
<1>7. RunInv'
  BY <1>1, <1>2, <1>3, Places DEF NetInv, RunInv
<1> QED
  BY <1>4, <1>6, <1>7 DEF NetInv

\* A subnet is created: the local one on a network without others, a remote one, like all
\* there are by then, on its segment.
LEMMA CreateKeeps == NetInv /\ Net!CreateSubnet => NetInv'
<1> SUFFICES ASSUME NetInv, Net!CreateSubnet PROVE NetInv'
  OBVIOUS
<1>1. /\ UNCHANGED <<netConf, network, segments>> /\ netPc = "create"
      /\ subnet' = [subnet EXCEPT ![name] = [rev |-> netConf.rev, segment |-> Net!Segment]]
  BY DEF Net!CreateSubnet
<1>2. /\ name \in Names /\ netConf.rev \in Revision /\ netConf.routed \in BOOLEAN
      /\ subnet \in [Names -> Value] /\ cidrs \subseteq Names
      /\ \A n \in cidrs : InForce(n)
      /\ name # Local => netConf.routed /\ Local \in cidrs
      /\ name = Local => ~Net!Made(Local)
  BY <1>1, Places DEF NetInv, NetType, RunInv
<1>3. /\ Net!Segment \in {name, "none"} /\ (Net!Segment = "none" => name = Local)
      /\ netConf.routed => Net!Segment = name
  BY <1>2, SubnetAssumption DEF Net!Segment, Net!NoSegment
<1>4. subnet' \in [Names -> Value]
  BY <1>1, <1>2, <1>3 DEF Value, Revision
<1>5. /\ subnet'[name].rev = netConf.rev /\ subnet'[name].segment = Net!Segment
      /\ \A n \in Names \ {name} : subnet'[n] = subnet[n]
  BY <1>1, <1>2
<1>6. \A n \in Names : Net!Made(n)' <=> n = name \/ Net!Made(n)
  BY <1>2, <1>5 DEF Net!Made, Revision
<1>7. SegmentsInv'
  <2>1. CASE name = Local
    BY <1>1, <1>2, <1>3, <1>5, <1>6, <2>1 DEF NetInv, SegmentsInv
  <2>2. CASE name # Local
    <3>1. Net!Made(Local) /\ subnet[Local].segment = Local
      <4>1. InForce(Local) /\ Local \in Names
        BY <1>2, <2>2, SubnetAssumption
      <4>2. subnet[Local].rev = netConf.rev /\ subnet[Local].segment = Local
        BY <1>2, <2>2, <4>1 DEF InForce
      <4> QED
        BY <1>2, <4>2 DEF Net!Made, Revision
    <3>2. Net!Segment = name
      BY <1>2, <1>3, <2>2
    <3> QED
      BY <1>1, <1>2, <1>5, <1>6, <2>2, <3>1, <3>2, SubnetAssumption DEF NetInv, SegmentsInv
  <2> QED
    BY <2>1, <2>2
<1>8. \A n \in cidrs \cup {name} : InForce(n)'
  BY <1>1, <1>2, <1>3, <1>5 DEF InForce
<1>9. CASE netPc' = "router" /\ UNCHANGED <<name, todo, cidrs>>
  <2>1. NetType'
    BY <1>1, <1>4, <1>9, Places DEF NetInv, NetType
  <2>2. Scope' = Scope
    BY <1>1 DEF Scope
  <2>3. RunInv'
    BY <1>1, <1>2, <1>8, <1>9, <2>2, Places DEF NetInv, RunInv
  <2> QED
    BY <1>7, <2>1, <2>3 DEF NetInv
<1>10. CASE Net!Proceed
  <2>1. NetType'
    BY <1>1, <1>2, <1>4, <1>10, ProceedsTypes, Places DEF NetInv
  <2> QED
    BY <1>1, <1>7, <1>8, <1>10, <2>1, Proceeds, Places
<1> QED
  BY <1>9, <1>10 DEF Net!CreateSubnet

\* An existing subnet is brought up to date.
LEMMA UpdateKeeps == NetInv /\ Net!UpdateSubnet => NetInv'
<1> SUFFICES ASSUME NetInv, Net!UpdateSubnet PROVE NetInv'
  OBVIOUS
<1>1. /\ UNCHANGED <<netConf, network, segments>> /\ netPc = "update" /\ Net!Proceed
      /\ subnet' = [subnet EXCEPT ![name].rev = netConf.rev]
  BY DEF Net!UpdateSubnet
<1>2. /\ name \in Names /\ netConf.rev \in Revision /\ subnet \in [Names -> Value] /\ cidrs \subseteq Names
      /\ \A n \in cidrs : InForce(n)
      /\ Net!Made(name) /\ (netConf.routed => subnet[name].segment = name)
  BY <1>1, Places DEF NetInv, NetType, RunInv
<1>3. subnet' \in [Names -> Value]
  BY <1>1, <1>2 DEF Value, Revision
<1>4. /\ subnet'[name].rev = netConf.rev
      /\ \A n \in Names : subnet'[n].segment = subnet[n].segment
      /\ \A n \in Names \ {name} : subnet'[n] = subnet[n]
  BY <1>1, <1>2 DEF Value
<1>5. \A n \in Names : Net!Made(n)' <=> Net!Made(n)
  BY <1>2, <1>4 DEF Net!Made, Revision
<1>6. SegmentsInv'
  BY <1>1, <1>4, <1>5, SubnetAssumption DEF NetInv, SegmentsInv
<1>7. \A n \in cidrs \cup {name} : InForce(n)'
  BY <1>1, <1>2, <1>4 DEF InForce
<1>8. NetType'
  BY <1>1, <1>3, ProceedsTypes, Places DEF NetInv
<1> QED
  BY <1>1, <1>6, <1>7, <1>8, Proceeds, Places

\* The router of an IPv6 subnet that has just been created.
LEMMA RouterKeeps == NetInv /\ Net!CreateRouter => NetInv'
<1> SUFFICES ASSUME NetInv, Net!CreateRouter PROVE NetInv'
  OBVIOUS
<1>1. /\ UNCHANGED <<netConf, network, segments, subnet, name, todo, cidrs>>
      /\ netPc = "router" /\ netPc' = "interface"
  BY DEF Net!CreateRouter
<1>2. SegmentsInv' /\ Scope' = Scope /\ \A n \in Names : InForce(n)' <=> InForce(n)
  BY <1>1, NeutronStays DEF NetInv
<1>3. NetType'
  BY <1>1, Places DEF NetInv, NetType
<1>4. name \in Names /\ cidrs \subseteq Names
  BY DEF NetInv, NetType
<1>5. RunInv'
  BY <1>1, <1>2, <1>4, Places DEF NetInv, RunInv
<1> QED
  BY <1>2, <1>3, <1>5 DEF NetInv

\* Its interface, with which the subnet is finished.
LEMMA InterfaceKeeps == NetInv /\ Net!AddInterface => NetInv'
<1> SUFFICES ASSUME NetInv, Net!AddInterface PROVE NetInv'
  OBVIOUS
<1>1. UNCHANGED <<netConf, network, segments, subnet>> /\ netPc = "interface" /\ Net!Proceed
  BY DEF Net!AddInterface
<1>2. SegmentsInv' /\ \A n \in Names : InForce(n)' <=> InForce(n)
  BY <1>1, NeutronStays DEF NetInv
<1>3. name \in Names /\ cidrs \subseteq Names /\ InForce(name) /\ \A n \in cidrs : InForce(n)
  BY <1>1, Places DEF NetInv, NetType, RunInv
<1>4. subnet' \in [Names -> Value]
  BY <1>1 DEF NetInv, NetType
<1>5. NetType'
  BY <1>1, <1>4, ProceedsTypes, Places DEF NetInv
<1> QED
  BY <1>1, <1>2, <1>3, <1>5, Proceeds, Places

\* The tags are set: the run is through.
LEMMA TagsKeeps == NetInv /\ Net!SetTags => NetInv'
<1> SUFFICES ASSUME NetInv, Net!SetTags PROVE NetInv'
  OBVIOUS
<1>1. /\ UNCHANGED <<netConf, network, segments, subnet, name, todo, cidrs>>
      /\ netPc = "tags" /\ netPc' = "done" /\ tags' = cidrs
  BY DEF Net!SetTags
<1>2. SegmentsInv' /\ Scope' = Scope /\ \A n \in Names : InForce(n)' <=> InForce(n)
  BY <1>1, NeutronStays DEF NetInv
<1>3. NetType'
  BY <1>1, Places DEF NetInv, NetType
<1>4. cidrs = Scope /\ cidrs \subseteq Names /\ (\A n \in cidrs : InForce(n)) /\ network = netConf.rev
  BY <1>1, Places DEF NetInv, NetType, RunInv
<1>5. RunInv'
  BY <1>1, <1>2, <1>4, Places DEF RunInv
<1> QED
  BY <1>2, <1>3, <1>5 DEF NetInv

\* Every step of the network's script keeps its invariant.
LEMMA NetKeeps == NetInv /\ Net!Next => NetInv'
BY NetReconfigureKeeps, NetBeginKeeps, NetFailKeeps, NetworkKeeps, AssociateKeeps, RenameKeeps,
   SegmentKeeps, CreateKeeps, UpdateKeeps, RouterKeeps, InterfaceKeeps, TagsKeeps
   DEF Net!Next, Net!Call

\* Neutron is asked for what it has said it does.
LEMMA NetNeverRefuses == NetInv => Net!NeverRefused
<1> SUFFICES ASSUME NetInv, Net!Refused PROVE FALSE
  BY DEF Net!NeverRefused
<1>1. \A n \in Names : Net!Made(n) => subnet[n].segment = n \/ (n = Local /\ subnet[n].segment = "none")
  BY DEF NetInv, SegmentsInv
<1>2. name \in Names /\ segments \subseteq Names
  BY DEF NetInv, NetType
<1>3. CASE netPc = "associate" /\ ~Net!MayAssociate(name)
  <2>1. name = Local /\ subnet[Local].segment = "none" /\ Local \in segments
    BY <1>3, Places DEF NetInv, RunInv
  <2>2. \A n \in Names \ {Local} : ~Net!Made(n) /\ n \notin segments
    BY <2>1, SubnetAssumption DEF NetInv, SegmentsInv
  <2> QED
    BY <1>2, <1>3, <2>1, <2>2 DEF Net!MayAssociate
<1>4. CASE netPc = "rename" /\ Net!Made(name) /\ subnet[name].segment = "none"
  BY <1>1, <1>2, <1>4, SubnetAssumption DEF NetInv, RunInv
<1>5. CASE netPc = "create" /\ ~Net!MayCreate(Net!Segment)
  <2>1. PICK n \in Names : Net!Made(n) /\ ~(subnet[n].segment = "none" <=> Net!Segment = "none")
    BY <1>5 DEF Net!MayCreate, Net!NoSegment
  <2>2. CASE name = Local
    BY <1>5, <2>1, <2>2 DEF NetInv, RunInv, SegmentsInv
  <2>3. CASE name # Local
    <3>1. Local \in cidrs /\ InForce(Local) /\ netConf.routed
      BY <1>5, <2>3, Places DEF NetInv, RunInv
    <3>2. subnet[Local].segment = Local /\ Net!Segment = name
      BY <2>3, <3>1 DEF InForce, Net!Segment
    <3> QED
      BY <1>1, <1>2, <2>1, <3>2, SubnetAssumption
  <2> QED
    BY <2>2, <2>3
<1> QED
  BY <1>3, <1>4, <1>5 DEF Net!Refused, Net!NoSegment

\* A run that is through leaves what is configured.
LEMMA NetDone == NetInv => Net!DoneIsInForce
BY DEF NetInv, RunInv, Net!DoneIsInForce, Scope, InForce

(***************************************************************************)
(* The post configuration's script                                         *)
(***************************************************************************)
\* The calls to nova, and those to mistral.
NovaCalls == {"flavor", "spec", "keypair"}
MistralCalls ==
  {"books", "list", "triggers", "flows", "create", "cron", "env", "newenv", "plan", "validations"}

\* The script's calls, and where it may be between runs.
LEMMA PostPlaces ==
  /\ Post!Calls = NovaCalls \cup MistralCalls /\ NovaCalls \cap MistralCalls = {}
  /\ Post!Ended = {"idle", "done", "failed"} /\ "done" \notin Post!Calls
BY DEF Post!Calls, Post!Ended, NovaCalls, MistralCalls

\* There is a flavor, and every flavor's number is a number.
LEMMA Numbers == DOMAIN Profiles = 1 .. Len(Profiles) /\ Len(Profiles) \in Nat \ {0}
BY ProfileAssumption

\* The workflow of a trigger.
LEMMA OfTriggers == Post!Logs.of = LogBook /\ \A w : Post!UserTrigger(w).of = w
BY DEF Post!Logs, Post!UserTrigger

\* A fresh undercloud, or one of an older release: where flavors are made their specs are
\* their own, and the triggers there are have their workflows.
LEMMA PostInit == Post!Init => PostInv
<1> SUFFICES ASSUME Post!Init PROVE PostInv
  OBVIOUS
<1>1. /\ postConf \in [rev : {1}, books : {B \in SUBSET Books : LogBook \in B},
                       enabled : SUBSET {"nova", "mistral", "validations"}, key : BOOLEAN]
      /\ workflows = workbooks /\ env = 0 /\ postPc = "idle" /\ k = 1 /\ gone = {}
  BY DEF Post!Init
<1>2. PICK old \in BOOLEAN :
        /\ flavors = [i \in DOMAIN Profiles |->
                        [made |-> old, spec |-> IF old THEN Post!Own(i) ELSE "none", boot |-> old]]
        /\ workbooks = {Mine, Named} \cup (IF old THEN Books ELSE {})
        /\ triggers = {Post!UserTrigger(Mine), Post!UserTrigger(Named)} \cup (IF old THEN {Post!Logs} ELSE {})
  BY DEF Post!Init, Post!NoSpec
<1>3. DOMAIN flavors = DOMAIN Profiles /\ \A i \in DOMAIN Profiles : flavors[i] \in Flavor(i)
  BY <1>2 DEF Flavor
<1>4. PostType
  <2>1. \A t \in triggers : t = Post!Logs \/ t = Post!UserTrigger(t.of)
    BY <1>2, OfTriggers
  <2> QED
    BY <1>1, <1>2, <1>3, <2>1, OfTriggers, Numbers, PostPlaces DEF PostType, PostConf, Revision
<1>5. MistralInv
  <2>1. \A t \in triggers : t.of \in workflows
    BY <1>1, <1>2, OfTriggers, BookAssumption
  <2> QED
    BY <1>1, <1>2, <2>1 DEF MistralInv, Post!MineKept
<1>6. FlavorsInv
  <2>1. \A i \in DOMAIN Profiles : ~flavors[i].made => ~flavors[i].boot
    BY <1>2
  <2> QED
    BY <1>1, <2>1, PostPlaces DEF FlavorsInv, NovaCalls, MistralCalls
<1>7. PlaceInv
  BY <1>1 DEF PlaceInv, AtMistral
<1> QED
  BY <1>4, <1>5, <1>6, <1>7 DEF PostInv

\* The script of the other one at work leaves everything.
LEMMA PostStays == PostInv /\ UNCHANGED postVars => PostInv'
BY DEF postVars, PostInv, PostType, MistralInv, FlavorsInv, PlaceInv, AtMistral, Migrated, Post!MineKept

\* A step outside mistral, to a place before it.
LEMMA BeforeMistral ==
  ASSUME PostInv, UNCHANGED <<workbooks, workflows, triggers, env, gone>>,
         postPc' \in {"idle", "failed", "flavor", "spec", "keypair", "books"}
           \/ (postPc' = "done" /\ "mistral" \notin postConf'.enabled)
  PROVE  MistralInv' /\ PlaceInv'
BY DEF PostInv, MistralInv, PlaceInv, AtMistral, Post!MineKept

\* A step of mistral's part leaves nova as it is.
LEMMA NovaStays ==
  ASSUME PostInv, UNCHANGED <<postConf, flavors, keypair, k, extra>>,
         postPc \in MistralCalls, postPc' \in MistralCalls \cup {"failed", "done"}
  PROVE  FlavorsInv'
<1>1. postPc \in Post!Calls \ {"flavor", "spec", "keypair"}
  BY PostPlaces DEF MistralCalls
<1>2. postPc' \notin {"flavor", "spec", "keypair"}
  BY DEF MistralCalls
<1> QED
  BY <1>1, <1>2 DEF PostInv, FlavorsInv, Migrated

\* A new release comes between runs.
LEMMA PostReconfigureKeeps == PostInv /\ Post!Reconfigure => PostInv'
<1> SUFFICES ASSUME PostInv, Post!Reconfigure PROVE PostInv'
  OBVIOUS
<1>1. UNCHANGED <<flavors, keypair, k, extra, workbooks, workflows, triggers, env, gone>> /\ postPc' = "idle"
  BY DEF Post!Reconfigure, Post!nova, Post!mistral
<1>2. PostType'
  <2>1. PICK B \in SUBSET Books : LogBook \in B /\ postConf' = [postConf EXCEPT !.rev = @ + 1, !.books = B]
    BY DEF Post!Reconfigure
  <2>2. postConf \in PostConf
    BY DEF PostInv, PostType
  <2>3. postConf.rev + 1 \in Revision
    BY <2>2 DEF PostConf, Revision
  <2>4. /\ postConf' \in PostConf
        /\ LogBook \in postConf'.books
    BY <2>1, <2>2, <2>3 DEF PostConf
  <2> QED
    BY <1>1, <2>4, PostPlaces DEF PostInv, PostType
<1>3. MistralInv' /\ PlaceInv'
  BY <1>1, BeforeMistral
<1>4. FlavorsInv'
  BY <1>1, PostPlaces DEF PostInv, FlavorsInv, Migrated, NovaCalls, MistralCalls
<1> QED
  BY <1>2, <1>3, <1>4 DEF PostInv

\* A trigger of the user's comes between runs, on a workflow that is there.
LEMMA SubscribeKeeps == PostInv /\ Post!Subscribe => PostInv'
<1> SUFFICES ASSUME PostInv, Post!Subscribe PROVE PostInv'
  OBVIOUS
<1>1. /\ UNCHANGED <<postConf, flavors, keypair, k, extra, workbooks, workflows, env, gone, postPc>>
      /\ postPc \in {"idle", "done", "failed"}
  BY PostPlaces DEF Post!Subscribe, Post!nova
<1>2. PICK w \in workflows : triggers' = triggers \cup {Post!UserTrigger(w)}
  BY DEF Post!Subscribe
<1>3. \A t \in triggers' : t.of \in workflows /\ (t = Post!Logs \/ t = Post!UserTrigger(t.of))
  BY <1>2, OfTriggers DEF PostInv, PostType, MistralInv
<1>4. PostType'
  BY <1>1, <1>3, PostPlaces DEF PostInv, PostType, Post!Logs, Post!UserTrigger
<1>5. MistralInv'
  BY <1>1, <1>2, <1>3 DEF PostInv, MistralInv, Post!MineKept, Post!UserTrigger
<1>6. FlavorsInv'
  BY <1>1, PostPlaces DEF PostInv, FlavorsInv, Migrated, NovaCalls, MistralCalls
<1>7. PlaceInv'
  BY <1>1, <1>2 DEF PostInv, PlaceInv, AtMistral, Post!Logs
<1> QED
  BY <1>4, <1>5, <1>6, <1>7 DEF PostInv

\* Every run begins with the first flavor, if nova is enabled.
LEMMA PostBeginKeeps == PostInv /\ Post!Begin => PostInv'
<1> SUFFICES ASSUME PostInv, Post!Begin PROVE PostInv'
  OBVIOUS
<1>1. /\ UNCHANGED <<postConf, flavors, keypair, workbooks, workflows, triggers, env, gone>> /\ k' = 1
      /\ postPc' = IF "nova" \in postConf.enabled THEN "flavor" ELSE Post!Mistral
  BY DEF Post!Begin, Post!mistral
<1>2. Post!Mistral = IF "mistral" \in postConf.enabled THEN "books" ELSE "done"
  BY DEF Post!Mistral
<1>3. PostType'
  BY <1>1, <1>2, Numbers, PostPlaces DEF PostInv, PostType, NovaCalls, MistralCalls
<1>4. MistralInv' /\ PlaceInv'
  BY <1>1, <1>2, BeforeMistral
<1>5. FlavorsInv'
  BY <1>1, <1>2, PostPlaces DEF PostInv, FlavorsInv, Migrated, NovaCalls, MistralCalls
<1> QED
  BY <1>3, <1>4, <1>5 DEF PostInv

\* A call fails: what has been done is what the next run finds.
LEMMA PostFailKeeps == PostInv /\ Post!Fail => PostInv'
<1> SUFFICES ASSUME PostInv, Post!Fail PROVE PostInv'
  OBVIOUS
<1>1. /\ UNCHANGED <<postConf, flavors, keypair, k, extra, workbooks, workflows, triggers, env, gone>>
      /\ postPc' = "failed"
  BY DEF Post!Fail, Post!nova, Post!mistral
<1>2. PostType'
  BY <1>1, PostPlaces DEF PostInv, PostType
<1>3. MistralInv' /\ PlaceInv'
  BY <1>1, BeforeMistral
<1>4. FlavorsInv'
  BY <1>1, PostPlaces DEF PostInv, FlavorsInv, Migrated, NovaCalls, MistralCalls
<1> QED
  BY <1>2, <1>3, <1>4 DEF PostInv

\* A missing flavor is made, without specs yet.
LEMMA FlavorKeeps == PostInv /\ Post!CreateFlavor => PostInv'
<1> SUFFICES ASSUME PostInv, Post!CreateFlavor PROVE PostInv'
  OBVIOUS
<1>1. /\ UNCHANGED <<postConf, keypair, k, workbooks, workflows, triggers, env, gone>>
      /\ postPc = "flavor" /\ postPc' = "spec" /\ ~flavors[k].made
      /\ flavors' = [flavors EXCEPT ![k].made = TRUE]
  BY DEF Post!CreateFlavor, Post!mistral
<1>2. extra' = Post!Own(k)
  BY DEF Post!CreateFlavor, Post!Own, Post!Plain
<1>3. /\ k \in DOMAIN Profiles /\ DOMAIN flavors = DOMAIN Profiles
      /\ \A i \in DOMAIN Profiles : flavors[i] \in Flavor(i)
      /\ \A i \in 1 .. k - 1 : Migrated(i)
      /\ \A i \in DOMAIN Profiles : ~flavors[i].made => ~flavors[i].boot
  BY <1>1 DEF PostInv, PostType, FlavorsInv
<1>4. /\ DOMAIN flavors' = DOMAIN Profiles
      /\ flavors'[k] = [flavors[k] EXCEPT !.made = TRUE]
      /\ \A i \in DOMAIN Profiles \ {k} : flavors'[i] = flavors[i]
  BY <1>1, <1>3
<1>5. flavors'[k] \in Flavor(k) /\ flavors'[k].made /\ flavors'[k].boot = flavors[k].boot
  BY <1>3, <1>4 DEF Flavor
<1>6. PostType'
  <2>1. \A i \in DOMAIN Profiles : flavors'[i] \in Flavor(i)
    BY <1>3, <1>4, <1>5
  <2>2. \A i : Flavor(i)' = Flavor(i)
    BY DEF Flavor, Post!Own
  <2> QED
    BY <1>1, <1>4, <2>1, <2>2, PostPlaces DEF PostInv, PostType, NovaCalls
<1>7. MistralInv' /\ PlaceInv'
  BY <1>1, BeforeMistral
<1>8. FlavorsInv'
  <2>1. \A i \in 1 .. k - 1 : i \in DOMAIN Profiles \ {k}
    BY <1>3, Numbers
  <2>2. (\A i \in 1 .. k - 1 : Migrated(i)') /\ Migrated(k)'
    BY <1>1, <1>3, <1>4, <1>5, <2>1 DEF Migrated
  <2>3. \A i \in DOMAIN Profiles : ~flavors'[i].made => ~flavors'[i].boot
    BY <1>3, <1>4, <1>5
  <2> QED
    BY <1>1, <1>2, <2>2, <2>3, PostPlaces DEF FlavorsInv, NovaCalls, MistralCalls, Post!Own
<1> QED
  BY <1>6, <1>7, <1>8 DEF PostInv

\* One flavor more is migrated.
LEMMA NextFlavors ==
  ASSUME PostInv, Post!NextFlavor, DOMAIN flavors' = DOMAIN Profiles, UNCHANGED postConf,
         postPc \in {"flavor", "spec"},
         \A i \in DOMAIN Profiles : flavors'[i] \in Flavor(i),
         \A i \in DOMAIN Profiles \ {k} : flavors'[i] = flavors[i],
         flavors'[k].made, ~flavors'[k].boot
  PROVE  k' \in DOMAIN Profiles /\ postPc' \in {"flavor", "keypair"} /\ FlavorsInv'
<1>1. /\ k \in DOMAIN Profiles /\ \A i \in 1 .. k - 1 : Migrated(i)
      /\ \A i \in DOMAIN Profiles : ~flavors[i].made => ~flavors[i].boot
  BY DEF PostInv, PostType, FlavorsInv
<1>2. \A i \in 1 .. k : Migrated(i)'
  <2>1. \A i \in 1 .. k : i = k \/ (i \in 1 .. k - 1 /\ i \in DOMAIN Profiles \ {k})
    BY <1>1, Numbers
  <2> QED
    BY <1>1, <2>1 DEF Migrated
<1>3. \A i \in DOMAIN Profiles : ~flavors'[i].made => ~flavors'[i].boot
  BY <1>1
<1>4. CASE k < Len(Profiles) /\ k' = k + 1 /\ postPc' = "flavor"
  <2>1. k' \in DOMAIN Profiles /\ 1 .. k' - 1 = 1 .. k
    BY <1>1, <1>4, Numbers
  <2> QED
    BY <1>2, <1>3, <1>4, <2>1, PostPlaces DEF FlavorsInv, NovaCalls, MistralCalls
<1>5. CASE ~(k < Len(Profiles)) /\ k' = k /\ postPc' = "keypair"
  <2>1. DOMAIN Profiles = 1 .. k
    BY <1>1, <1>5, Numbers
  <2> QED
    BY <1>1, <1>2, <1>3, <1>5, <2>1, PostPlaces DEF FlavorsInv, NovaCalls, MistralCalls
<1> QED
  BY <1>4, <1>5 DEF Post!NextFlavor

\* A flavor that has just been made gets its own specs, whatever flavors came before it.
LEMMA SpecsKeep == PostInv /\ Post!SetFlavorSpecs => PostInv'
<1> SUFFICES ASSUME PostInv, Post!SetFlavorSpecs PROVE PostInv'
  OBVIOUS
<1>1. /\ UNCHANGED <<postConf, keypair, extra, workbooks, workflows, triggers, env, gone>>
      /\ postPc = "spec" /\ Post!NextFlavor /\ flavors' = [flavors EXCEPT ![k].spec = extra]
  BY DEF Post!SetFlavorSpecs, Post!mistral
<1>2. /\ k \in DOMAIN Profiles /\ DOMAIN flavors = DOMAIN Profiles
      /\ \A i \in DOMAIN Profiles : flavors[i] \in Flavor(i)
      /\ extra = Post!Own(k) /\ flavors[k].made /\ ~flavors[k].boot
  BY <1>1 DEF PostInv, PostType, FlavorsInv, Migrated
<1>3. /\ DOMAIN flavors' = DOMAIN Profiles
      /\ flavors'[k] = [flavors[k] EXCEPT !.spec = extra]
      /\ \A i \in DOMAIN Profiles \ {k} : flavors'[i] = flavors[i]
  BY <1>1, <1>2
<1>4. flavors'[k] \in Flavor(k) /\ flavors'[k].made /\ ~flavors'[k].boot
  BY <1>2, <1>3 DEF Flavor
<1>5. \A i \in DOMAIN Profiles : flavors'[i] \in Flavor(i)
  BY <1>2, <1>3, <1>4
<1>6. k' \in DOMAIN Profiles /\ postPc' \in {"flavor", "keypair"} /\ FlavorsInv'
  BY <1>1, <1>3, <1>4, <1>5, NextFlavors
<1>7. PostType'
  BY <1>1, <1>3, <1>5, <1>6, PostPlaces DEF PostInv, PostType, NovaCalls, Flavor, Post!Own
<1>8. MistralInv' /\ PlaceInv'
  BY <1>1, <1>6, BeforeMistral
<1> QED
  BY <1>6, <1>7, <1>8 DEF PostInv

\* A flavor that exists loses the boot option, and keeps the specs it has.
LEMMA MigrateKeeps == PostInv /\ Post!MigrateFlavor => PostInv'
<1> SUFFICES ASSUME PostInv, Post!MigrateFlavor PROVE PostInv'
  OBVIOUS
<1>1. /\ UNCHANGED <<postConf, keypair, extra, workbooks, workflows, triggers, env, gone>>
      /\ postPc = "flavor" /\ Post!NextFlavor /\ flavors[k].made
      /\ flavors' = [flavors EXCEPT ![k].boot = FALSE]
  BY DEF Post!MigrateFlavor, Post!mistral
<1>2. /\ k \in DOMAIN Profiles /\ DOMAIN flavors = DOMAIN Profiles
      /\ \A i \in DOMAIN Profiles : flavors[i] \in Flavor(i)
  BY <1>1 DEF PostInv, PostType
<1>3. /\ DOMAIN flavors' = DOMAIN Profiles
      /\ flavors'[k] = [flavors[k] EXCEPT !.boot = FALSE]
      /\ \A i \in DOMAIN Profiles \ {k} : flavors'[i] = flavors[i]
  BY <1>1, <1>2
<1>4. flavors'[k] \in Flavor(k) /\ flavors'[k].made /\ ~flavors'[k].boot
  BY <1>1, <1>2, <1>3 DEF Flavor
<1>5. \A i \in DOMAIN Profiles : flavors'[i] \in Flavor(i)
  BY <1>2, <1>3, <1>4
<1>6. k' \in DOMAIN Profiles /\ postPc' \in {"flavor", "keypair"} /\ FlavorsInv'
  BY <1>1, <1>3, <1>4, <1>5, NextFlavors
<1>7. PostType'
  BY <1>1, <1>3, <1>5, <1>6, PostPlaces DEF PostInv, PostType, NovaCalls, Flavor, Post!Own
<1>8. MistralInv' /\ PlaceInv'
  BY <1>1, <1>6, BeforeMistral
<1> QED
  BY <1>6, <1>7, <1>8 DEF PostInv

\* With the keypair nova is done.
LEMMA KeypairKeeps == PostInv /\ Post!CreateKeypair => PostInv'
<1> SUFFICES ASSUME PostInv, Post!CreateKeypair PROVE PostInv'
  OBVIOUS
<1>1. /\ UNCHANGED <<postConf, flavors, k, extra, workbooks, workflows, triggers, env, gone>>
      /\ postPc = "keypair" /\ keypair' = (keypair \/ postConf.key) /\ postPc' = Post!Mistral
  BY DEF Post!CreateKeypair, Post!mistral
<1>2. Post!Mistral = IF "mistral" \in postConf.enabled THEN "books" ELSE "done"
  BY DEF Post!Mistral
<1>3. PostType'
  BY <1>1, <1>2, PostPlaces DEF PostInv, PostType, MistralCalls
<1>4. MistralInv' /\ PlaceInv'
  BY <1>1, <1>2, BeforeMistral
<1>5. FlavorsInv'
  BY <1>1, <1>2, PostPlaces DEF PostInv, FlavorsInv, Migrated, NovaCalls, MistralCalls
<1> QED
  BY <1>3, <1>4, <1>5 DEF PostInv

\* Workbooks named TripleO's are deleted, the others stay, and so do all workflows.
LEMMA BooksKeep == PostInv /\ Post!DeleteWorkbook => PostInv'
<1> SUFFICES ASSUME PostInv, Post!DeleteWorkbook PROVE PostInv'
  OBVIOUS
<1>1. /\ UNCHANGED <<postConf, flavors, keypair, k, extra, workflows, triggers, env, gone>>
      /\ postPc = "books"
  BY DEF Post!DeleteWorkbook, Post!nova
<1>2. \/ \E w \in workbooks : w \in Books \cup {Named} /\ workbooks' = workbooks \ {w} /\ postPc' = "books"
      \/ (\A w \in workbooks : w \notin Books \cup {Named}) /\ workbooks' = workbooks /\ postPc' = "list"
  BY <1>1 DEF Post!DeleteWorkbook, Post!TripleO
<1>3. PostType'
  BY <1>1, <1>2, PostPlaces DEF PostInv, PostType, MistralCalls
<1>4. MistralInv'
  BY <1>1, <1>2, BookAssumption DEF PostInv, MistralInv, Post!MineKept
<1>5. FlavorsInv'
  BY <1>1, <1>2, NovaStays DEF MistralCalls
<1>6. postPc' = "list" => workbooks' = {Mine}
  BY <1>1, <1>2, BookAssumption DEF PostInv, PostType, MistralInv, Post!MineKept
<1>7. PlaceInv'
  BY <1>2, <1>6 DEF PlaceInv, AtMistral
<1> QED
  BY <1>3, <1>4, <1>5, <1>7 DEF PostInv

\* The workflows to delete are TripleO's.
LEMMA ListKeeps == PostInv /\ Post!ListWorkflows => PostInv'
<1> SUFFICES ASSUME PostInv, Post!ListWorkflows PROVE PostInv'
  OBVIOUS
<1>1. /\ UNCHANGED <<postConf, flavors, keypair, k, extra, workbooks, workflows, triggers, env>>
      /\ postPc = "list" /\ postPc' = "triggers" /\ gone' = workflows \cap Books
  BY DEF Post!ListWorkflows, Post!nova, Post!Managed
<1>2. PostType'
  BY <1>1, PostPlaces DEF PostInv, PostType, MistralCalls
<1>3. FlavorsInv'
  BY <1>1, NovaStays DEF MistralCalls
<1>4. MistralInv' /\ PlaceInv'
  BY <1>1 DEF PostInv, MistralInv, Post!MineKept, PlaceInv, AtMistral
<1> QED
  BY <1>2, <1>3, <1>4 DEF PostInv

\* Their triggers go first.
LEMMA TriggersKeep == PostInv /\ Post!DeleteTrigger => PostInv'
<1> SUFFICES ASSUME PostInv, Post!DeleteTrigger PROVE PostInv'
  OBVIOUS
<1>1. /\ UNCHANGED <<postConf, flavors, keypair, k, extra, workbooks, workflows, env, gone>>
      /\ postPc = "triggers"
  BY DEF Post!DeleteTrigger, Post!nova
<1>2. \/ \E t \in triggers : t.of \in gone /\ triggers' = triggers \ {t} /\ postPc' = "triggers"
      \/ (\A t \in triggers : t.of \notin gone) /\ triggers' = triggers /\ postPc' = "flows"
  BY <1>1 DEF Post!DeleteTrigger
<1>3. PostType'
  BY <1>1, <1>2, PostPlaces DEF PostInv, PostType, MistralCalls
<1>4. MistralInv'
  <2>1. PICK w, v : gone \subseteq Books /\ w = Post!UserTrigger(Mine) /\ v = Post!UserTrigger(Named)
    BY DEF PostInv, PostType
  <2>2. w.of = Mine /\ v.of = Named /\ w \in triggers /\ v \in triggers
    BY <2>1, OfTriggers DEF PostInv, MistralInv, Post!MineKept
  <2>3. w \in triggers' /\ v \in triggers'
    BY <1>2, <2>1, <2>2, BookAssumption
  <2>4. Post!MineKept'
    BY <1>1, <2>1, <2>3 DEF PostInv, MistralInv, Post!MineKept, Post!UserTrigger
  <2> QED
    BY <1>1, <1>2, <2>4 DEF PostInv, MistralInv
<1>5. FlavorsInv'
  BY <1>1, <1>2, NovaStays DEF MistralCalls
<1>6. PlaceInv'
  BY <1>1, <1>2 DEF PostInv, PlaceInv, AtMistral
<1> QED
  BY <1>3, <1>4, <1>5, <1>6 DEF PostInv

\* Then the workflows, none of which has a trigger by now.
LEMMA FlowsKeep == PostInv /\ Post!DeleteWorkflow => PostInv'
<1> SUFFICES ASSUME PostInv, Post!DeleteWorkflow PROVE PostInv'
  OBVIOUS
<1>1. /\ UNCHANGED <<postConf, flavors, keypair, k, extra, workbooks, triggers, env>> /\ postPc = "flows"
      /\ workbooks = {Mine} /\ gone = workflows \cap Books /\ \A t \in triggers : t.of \notin gone
  BY DEF Post!DeleteWorkflow, Post!nova, PostInv, PlaceInv
<1>2. CASE gone = {} /\ postPc' = "create" /\ UNCHANGED <<workflows, gone>>
  <2>1. PostType' /\ MistralInv'
    BY <1>1, <1>2, PostPlaces DEF PostInv, PostType, MistralInv, Post!MineKept, MistralCalls
  <2>2. FlavorsInv'
    BY <1>1, <1>2, NovaStays DEF MistralCalls
  <2>3. workflows = {Mine, Named}
    BY <1>1, <1>2 DEF PostInv, PostType, MistralInv, Post!MineKept
  <2>4. Post!Logs \notin triggers
    <3>1. \A t \in triggers : t.of \in {Mine, Named}
      BY <2>3 DEF PostInv, MistralInv
    <3> QED
      BY <3>1, OfTriggers, BookAssumption
  <2>5. PlaceInv'
    BY <1>1, <1>2, <2>3, <2>4 DEF PlaceInv, AtMistral, Post!Logs
  <2> QED
    BY <2>1, <2>2, <2>5 DEF PostInv
<1>3. ASSUME NEW w \in gone, workflows' = workflows \ {w}, gone' = gone \ {w}, postPc' = postPc
      PROVE  PostInv'
  <2>1. PostType'
    BY <1>1, <1>3, PostPlaces DEF PostInv, PostType
  <2>2. MistralInv'
    BY <1>1, <1>3, BookAssumption DEF PostInv, PostType, MistralInv, Post!MineKept
  <2>3. FlavorsInv'
    BY <1>1, <1>3, NovaStays DEF MistralCalls
  <2>4. gone' = workflows' \cap Books
    BY <1>1, <1>3
  <2>5. PlaceInv'
    BY <1>1, <1>3, <2>4 DEF PlaceInv, AtMistral
  <2> QED
    BY <2>1, <2>2, <2>3, <2>5 DEF PostInv
<1> QED
  BY <1>1, <1>2, <1>3 DEF Post!DeleteWorkflow

\* What is shipped is created, workbook and workflow.
LEMMA WorkbooksKeep == PostInv /\ Post!CreateWorkbook => PostInv'
<1> SUFFICES ASSUME PostInv, Post!CreateWorkbook PROVE PostInv'
  OBVIOUS
<1>1. /\ UNCHANGED <<postConf, flavors, keypair, k, extra, triggers, env, gone>> /\ postPc = "create"
      /\ workflows = workbooks \cup {Named} /\ workbooks \subseteq postConf.books \cup {Mine} /\ Post!Logs \notin triggers
  BY DEF Post!CreateWorkbook, Post!nova, PostInv, PlaceInv
<1>2. CASE postConf.books \subseteq workbooks /\ postPc' = "cron" /\ UNCHANGED <<workbooks, workflows>>
  <2>1. PostType' /\ MistralInv'
    BY <1>1, <1>2, PostPlaces DEF PostInv, PostType, MistralInv, Post!MineKept, MistralCalls
  <2>2. FlavorsInv'
    BY <1>1, <1>2, NovaStays DEF MistralCalls
  <2>3. workbooks = postConf.books \cup {Mine}
    BY <1>1, <1>2 DEF PostInv, MistralInv, Post!MineKept
  <2>4. PlaceInv'
    BY <1>1, <1>2, <2>3 DEF PlaceInv, AtMistral, Post!Logs
  <2> QED
    BY <2>1, <2>2, <2>4 DEF PostInv
<1>3. ASSUME NEW w \in postConf.books \ workbooks, workbooks' = workbooks \cup {w},
             workflows' = workflows \cup {w}, postPc' = postPc
      PROVE  PostInv'
  <2>1. PostType'
    <3>1. w \in Books
      BY DEF PostInv, PostType, PostConf
    <3> QED
      BY <1>1, <1>3, <3>1, PostPlaces DEF PostInv, PostType
  <2>2. MistralInv'
    BY <1>1, <1>3 DEF PostInv, MistralInv, Post!MineKept
  <2>3. FlavorsInv'
    BY <1>1, <1>3, NovaStays DEF MistralCalls
  <2>4. PlaceInv'
    BY <1>1, <1>3 DEF PlaceInv, AtMistral, Post!Logs
  <2> QED
    BY <2>1, <2>2, <2>3, <2>4 DEF PostInv
<1> QED
  BY <1>1, <1>2, <1>3 DEF Post!CreateWorkbook

\* The trigger for the logs, whose workflow is there.
LEMMA CronKeeps == PostInv /\ Post!CreateCron => PostInv'
<1> SUFFICES ASSUME PostInv, Post!CreateCron PROVE PostInv'
  OBVIOUS
<1>1. /\ UNCHANGED <<postConf, flavors, keypair, k, extra, workbooks, workflows, env, gone>>
      /\ postPc = "cron" /\ postPc' = "env" /\ LogBook \in workflows
      /\ triggers' = triggers \cup {Post!Logs}
  BY DEF Post!CreateCron, Post!nova
<1>2. PostType'
  BY <1>1, OfTriggers, PostPlaces DEF PostInv, PostType, MistralCalls, Post!Logs, Post!UserTrigger
<1>3. MistralInv'
  BY <1>1 DEF PostInv, MistralInv, Post!MineKept, Post!Logs, Post!UserTrigger
<1>4. FlavorsInv'
  BY <1>1, NovaStays DEF MistralCalls
<1>5. PlaceInv'
  BY <1>1 DEF PostInv, PlaceInv, AtMistral, Post!Logs
<1> QED
  BY <1>2, <1>3, <1>4, <1>5 DEF PostInv

\* What is said of mistral by place, for a step behind the workbooks.
LEMMA BehindWorkbooks ==
  ASSUME PostInv, UNCHANGED <<postConf, flavors, keypair, k, extra, workbooks, workflows, triggers, gone>>,
         postPc \in {"env", "newenv", "plan", "validations"},
         postPc' \in {"env", "newenv", "plan", "validations", "failed", "done"},
         env' \in Nat, postPc' \in {"plan", "validations", "done"} => env' = postConf.rev
  PROVE  PostInv'
<1>1. PostType' /\ MistralInv'
  BY PostPlaces DEF PostInv, PostType, MistralInv, Post!MineKept, MistralCalls
<1>2. FlavorsInv'
  BY NovaStays DEF MistralCalls
<1>3. workbooks = postConf.books \cup {Mine} /\ workflows = workbooks \cup {Named} /\ Post!Logs \in triggers
  BY DEF PostInv, PlaceInv, AtMistral
<1>4. PlaceInv'
  BY <1>3 DEF PlaceInv, AtMistral, Post!Logs
<1> QED
  BY <1>1, <1>2, <1>4 DEF PostInv

\* The passwords are stored, in an environment that is there or a new one.
LEMMA EnvironmentKeeps == PostInv /\ (Post!UpdateEnv \/ Post!CreateEnv) => PostInv'
<1> SUFFICES ASSUME PostInv, Post!UpdateEnv \/ Post!CreateEnv PROVE PostInv'
  OBVIOUS
<1>1. UNCHANGED <<postConf, flavors, keypair, k, extra, workbooks, workflows, triggers, gone>>
  BY DEF Post!UpdateEnv, Post!CreateEnv, Post!nova
<1>2. env \in Nat /\ postConf.rev \in Nat
  BY DEF PostInv, PostType, PostConf, Revision
<1>3. /\ postPc \in {"env", "newenv"} /\ env' \in {env, postConf.rev}
      /\ postPc' \in {"newenv", "failed"} \/ (postPc' = "plan" /\ env' = postConf.rev)
  BY DEF Post!UpdateEnv, Post!CreateEnv
<1> QED
  BY <1>1, <1>2, <1>3, BehindWorkbooks

\* The plan and the validations are only started.
LEMMA StartsKeep == PostInv /\ (Post!CreatePlan \/ Post!StartValidations) => PostInv'
<1> SUFFICES ASSUME PostInv, Post!CreatePlan \/ Post!StartValidations PROVE PostInv'
  OBVIOUS
<1>1. UNCHANGED <<postConf, flavors, keypair, k, extra, workbooks, workflows, triggers, gone, env>>
  BY DEF Post!CreatePlan, Post!StartValidations, Post!nova, Post!mistral
<1>2. postPc \in {"plan", "validations"} /\ postPc' \in {"validations", "done"}
  BY DEF Post!CreatePlan, Post!StartValidations
<1>3. env \in Nat /\ env = postConf.rev
  BY <1>2 DEF PostInv, PostType, PlaceInv, AtMistral
<1> QED
  BY <1>1, <1>2, <1>3, BehindWorkbooks

\* An execution of mistral's ends: the script is where it was.
LEMMA ExecutionKeeps == PostInv /\ Post!PlanCreated => PostInv'
BY DEF Post!PlanCreated, Post!nova, PostInv, PostType, MistralInv, FlavorsInv, PlaceInv, AtMistral,
       Migrated, Post!MineKept

\* Every step of the post configuration's script keeps its invariant.
LEMMA PostKeeps == PostInv /\ Post!Next => PostInv'
BY PostReconfigureKeeps, SubscribeKeeps, PostBeginKeeps, PostFailKeeps, FlavorKeeps, SpecsKeep, MigrateKeeps, KeypairKeeps,
   BooksKeep, ListKeeps, TriggersKeep, FlowsKeep, WorkbooksKeep, CronKeeps, EnvironmentKeeps, StartsKeep,
   ExecutionKeeps
   DEF Post!Next, Post!Call, Post!Nova, Post!Workbooks

\* Mistral is not asked to delete a workflow that has a trigger, nor for a second trigger.
LEMMA PostNeverRefuses == PostInv => Post!NeverRefused
<1> SUFFICES ASSUME PostInv, Post!Refused PROVE FALSE
  BY DEF Post!NeverRefused
<1>1. CASE postPc = "flows" /\ gone # {} /\ \A w \in gone : \E t \in triggers : t.of = w
  BY <1>1 DEF PostInv, PlaceInv
<1>2. CASE postPc = "cron" /\ (Post!Logs \in triggers \/ LogBook \notin workflows)
  BY <1>2 DEF PostInv, PostType, PlaceInv, AtMistral
<1> QED
  BY <1>1, <1>2 DEF Post!Refused

\* A run that is through leaves mistral and nova as they are wanted.
LEMMA PostDone == PostInv => Post!DoneIsInForce
<1> SUFFICES ASSUME PostInv, postPc = "done" PROVE Post!DoneIsInForce
  BY DEF Post!DoneIsInForce
<1>1. "mistral" \in postConf.enabled =>
        /\ workbooks = postConf.books \cup {Mine} /\ workflows = workbooks \cup {Named}
        /\ Post!Logs \in triggers /\ env = postConf.rev
  BY DEF PostInv, PlaceInv, AtMistral
<1>2. "nova" \in postConf.enabled => (postConf.key => keypair) /\ \A i \in DOMAIN Profiles : Migrated(i)
  BY DEF PostInv, FlavorsInv
<1>3. \A i \in DOMAIN Profiles : flavors[i].spec \in {"none", Post!Own(i)}
  BY DEF PostInv, PostType, Flavor
<1> QED
  BY <1>1, <1>2, <1>3 DEF Post!DoneIsInForce, Migrated, Post!NoSpec

(***************************************************************************)
(* Invariants of the specification                                         *)
(***************************************************************************)
\* Every step of the specification keeps both invariants.
LEMMA NextInv == IInv /\ [Next]_vars => IInv'
<1> SUFFICES ASSUME IInv, [Next]_vars PROVE IInv'
  OBVIOUS
<1>1. CASE RunNet(Net!Next)
  BY <1>1, NetKeeps, PostStays DEF IInv, RunNet
<1>2. CASE RunPost(Post!Next)
  BY <1>2, PostKeeps, NetStays DEF IInv, RunPost
<1>3. CASE UNCHANGED vars
  BY <1>3, PostStays, NetStays DEF IInv, vars
<1> QED
  BY <1>1, <1>2, <1>3 DEF Next

\* The inductive invariants of both scripts hold in every reachable state.
THEOREM Invariance == Spec => []IInv
<1>1. Init => IInv
  BY NetInit, PostInit DEF Init, IInv
<1> QED
  BY <1>1, NextInv, PTL DEF Spec

\* Neither neutron nor mistral ever refuses a call, wherever earlier runs have stopped.
THEOREM NoneRefused == Spec => []NeverRefused
<1>1. IInv => NeverRefused
  BY NetNeverRefuses, PostNeverRefuses DEF IInv, NeverRefused
<1> QED
  BY <1>1, Invariance, PTL

\* A script that has gone through leaves what is configured, whatever it has found.
THEOREM DoneInForce == Spec => []DoneIsInForce
<1>1. IInv => DoneIsInForce
  BY NetDone, PostDone DEF IInv, DoneIsInForce
<1> QED
  BY <1>1, Invariance, PTL

\* Whatever runs have stopped where: the user's workbook that is not named tripleo*, the
\* workflows without the managed tag and the triggers of these are never deleted.
THEOREM MineStays == Spec => []MineKept
<1>1. IInv => MineKept
  BY DEF IInv, PostInv, MistralInv, MineKept
<1> QED
  BY <1>1, Invariance, PTL
=============================================================================
