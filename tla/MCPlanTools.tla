----------------------------- MODULE MCPlanTools -----------------------------
EXTENDS PlanTools

(***************************************************************************)
(* Two roles and two networks, one of them without name_lower              *)
(***************************************************************************)
Template(dir, kind, stem) == [dir |-> dir, kind |-> kind, name |-> <<"", stem>>]
Rendered(dir, prefix, stem) == [dir |-> dir, kind |-> "file", name |-> <<prefix, stem>>]

MCTemplates ==
  <<Template("puppet", "role", "role"), Template("network/config", "role", "role"),
    Template("network", "network", ""), Template("network/ports", "network", "external_resource_v6"),
    Template("", "plain", "overcloud")>>

\* The rendered files, and two that the tree has from the start.
MCFiles ==
  <<Rendered("puppet", "compute", "role"), Rendered("puppet", "ceph", "role"),
    Rendered("network/config", "", "compute"), Rendered("network/config", "", "ceph-storage"),
    Rendered("network", "storage", ""), Rendered("network", "tenant", ""),
    Rendered("network/ports", "storage", "external_resource_v6"), Rendered("network/ports", "tenant", "external_resource_v6"),
    Rendered("", "", "overcloud"), Rendered("network/ports", "", "noop")>>

MCWalks == {MCTemplates \o MCFiles, MCFiles \o MCTemplates}

CephRole == [dir |-> "puppet", name |-> <<"ceph", "role">>]
MCSources == {CephRole, [dir |-> "network/ports", name |-> <<"", "noop">>]}

Compute == [of |-> "role", low |-> "compute", nic |-> ""]
Ceph == [of |-> "role", low |-> "ceph", nic |-> "ceph-storage"]
Storage(enabled) == [of |-> "network", low |-> "storage", given |-> TRUE, enabled |-> enabled]
Tenant == [of |-> "network", low |-> "tenant", given |-> FALSE, enabled |-> TRUE]

MCDatas ==
  {[roles |-> <<Compute>>, networks |-> <<Storage(TRUE)>>, excluded |-> {CephRole}, broken |-> {}, null |-> FALSE],
   [roles |-> <<Compute, Ceph>>, networks |-> <<Storage(FALSE)>>, excluded |-> {CephRole}, broken |-> {}, null |-> FALSE],
   [roles |-> <<Compute>>, networks |-> <<Storage(TRUE), Tenant>>, excluded |-> {CephRole},
    broken |-> {[dir |-> "network", name |-> <<"tenant", "">>]}, null |-> FALSE],
   [roles |-> <<Compute>>, networks |-> <<Tenant>>, excluded |-> {CephRole}, broken |-> {}, null |-> FALSE],
   [roles |-> <<Compute>>, networks |-> <<>>, excluded |-> {CephRole}, broken |-> {}, null |-> TRUE]}

(***************************************************************************)
(* Two NIC configurations                                                  *)
(***************************************************************************)
MCParams == {"own", "new"}
MCReference == {"new"}

Sites == {"head", "among", "plain", "odd"}
Sections == {"parameters", "outputs"}

Old(comments, params) ==
  [torn |-> FALSE, style |-> "old", other |-> FALSE, sections |-> Sections, inputs |-> TRUE,
   params |-> params, fragile |-> FALSE,
   comments |-> [s \in Sites |-> IF s \in comments THEN "comment" ELSE "none"]]

\* One in the new style.  And in the old one: with comments that are kept, and that are lost
\* or stay keys; with a comment above its resource; with another resource; with quotes in a
\* comment; without outputs.
MCOriginals == [
  compute |-> {[Old({"plain"}, {"own"}) EXCEPT !.style = "new", !.inputs = FALSE]},
  controller |->
    {Old({"head", "plain", "odd"}, {"own"}), Old({"among"}, {"own"}),
     [Old({"plain"}, {"own", "new"}) EXCEPT !.other = TRUE],
     [Old({"plain"}, {"own"}) EXCEPT !.fragile = TRUE],
     [Old({"plain"}, {"own"}) EXCEPT !.sections = {"parameters"}]}]

=============================================================================
