----------------------------- MODULE Undercloud -----------------------------
(***************************************************************************)
(* The two Python scripts that a deployed undercloud is finished with.     *)
(* They talk to different services and share no state, so that each        *)
(* behaviour has one of them run, fail and be run again, and leaves the    *)
(* other where it starts.                                                  *)
(***************************************************************************)
EXTENDS Integers, Sequences

CONSTANTS Names, Local, V6, Profiles, Books, LogBook, Mine, Named, MaxRevs, MaxFaults

ASSUME SubnetAssumption == Local \in Names /\ V6 \subseteq Names /\ "none" \notin Names
ASSUME ProfileAssumption == Profiles \in Seq(STRING) /\ Profiles # <<>>
ASSUME BookAssumption == LogBook \in Books /\ Mine \notin Books /\ Named \notin Books \cup {Mine}

VARIABLES
  script,   \* the one at work: "net", "post"
  netConf, network, segments, subnet, routers, served, tags, netPc, name, todo, cidrs, netFaults,
  postConf, flavors, keypair, workbooks, workflows, triggers, env, plan, postPc, k, extra, gone, postFaults

Net == INSTANCE CtlplaneNetwork WITH conf <- netConf, pc <- netPc, faults <- netFaults
Post == INSTANCE UndercloudPost WITH conf <- postConf, pc <- postPc, faults <- postFaults

netVars == <<netConf, network, segments, subnet, routers, served, tags, netPc, name, todo, cidrs, netFaults>>
postVars == <<postConf, flavors, keypair, workbooks, workflows, triggers, env, plan, postPc, k, extra, gone, postFaults>>
vars == <<script, netVars, postVars>>

Init ==
  /\ Net!Init /\ Post!Init
  /\ \/ script = "net" /\ postConf.enabled = {} /\ postConf.books = {LogBook} /\ LogBook \notin workbooks /\ ~postConf.key /\ ~keypair
     \/ script = "post" /\ netConf.subnets = {Local} /\ ~netConf.routed /\ netConf.neutron

RunNet(A) == script = "net" /\ A /\ UNCHANGED <<script, postVars>>
RunPost(A) == script = "post" /\ A /\ UNCHANGED <<script, netVars>>

Next == RunNet(Net!Next) \/ RunPost(Post!Next)

Spec ==
  /\ Init /\ [][Next]_vars
  /\ WF_vars(RunNet(Net!Begin)) /\ WF_vars(RunNet(Net!Call))
  /\ WF_vars(RunPost(Post!Begin)) /\ WF_vars(RunPost(Post!Call))

\* Neither neutron nor mistral ever refuses a call: NeverRefused of both modules.
NeverRefused == Net!NeverRefused /\ Post!NeverRefused

\* A script that has gone through leaves what is configured: DoneIsInForce of both modules.
DoneIsInForce == Net!DoneIsInForce /\ Post!DoneIsInForce

\* What is recognizably the user's in mistral stays: MineKept of UndercloudPost.
MineKept == Post!MineKept

\* The routers of the IPv6 subnets: RoutersServe of CtlplaneNetwork.
RoutersServe == Net!RoutersServe

\* Calls that stop failing are enough for either script: a run eventually goes through.
BothConverge == <>[](IF script = "net" THEN netPc = "done" ELSE postPc = "done")
=============================================================================
