------------------------- MODULE StepwiseDeployment ------------------------
(***************************************************************************)
(* What the deployment steps promise (docker/services/README.rst, "Docker  *)
(* steps"): the services come up in a stepwise manner.  A host enters a    *)
(* step when every host taking part has completed the one before, each     *)
(* host completes the steps in order, and a deployment may stop anywhere.  *)
(***************************************************************************)
EXTENDS Integers

CONSTANTS Nodes, MaxStep

VARIABLES
  members,   \* the hosts of the deployment now running, {} when none is
  entered,   \* per host, the number of steps it has entered
  completed  \* per host, the number of steps it has completed

svars == <<members, entered, completed>>

Init ==
  /\ members = {}
  /\ entered = [n \in Nodes |-> 0]
  /\ completed = [n \in Nodes |-> 0]

Begin ==
  /\ members' \in SUBSET Nodes \ {{}}
  /\ entered' = [n \in Nodes |-> 0]
  /\ completed' = [n \in Nodes |-> 0]

Enter(n) ==
  /\ n \in members
  /\ entered[n] = completed[n] /\ entered[n] < MaxStep
  /\ \A m \in members : completed[m] >= entered[n]
  /\ entered' = [entered EXCEPT ![n] = @ + 1]
  /\ UNCHANGED <<members, completed>>

Complete(n) ==
  /\ n \in members
  /\ completed[n] < entered[n]
  /\ completed' = [completed EXCEPT ![n] = @ + 1]
  /\ UNCHANGED <<members, entered>>

End ==
  /\ members' = {}
  /\ entered' = [n \in Nodes |-> 0]
  /\ completed' = [n \in Nodes |-> 0]

Next == Begin \/ End \/ \E n \in Nodes : Enter(n) \/ Complete(n)

Spec == Init /\ [][Next]_svars
=============================================================================
