--------------------------- MODULE MCDeploySteps ---------------------------
(* Small instances of DeploySteps for TLC. *)
EXTENDS DeploySteps

CONSTANTS n1, n2

\* The first steps have bootstrap tasks, of services with different bootstrap hosts.
BootTwo == [s \in Steps |-> CASE s = 1 -> n1 [] s = 2 -> n2 [] OTHER -> NoBoot]
=============================================================================
