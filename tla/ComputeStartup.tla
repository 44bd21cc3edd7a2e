---------------------------- MODULE ComputeStartup ---------------------------
(***************************************************************************)
(* The start of nova-compute on every compute host: the container of step  *)
(* 4 that waits for placement, nova_compute itself, and the container of   *)
(* step 5 that waits until the host is listed and has nova-manage map it   *)
(* to its cell.  The hosts run side by side; a step begins when every host *)
(* is through with the one before.  Keystone, placement, nova's API and    *)
(* nova-manage are external: they answer or not, at any call, or never     *)
(* return, for no call has a timeout; a run of nova-manage maps every      *)
(* host it has found unmapped, in any order, and fails at the first that   *)
(* another run has mapped meanwhile.                                       *)
(***************************************************************************)
EXTENDS Naturals, FiniteSets

CONSTANTS
  Hosts,
  Iterations,  \* iterations
  Retries      \* retries

ASSUME BoundAssumption == Iterations \in Nat \ {0} /\ Retries \in Nat

VARIABLES
  pc,          \* per host: "endpoint", "placement", "stopped" in step 4, then "started", and
               \* "discover", "manage", "done", "failed" in step 5
  left,        \* iterations_endpoint, then iterations
  tries,       \* i
  waits,       \* hosts whose script waits for a call to return
  registered,  \* hosts in the list of compute services, in a zone that is not internal
  mapped,      \* host mappings in nova's API database
  found        \* what nova-manage on a host still has to map

cvars == <<pc, left, tries, waits, registered, mapped, found>>

\* A host whose container of step 4 finds no nova.conf stops at once.
Init ==
  /\ pc \in [Hosts -> {"endpoint", "stopped"}]
  /\ left = [h \in Hosts |-> Iterations] /\ tries = [h \in Hosts |-> 0] /\ waits = {}
  /\ registered = {} /\ mapped = {} /\ found = [h \in Hosts |-> {}]

(***************************************************************************)
(* The loops of both scripts: a call, its answer, and the end of the tries *)
(***************************************************************************)
Waiting(h) == pc[h] \in {"endpoint", "placement"}
Listed(h) == pc[h] = "discover"
Remains(h) == (Waiting(h) /\ left[h] > 1) \/ (Listed(h) /\ tries[h] < Retries)

Call(h) ==
  /\ Remains(h) /\ h \notin waits
  /\ waits' = waits \cup {h}
  /\ UNCHANGED <<pc, left, tries, registered, mapped, found>>

GiveUp(h) ==
  /\ Waiting(h) \/ Listed(h)
  /\ ~Remains(h)
  /\ pc' = [pc EXCEPT ![h] = IF Waiting(h) THEN "stopped" ELSE "failed"]
  /\ UNCHANGED <<left, tries, waits, registered, mapped, found>>

\* MUTANT of NoAnswer: the count starts again.
NoAnswerForever(h) ==
  /\ Remains(h) /\ h \in waits
  /\ waits' = waits \ {h}
  /\ left' = [left EXCEPT ![h] = IF @ > 2 THEN @ - 1 ELSE Iterations]
  /\ tries' = [tries EXCEPT ![h] = IF Listed(h) THEN @ + 1 ELSE @]
  /\ UNCHANGED <<pc, registered, mapped, found>>

\* The call raises, or its answer is not the one that is waited for.
NoAnswer(h) ==
  /\ Remains(h) /\ h \in waits
  /\ waits' = waits \ {h}
  /\ left' = [left EXCEPT ![h] = IF Waiting(h) THEN @ - 1 ELSE @]
  /\ tries' = [tries EXCEPT ![h] = IF Listed(h) THEN @ + 1 ELSE @]
  /\ UNCHANGED <<pc, registered, mapped, found>>

(***************************************************************************)
(* nova_wait_for_placement_service.py                                      *)
(***************************************************************************)
\* Keystone knows the service and its endpoint.  The second loop has a count of its own.
GetEndpoint(h) ==
  /\ pc[h] = "endpoint" /\ h \in waits
  /\ pc' = [pc EXCEPT ![h] = "placement"] /\ left' = [left EXCEPT ![h] = Iterations]
  /\ waits' = waits \ {h}
  /\ UNCHANGED <<tries, registered, mapped, found>>

\* Placement answers 200 with a current version; nova_compute is started next.
AskPlacement(h) ==
  /\ pc[h] = "placement" /\ h \in waits
  /\ pc' = [pc EXCEPT ![h] = "started"]
  /\ waits' = waits \ {h}
  /\ UNCHANGED <<left, tries, registered, mapped, found>>

(***************************************************************************)
(* nova_compute, and the next step of the deployment                       *)
(***************************************************************************)
Register(h) ==
  /\ ~Waiting(h) /\ pc[h] # "stopped"
  /\ registered' = registered \cup {h}
  /\ UNCHANGED <<pc, left, tries, waits, mapped, found>>

\* MUTANT of Step5: the hosts that are through go on, without those that have given up.
Step5Early ==
  /\ \E h \in Hosts : pc[h] = "started"
  /\ \A h \in Hosts : pc[h] \in {"started", "stopped"}
  /\ pc' = [h \in Hosts |-> IF pc[h] = "started" THEN "discover" ELSE pc[h]]
  /\ UNCHANGED <<left, tries, waits, registered, mapped, found>>

\* Any error is fatal for all hosts.
Step5 ==
  /\ \A h \in Hosts : pc[h] = "started"
  /\ pc' = [h \in Hosts |-> "discover"]
  /\ UNCHANGED <<left, tries, waits, registered, mapped, found>>

(***************************************************************************)
(* nova_cell_v2_discover_host.py                                           *)
(***************************************************************************)
\* MUTANT of Discover: any host in the list will do.
DiscoverAny(h) ==
  /\ pc[h] = "discover" /\ h \in waits /\ registered # {}
  /\ pc' = [pc EXCEPT ![h] = "manage"] /\ found' = [found EXCEPT ![h] = registered \ mapped]
  /\ UNCHANGED <<left, tries, waits, registered, mapped>>

\* The host is in the list; the script now waits for nova-manage.
Discover(h) ==
  /\ pc[h] = "discover" /\ h \in waits /\ h \in registered
  /\ pc' = [pc EXCEPT ![h] = "manage"] /\ found' = [found EXCEPT ![h] = registered \ mapped]
  /\ UNCHANGED <<left, tries, waits, registered, mapped>>

\* nova-manage cell_v2 discover_hosts; its status is the script's, and there is no retry.
Manage(h) ==
  /\ pc[h] = "manage"
  /\ \/ /\ \E x \in found[h] \ mapped : mapped' = mapped \cup {x} /\ found' = [found EXCEPT ![h] = @ \ {x}]
        /\ UNCHANGED <<pc, waits>>
     \/ /\ found[h] \cap mapped # {} /\ pc' = [pc EXCEPT ![h] = "failed"] /\ waits' = waits \ {h}
        /\ UNCHANGED <<mapped, found>>
     \/ /\ found[h] = {} /\ pc' = [pc EXCEPT ![h] = "done"] /\ waits' = waits \ {h}
        /\ UNCHANGED <<mapped, found>>
  /\ UNCHANGED <<left, tries, registered>>

\* What the script does by itself, and what others do for it.
Script(h) == Call(h) \/ GiveUp(h)
Answer(h) == NoAnswer(h) \/ GetEndpoint(h) \/ AskPlacement(h) \/ Discover(h) \/ Manage(h)

Next == (\E h \in Hosts : Script(h) \/ Answer(h) \/ Register(h)) \/ Step5

Spec == Init /\ [][Next]_cvars /\ (\A h \in Hosts : WF_cvars(Script(h))) /\ WF_cvars(Step5)

(***************************************************************************)
(* Properties                                                              *)
(***************************************************************************)
TypeOK ==
  /\ pc \in [Hosts -> {"endpoint", "placement", "stopped", "started", "discover", "manage", "done", "failed"}]
  /\ left \in [Hosts -> 1..Iterations] /\ tries \in [Hosts -> 0..Retries] /\ waits \subseteq Hosts
  /\ registered \subseteq Hosts /\ mapped \subseteq Hosts /\ found \in [Hosts -> SUBSET Hosts]

\* A host whose deployment has succeeded is mapped to its cell, whoever has mapped it: a run
\* of nova-manage that another run got ahead of fails, and one that finds nothing to do has
\* its own host mapped by others.
DoneIsMapped == \A h \in Hosts : pc[h] = "done" => h \in mapped

\* Only hosts that are registered are mapped; and when one is mapped, or worked on in step 5,
\* every host has come through step 4: none still waits for placement, and none has given
\* up there, for want of nova.conf or of an answer.
StepsInOrder ==
  /\ mapped \subseteq registered
  /\ mapped # {} \/ (\E h \in Hosts : pc[h] \in {"discover", "manage", "done", "failed"}) =>
       \A h \in Hosts : pc[h] \in {"discover", "manage", "done", "failed"}

\* If every call returns, whatever it returns, every host succeeds or fails, unless it has
\* started while another has given up in step 4.  A call that never returns stops its host,
\* for no count is kept of time, and so the others at the end of the step.
EveryHostEnds ==
  (\A h \in Hosts : []<>(h \notin waits)) =>
    <>[](\A h \in Hosts : pc[h] \in {"done", "failed", "stopped"}
                          \/ (pc[h] = "started" /\ \E g \in Hosts : pc[g] = "stopped"))
=============================================================================
