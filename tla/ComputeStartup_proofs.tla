------------------------- MODULE ComputeStartup_proofs -----------------------
(***************************************************************************)
(* For any number of compute hosts, iterations and retries: the types of   *)
(* ComputeStartup, that a host that is done is mapped, and the order of    *)
(* the steps.                                                              *)
(***************************************************************************)
EXTENDS ComputeStartup, TLAPS

\* Step 5 has begun; and it has for every host.
Begun == mapped # {} \/ \E h \in Hosts : pc[h] \in {"discover", "manage", "done", "failed"}
Late == \A h \in Hosts : pc[h] \in {"discover", "manage", "done", "failed"}

\* nova-manage has only found what was registered, and was begun after its own host was.
FoundRegistered ==
  /\ mapped \subseteq registered
  /\ \A h \in Hosts : found[h] \subseteq registered
  /\ \A h \in Hosts : pc[h] = "manage" => h \in found[h] \cup mapped

\* The inductive invariant.  What nova-manage has still to do is what makes DoneIsMapped hold
\* at its end; that step 5 begins for all hosts at once makes Late hold from then on.
IInv == TypeOK /\ (Begun => Late) /\ FoundRegistered /\ DoneIsMapped

\* Every variable keeps its type, whatever the services answer.
LEMMA TypeStep == TypeOK /\ [Next]_cvars => TypeOK'
<1> USE BoundAssumption DEF TypeOK
<1> SUFFICES ASSUME TypeOK, [Next]_cvars PROVE TypeOK'
  OBVIOUS
<1>1. ASSUME NEW h \in Hosts, Call(h) PROVE TypeOK'
  BY <1>1 DEF Call
<1>2. ASSUME NEW h \in Hosts, GiveUp(h) PROVE TypeOK'
  BY <1>2 DEF GiveUp
<1>3. ASSUME NEW h \in Hosts, NoAnswer(h) PROVE TypeOK'
  <2>1. left' \in [Hosts -> 1..Iterations] /\ tries' \in [Hosts -> 0..Retries]
    BY <1>3 DEF NoAnswer, Remains, Waiting, Listed
  <2> QED
    BY <1>3, <2>1 DEF NoAnswer
<1>4. ASSUME NEW h \in Hosts, GetEndpoint(h) PROVE TypeOK'
  BY <1>4 DEF GetEndpoint
<1>5. ASSUME NEW h \in Hosts, AskPlacement(h) PROVE TypeOK'
  BY <1>5 DEF AskPlacement
<1>6. ASSUME NEW h \in Hosts, Register(h) PROVE TypeOK'
  BY <1>6 DEF Register
<1>7. CASE Step5
  BY <1>7 DEF Step5
<1>8. ASSUME NEW h \in Hosts, Discover(h) PROVE TypeOK'
  BY <1>8 DEF Discover
<1>9. ASSUME NEW h \in Hosts, Manage(h) PROVE TypeOK'
  <2>1. ASSUME pc' = [pc EXCEPT ![h] = "done"] \/ pc' = [pc EXCEPT ![h] = "failed"],
               waits' = waits \ {h}, UNCHANGED <<mapped, found>>
        PROVE  TypeOK'
    BY <1>9, <2>1 DEF Manage
  <2>2. ASSUME NEW x \in found[h] \ mapped, mapped' = mapped \cup {x},
               found' = [found EXCEPT ![h] = @ \ {x}], UNCHANGED <<pc, waits>>
        PROVE  TypeOK'
    BY <1>9, <2>2 DEF Manage
  <2> QED
    BY <1>9, <2>1, <2>2 DEF Manage
<1>10. CASE UNCHANGED cvars
  BY <1>10 DEF cvars
<1> QED
  BY <1>1, <1>2, <1>3, <1>4, <1>5, <1>6, <1>7, <1>8, <1>9, <1>10 DEF Next, Script, Answer

Order == (Begun => Late) /\ FoundRegistered /\ DoneIsMapped

\* The order of the steps and what nova-manage works on, over every step.
LEMMA Step == IInv /\ [Next]_cvars => IInv'
<1> SUFFICES ASSUME IInv, [Next]_cvars PROVE Order'
  BY TypeStep DEF IInv, Order
<1> USE DEF IInv, TypeOK
\* A step of a host in step 4, and one that does not end a script, touches nothing of that.
<1>1. ASSUME NEW h \in Hosts, Call(h) \/ NoAnswer(h) PROVE Order'
  BY <1>1 DEF Call, NoAnswer, Order, Begun, Late, FoundRegistered, DoneIsMapped
<1>2. ASSUME NEW h \in Hosts, pc[h] \in {"endpoint", "placement"},
             pc' = [pc EXCEPT ![h] = "placement"] \/ pc' = [pc EXCEPT ![h] = "started"]
               \/ pc' = [pc EXCEPT ![h] = "stopped"],
             UNCHANGED <<registered, mapped, found>>
      PROVE  Order'
  <2>1. ~Begun
    BY <1>2 DEF Late
  <2> QED
    BY <1>2, <2>1 DEF Order, Begun, FoundRegistered, DoneIsMapped
<1>3. ASSUME NEW h \in Hosts, GetEndpoint(h) \/ AskPlacement(h) PROVE Order'
  BY <1>2, <1>3 DEF GetEndpoint, AskPlacement
<1>4. ASSUME NEW h \in Hosts, GiveUp(h) PROVE Order'
  <2>1. CASE Waiting(h)
    BY <1>2, <1>4, <2>1 DEF GiveUp, Waiting
  <2>2. CASE ~Waiting(h)
    <3>1. pc[h] = "discover" /\ pc' = [pc EXCEPT ![h] = "failed"]
      BY <1>4, <2>2 DEF GiveUp, Listed
    <3> QED
      BY <1>4, <3>1 DEF GiveUp, Order, Begun, Late, FoundRegistered, DoneIsMapped
  <2> QED
    BY <2>1, <2>2
<1>5. ASSUME NEW h \in Hosts, Register(h) PROVE Order'
  BY <1>5 DEF Register, Order, Begun, Late, FoundRegistered, DoneIsMapped
<1>6. CASE Step5
  BY <1>6 DEF Step5, Order, Begun, Late, FoundRegistered, DoneIsMapped
<1>7. ASSUME NEW h \in Hosts, Discover(h) PROVE Order'
  <2>1. /\ pc[h] = "discover" /\ pc' = [pc EXCEPT ![h] = "manage"] /\ h \in registered
        /\ found' = [found EXCEPT ![h] = registered \ mapped]
        /\ UNCHANGED <<registered, mapped>>
    BY <1>7 DEF Discover
  <2>2. Late
    BY <2>1 DEF Begun
  <2>3. Late'
    BY <2>1, <2>2 DEF Late
  <2>4. FoundRegistered'
    BY <2>1 DEF FoundRegistered
  <2>5. DoneIsMapped'
    BY <2>1 DEF DoneIsMapped
  <2> QED
    BY <2>3, <2>4, <2>5 DEF Order
<1>8. ASSUME NEW h \in Hosts, Manage(h) PROVE Order'
  <2>1. pc[h] = "manage" /\ Late /\ h \in found[h] \cup mapped /\ UNCHANGED registered
    BY <1>8 DEF Manage, Begun, FoundRegistered
  <2>2. CASE pc' = [pc EXCEPT ![h] = "failed"] /\ UNCHANGED <<mapped, found>>
    BY <2>1, <2>2 DEF Order, Begun, Late, FoundRegistered, DoneIsMapped
  <2>3. CASE found[h] = {} /\ pc' = [pc EXCEPT ![h] = "done"] /\ UNCHANGED <<mapped, found>>
    BY <2>1, <2>3 DEF Order, Begun, Late, FoundRegistered, DoneIsMapped
  <2>4. ASSUME NEW x \in found[h] \ mapped, mapped' = mapped \cup {x},
               found' = [found EXCEPT ![h] = @ \ {x}], UNCHANGED pc
        PROVE  Order'
    <3>1. found'[h] = found[h] \ {x} /\ \A g \in Hosts \ {h} : found'[g] = found[g]
      BY <2>4
    <3> QED
      BY <2>1, <2>4, <3>1 DEF Order, Begun, Late, FoundRegistered, DoneIsMapped
  <2> QED
    BY <1>8, <2>2, <2>3, <2>4 DEF Manage
<1>9. CASE UNCHANGED cvars
  BY <1>9 DEF cvars, Order, Begun, Late, FoundRegistered, DoneIsMapped
<1> QED
  BY <1>1, <1>3, <1>4, <1>5, <1>6, <1>7, <1>8, <1>9 DEF Next, Script, Answer

\* The invariant from which the theorems follow holds in every state.
LEMMA Invariance == Spec => []IInv
<1>1. Init => IInv
  BY BoundAssumption DEF Init, IInv, TypeOK, Begun, Late, FoundRegistered, DoneIsMapped
<1> QED
  BY <1>1, Step, PTL DEF Spec

\* For any hosts and limits the counts of both scripts stay within their limits, and every
\* position is one of the scripts'.
THEOREM StartupTypes == Spec => []TypeOK
<1>1. IInv => TypeOK
  BY DEF IInv
<1> QED
  BY <1>1, Invariance, PTL

\* For any number of hosts that race to map one another: one that is done is mapped.
THEOREM Mapped == Spec => []DoneIsMapped
<1>1. IInv => DoneIsMapped
  BY DEF IInv
<1> QED
  BY <1>1, Invariance, PTL

\* For any number of hosts: none is mapped, or worked on in step 5, before every host has come
\* through step 4, and none unregistered.
THEOREM InOrder == Spec => []StepsInOrder
<1>1. IInv => StepsInOrder
  BY DEF IInv, StepsInOrder, Begun, Late, FoundRegistered
<1> QED
  BY <1>1, Invariance, PTL
=============================================================================
