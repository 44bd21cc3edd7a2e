------------------------- MODULE DeploySteps_proofs ------------------------
(***************************************************************************)
(* Proofs about DeploySteps, for any hosts, steps, bootstrap hosts and     *)
(* versions.                                                               *)
(***************************************************************************)
EXTENDS DeploySteps, TLAPS

(***************************************************************************)
(* Lemmas about the operators                                              *)
(***************************************************************************)

\* The task a host is at belongs to a step of the deployment.
LEMMA StepInRange ==
  ASSUME NEW M \in Nat, NEW p \in 0 .. 7 * M, p < 7 * M
  PROVE  1 + p \div 7 \in 1 .. M
  OBVIOUS

\* A host that may be given a task is in a step of the deployment.
LEMMA GivenInStep ==
  ASSUME TypeOK, NEW n \in Nodes, NEW t, Given(n, t)
  PROVE  /\ StepOf(n) \in Steps
         /\ pos[n] \in Nat /\ pos[n] + 1 \in 0 .. Last
<1>1. pos[n] \in 0 .. 7 * MaxStep /\ pos[n] < 7 * MaxStep /\ MaxStep \in Nat
  BY DeployAssumption DEF TypeOK, Given, Last, T
<1>2. 1 + pos[n] \div 7 \in 1 .. MaxStep
  BY <1>1, StepInRange
<1> QED
  BY <1>1, <1>2 DEF StepOf, Steps, Last, T

\* What a task does to the host's position keeps the hosts together and typed.
LEMMA TaskKeepsPositions ==
  ASSUME OrderInv, NEW n \in Nodes, NEW t, Given(n, t), UNCHANGED Playbook,
         Done(n) \/ Fails(n)
  PROVE  /\ pos' \in [Nodes -> 0 .. Last] /\ failed' \subseteq live'
         /\ IdleIsClean' /\ Together' /\ ExternalAhead' /\ OneAtATime'
<1> USE DEF OrderInv
<1>1. pos[n] + 1 \in 0 .. Last /\ pos \in [Nodes -> 0 .. Last] /\ failed \subseteq live /\ live \subseteq Nodes
  BY GivenInStep DEF TypeOK
<1>2. /\ n \in live /\ mode' = mode /\ result' = result
      /\ live' = live /\ waiting' = waiting /\ ext' = ext
  BY DEF Given, Playbook
<1>3. mode # "idle"
  BY <1>2 DEF IdleIsClean
<1>4. CASE Fails(n)
  BY <1>1, <1>2, <1>3, <1>4 DEF Fails, IdleIsClean, Together, ExternalAhead, OneAtATime
<1>5. CASE Done(n)
  <2>1. pos' = [pos EXCEPT ![n] = @ + 1] /\ failed' = failed
    BY <1>5 DEF Done
  <2>2. pos' \in [Nodes -> 0 .. Last] /\ failed' \subseteq live'
    BY <2>1, <1>1, <1>2
  <2>3. Together'
    <3> SUFFICES ASSUME NEW a \in live, NEW b \in live PROVE pos'[a] <= pos'[b] + 1
      BY <1>2 DEF Together
    <3>1. pos[a] <= pos[b] + 1 /\ pos[b] >= pos[n] /\ pos[a] \in Nat /\ pos[b] \in Nat /\ pos[n] \in Nat
      BY <1>1 DEF Together, Given, Last
    <3>2. pos'[a] \in {pos[a], pos[n] + 1} /\ (a # n => pos'[a] = pos[a]) /\ pos'[b] \in {pos[b], pos[b] + 1}
      BY <2>1, <1>1
    <3> QED
      BY <3>1, <3>2
  <2>4. ExternalAhead'
    <3> SUFFICES ASSUME mode = "deploy", NEW a \in live PROVE pos'[a] <= T * ext
      BY <1>2 DEF ExternalAhead
    <3>1. pos[n] < T * ext /\ pos[a] <= T * ext /\ ext \in Nat
      BY DEF Given, ExternalAhead, TypeOK
    <3>2. pos'[a] = IF a = n THEN pos[n] + 1 ELSE pos[a]
      BY <2>1, <1>1
    <3> QED
      BY <3>1, <3>2, <1>1 DEF T, Last
  <2>5. OneAtATime'
    BY <2>1, <1>1, <1>2 DEF OneAtATime
  <2> QED
    BY <2>2, <2>3, <2>4, <2>5, <1>2, <1>3 DEF IdleIsClean
<1> QED
  BY <1>4, <1>5

\* The end of a playbook leaves a clean state.
LEMMA StopKeeps ==
  ASSUME OrderInv, NEW r \in {"deployed", "updated", "partial", "failed"}, Stop(r)
  PROVE  OrderInv'
<1>1. TypeOK'
  BY DeployAssumption DEF OrderInv, Stop, TypeOK, Last, T
<1> QED
  BY <1>1 DEF Stop, OrderInv, IdleIsClean, Together, ExternalAhead, OneAtATime

(***************************************************************************)
(* The invariant                                                           *)
(***************************************************************************)

\* The initial state satisfies it.
LEMMA InitOrder == Init => OrderInv
<1> SUFFICES ASSUME Init PROVE OrderInv
  OBVIOUS
<1>1. MaxStep \in Nat \ {0} /\ MaxVersion \in Nat \ {0} /\ 0 \in Versions /\ 0 \in 0 .. Last
  BY DeployAssumption DEF Versions, Last, T
<1>2. NewHost \in Host
  BY <1>1 DEF NewHost, Host, Contents
<1>3. /\ mode \in {"idle", "deploy", "update"}
      /\ result \in {"none", "deployed", "updated", "partial", "failed"}
      /\ live \subseteq Nodes /\ waiting \subseteq Nodes /\ failed \subseteq live
  BY DEF Init
<1>7. want \in 1 .. MaxVersion /\ ext \in 0 .. MaxStep
  BY <1>1 DEF Init
<1>8. ident \in BOOLEAN
  BY DEF Init
<1>4. /\ pos \in [Nodes -> 0 .. Last]
      /\ exists \in [Nodes -> BOOLEAN]
      /\ fact \in [Nodes -> SUBSET Steps]
      /\ execs \in [Steps -> Nat]
  BY <1>1 DEF Init
<1>5. host \in [Nodes -> Host]
  BY <1>2 DEF Init
<1>6. TypeOK
  BY <1>3, <1>7, <1>8, <1>4, <1>5 DEF TypeOK
<1> QED
  BY <1>6 DEF Init, OrderInv, IdleIsClean, Together, ExternalAhead, OneAtATime

\* Every task of a host keeps the types of the host's own state.
LEMMA TaskKeepsTypes ==
  ASSUME OrderInv, NEW n \in Nodes, HostTask(n)
  PROVE  /\ exists' \in [Nodes -> BOOLEAN] /\ fact' \in [Nodes -> SUBSET Steps]
         /\ execs' \in [Steps -> Nat] /\ host' \in [Nodes -> Host]
<1>1. /\ TypeOK
      /\ host[n] \in Host /\ want \in Versions
      /\ \A h \in Host : OnHost(n, h) => host' \in [Nodes -> Host]
  BY DeployAssumption DEF OrderInv, TypeOK, OnHost, Versions
<1>2. CASE RoleTasks(n) \/ Skip(n) \/ HostPuppet(n)
  BY <1>1, <1>2 DEF RoleTasks, Skip, HostPuppet, TypeOK
<1>3. CASE CheckConfigs(n)
  BY <1>1, <1>3 DEF CheckConfigs, TypeOK, Host
<1>4. CASE WriteConfigs(n)
  <2>1. \A j \in BOOLEAN, p \in Contents : [host[n] EXCEPT !.json = j, !.plain = p] \in Host
    BY <1>1 DEF Host
  <2>2. want \in Contents /\ Mixed \in Contents
    BY <1>1 DEF Contents
  <2> QED
    BY <1>1, <1>4, <2>1, <2>2 DEF WriteConfigs, TypeOK
<1>5. CASE GenerateConfig(n)
  <2>1. \A c \in Contents : [host[n] EXCEPT !.conf = c, !.hashed = c] \in Host
    BY <1>1 DEF Host
  <2>2. host[n].plain \in Contents /\ Mixed \in Contents
    BY <1>1 DEF Host, Contents
  <2> QED
    BY <1>1, <1>5, <2>1, <2>2 DEF GenerateConfig, TypeOK
<1>6. CASE StartContainers(n)
  <2>1. StepOf(n) \in Steps
    BY <1>1, <1>6, GivenInStep DEF StartContainers, Runs
  <2>2. [host[n] EXCEPT !.up[StepOf(n)] = <<host[n].hashed, host[n].conf>>] \in Host
    BY <1>1, <2>1 DEF Host
  <2> QED
    BY <1>1, <1>6, <2>2 DEF StartContainers, TypeOK
<1>7. CASE BootstrapTasks(n)
  <2>1. StepOf(n) \in Steps
    BY <1>1, <1>7, GivenInStep DEF BootstrapTasks, Runs
  <2>2. Calculated(n) \in SUBSET Steps
    BY <1>1, <2>1 DEF Calculated, TypeOK
  <2> QED
    BY <1>1, <1>7, <2>2 DEF BootstrapTasks, TypeOK
<1> QED
  BY <1>2, <1>3, <1>4, <1>5, <1>6, <1>7 DEF HostTask

\* Every task of a host is given to it, and ends done or failed.
LEMMA TaskIsGiven ==
  ASSUME NEW n \in Nodes, HostTask(n)
  PROVE  /\ \E t \in 0 .. 6 : Given(n, t)
         /\ UNCHANGED Playbook /\ (Done(n) \/ Fails(n))
<1>1. CASE WriteConfigs(n)
  <2>1. Runs(n, Write) /\ UNCHANGED Playbook /\ (Done(n) \/ Fails(n))
    BY <1>1, Zenon DEF WriteConfigs
  <2> QED
    BY <2>1 DEF Runs, Write
<1>2. CASE HostTask(n) /\ ~WriteConfigs(n)
  BY <1>2 DEF HostTask, RoleTasks, CheckConfigs, Skip, HostPuppet, GenerateConfig,
              StartContainers, BootstrapTasks, Runs,
              Role, Check, Write, Puppet, Generate, Start, Tasks
<1> QED
  BY <1>1, <1>2

\* Every step keeps it: one case per action of the playbooks, the tasks in one.
LEMMA NextOrder == OrderInv /\ [Next]_vars => OrderInv'
<1> SUFFICES ASSUME OrderInv, [Next]_vars PROVE OrderInv'
  OBVIOUS
<1> USE DeployAssumption
<1>1. CASE Deploy
  <2>1. live = {} /\ waiting = {} /\ ext = 0 /\ pos = [n \in Nodes |-> 0] /\ failed = {}
    BY <1>1 DEF Deploy, NewPlaybook, OrderInv, IdleIsClean, TypeOK
  <2>2. TypeOK'
    BY <1>1, <2>1 DEF Deploy, NewPlaybook, OrderInv, TypeOK
  <2>3. /\ mode' = "deploy" /\ result' = "none" /\ live' \subseteq Nodes /\ waiting' = {}
        /\ pos' = pos /\ ext' = ext
    BY <1>1 DEF Deploy, NewPlaybook
  <2> QED
    BY <2>1, <2>2, <2>3 DEF OrderInv, IdleIsClean, Together, ExternalAhead, OneAtATime, T
<1>2. CASE Update
  <2>1. live = {} /\ pos = [n \in Nodes |-> 0] /\ failed = {}
    BY <1>2 DEF Update, NewPlaybook, OrderInv, IdleIsClean, TypeOK
  <2>2. TypeOK'
    BY <1>2, <2>1 DEF Update, NewPlaybook, OrderInv, TypeOK
  <2>3. mode' = "update" /\ result' = "none" /\ pos' = pos /\ \E n \in Nodes : live' = {n}
    BY <1>2 DEF Update, NewPlaybook
  <2> QED
    BY <2>1, <2>2, <2>3 DEF OrderInv, IdleIsClean, Together, ExternalAhead, OneAtATime
<1>3. CASE Interrupt \/ PlayFails
  BY <1>3, StopKeeps DEF Interrupt, PlayFails
<1>4. CASE PlayEnds
  <2>1. CASE waiting = {}
    BY <1>4, <2>1, StopKeeps DEF PlayEnds
  <2>2. CASE waiting # {}
    <3>1. PICK n \in waiting : live' = {n} /\ waiting' = waiting \ {n}
      BY <1>4, <2>2 DEF PlayEnds
    <3>2. /\ mode' = mode /\ result' = result /\ failed' = {} /\ pos' = pos /\ ext' = ext
          /\ \A m \in live : pos[m] = Last
      BY <1>4, <2>2, <3>1 DEF PlayEnds
    <3>3. TypeOK'
      BY <1>4, <2>2, <3>1, <3>2 DEF PlayEnds, OrderInv, TypeOK
    <3>4. mode = "update" /\ result = "none" /\ n \in Nodes /\ pos[n] \in 0 .. Last
      BY <1>4, <2>2 DEF PlayEnds, OrderInv, IdleIsClean, TypeOK
    <3>5. IdleIsClean' /\ Together' /\ ExternalAhead'
      BY <3>1, <3>2, <3>4 DEF IdleIsClean, Together, ExternalAhead, Last
    <3>6. OneAtATime'
      BY <3>1, <3>2, <3>4 DEF OrderInv, OneAtATime
    <3> QED
      BY <3>3, <3>5, <3>6 DEF OrderInv
  <2> QED
    BY <2>1, <2>2
<1>5. CASE ExternalStep
  <2>1. CASE Stop("failed")
    BY <2>1, StopKeeps
  <2>2. CASE ext' = ext + 1 /\ UNCHANGED <<mode, live, waiting, pos>>
                /\ UNCHANGED <<result, want, ident, failed, exists, fact, execs, host>>
    <3>1. mode = "deploy" /\ waiting = {} /\ result = "none" /\ ext \in 0 .. MaxStep /\ ext < MaxStep /\ pos \in [Nodes -> 0 .. Last]
          /\ live \subseteq Nodes
      BY <1>5 DEF ExternalStep, OrderInv, IdleIsClean, TypeOK
    <3>2. TypeOK'
      BY <2>2, <3>1 DEF OrderInv, TypeOK
    <3>3. ExternalAhead'
      <4> SUFFICES ASSUME NEW n \in live PROVE pos[n] <= T * (ext + 1)
        BY <2>2 DEF ExternalAhead
      <4>1. pos[n] <= T * ext
        BY <3>1 DEF OrderInv, ExternalAhead
      <4> QED
        BY <4>1, <3>1 DEF T, Last
    <3> QED
      BY <2>2, <3>1, <3>2, <3>3 DEF OrderInv, IdleIsClean, Together, OneAtATime
  <2> QED
    BY <1>5, <2>1, <2>2 DEF ExternalStep
<1>6. CASE \E n \in Nodes : HostTask(n)
  <2>1. PICK n \in Nodes : HostTask(n)
    BY <1>6
  <2>2. PICK t \in 0 .. 6 : Given(n, t)
    BY <2>1, TaskIsGiven
  <2>3. /\ pos' \in [Nodes -> 0 .. Last] /\ failed' \subseteq live'
        /\ IdleIsClean' /\ Together' /\ ExternalAhead' /\ OneAtATime'
    BY <2>1, <2>2, TaskIsGiven, TaskKeepsPositions
  <2>4. TypeOK'
    BY <2>1, <2>3, TaskKeepsTypes, TaskIsGiven DEF TypeOK, OrderInv, Playbook
  <2> QED
    BY <2>3, <2>4 DEF OrderInv
<1>7. CASE UNCHANGED vars
  BY <1>7 DEF vars, OrderInv, TypeOK, IdleIsClean, Together, ExternalAhead, OneAtATime
<1> QED
  BY <1>1, <1>2, <1>3, <1>4, <1>5, <1>6, <1>7 DEF Next, Ansible

\* The inductive invariant holds in every reachable state.
THEOREM Inductive == Spec => []OrderInv
  BY InitOrder, NextOrder, PTL DEF Spec

\* Type correctness: in particular a host is never given more tasks than there are,
\* and only hosts of the play are failed.
THEOREM TypeCorrect == Spec => []TypeOK
  BY Inductive, PTL DEF OrderInv

\* Stepwise deployment, for any number of hosts and steps: nobody begins the step
\* after s before all the hosts, and the source host, are through with s.
THEOREM Barrier == Spec => []StepBarrier
<1>1. OrderInv => StepBarrier
  <2> SUFFICES ASSUME OrderInv, mode = "deploy", NEW n \in live, NEW s \in 0 .. MaxStep, pos[n] > T * s
               PROVE  ext > s /\ \A m \in live : pos[m] >= T * s
    BY DEF StepBarrier
  <2>1. ext \in Nat /\ s \in Nat /\ \A m \in live : pos[m] \in Nat
    BY DeployAssumption DEF OrderInv, TypeOK, Last, T
  <2>2. pos[n] <= T * ext
    BY DEF OrderInv, ExternalAhead
  <2>3. \A m \in live : pos[n] <= pos[m] + 1
    BY DEF OrderInv, Together
  <2> QED
    BY <2>1, <2>2, <2>3 DEF T
<1> QED
  BY <1>1, Inductive, PTL

\* any_errors_fatal: whichever hosts fail, no host gets beyond the task that failed.
THEOREM Contained == Spec => []FailureContained
<1>1. OrderInv => FailureContained
  BY DEF OrderInv, TypeOK, Together, FailureContained
<1> QED
  BY <1>1, Inductive, PTL

\* The hosts of a playbook stay in step, whether or not some of them fail.
THEOREM InStep == Spec => []HostsInStep
  BY Barrier, Contained, PTL DEF HostsInStep

(***************************************************************************)
(* DeploySteps implements StepwiseDeployment                               *)
(***************************************************************************)

Entered   == [n \in Nodes |-> IF mode = "deploy" THEN (pos[n] + T - 1) \div T ELSE 0]
Completed == [n \in Nodes |-> IF mode = "deploy" THEN pos[n] \div T ELSE 0]

\* A task enters a step if it is the step's first, completes it if it is the last.
LEMMA Count ==
  ASSUME NEW p \in Nat
  PROVE  /\ (p + 6) \div 7 \in Nat /\ p \div 7 \in Nat
         /\ p % 7 = 0 => (p + 6) \div 7 = p \div 7 /\ (p + 7) \div 7 = p \div 7 + 1 /\ (p + 1) \div 7 = p \div 7
         /\ p % 7 = 6 => (p + 6) \div 7 = p \div 7 + 1 /\ (p + 7) \div 7 = p \div 7 + 1 /\ (p + 1) \div 7 = p \div 7 + 1
         /\ p % 7 \notin {0, 6} => (p + 7) \div 7 = (p + 6) \div 7 /\ (p + 1) \div 7 = p \div 7
  OBVIOUS

\* Who is further on has completed at least as many steps.
LEMMA Monotonic ==
  ASSUME NEW p \in Nat, NEW q \in Nat, p <= q
  PROVE  p \div 7 <= q \div 7
  OBVIOUS

\* A playbook that begins or ends maps to the same of a stepwise deployment.
LEMMA Boundary ==
  ASSUME pos' = [n \in Nodes |-> 0]
  PROVE  Entered' = [n \in Nodes |-> 0] /\ Completed' = [n \in Nodes |-> 0]
<1>1. (0 + 7 - 1) \div 7 = 0 /\ 0 \div 7 = 0
  OBVIOUS
<1> QED
  BY <1>1 DEF Entered, Completed, T

\* A task of a host maps to entering or completing a step, or to nothing.
LEMMA TaskRefines ==
  ASSUME OrderInv, NEW n \in Nodes, NEW t, Given(n, t), UNCHANGED Playbook, Done(n) \/ Fails(n)
  PROVE  [Stepwise!Next]_(Stepwise!svars)
<1>1. /\ pos[n] \in Nat /\ pos \in [Nodes -> Nat] /\ pos[n] < 7 * MaxStep /\ MaxStep \in Nat
      /\ live' = live /\ mode' = mode /\ n \in live /\ live \subseteq Nodes
      /\ \A m \in live : pos[m] >= pos[n]
  BY DeployAssumption DEF OrderInv, TypeOK, Given, Playbook, Last, T
<1>2. CASE mode # "deploy" \/ Fails(n)
  BY <1>1, <1>2 DEF Fails, Stepwise!svars
<1>3. CASE mode = "deploy" /\ Done(n)
  <2>1. pos' = [pos EXCEPT ![n] = @ + 1]
    BY <1>3 DEF Done
  <2>2. /\ Entered = [m \in Nodes |-> (pos[m] + 6) \div 7] /\ Completed = [m \in Nodes |-> pos[m] \div 7]
        /\ Entered' = [Entered EXCEPT ![n] = (pos[n] + 7) \div 7]
        /\ Completed' = [Completed EXCEPT ![n] = (pos[n] + 1) \div 7]
    <3>1. \A p \in Nat : p + T - 1 = p + 6 /\ p + 1 + T - 1 = p + 7 /\ T = 7
      BY DEF T
    <3>2. /\ Entered = [m \in Nodes |-> (pos[m] + 6) \div 7]
          /\ Completed = [m \in Nodes |-> pos[m] \div 7]
      BY <1>1, <1>3, <3>1 DEF Entered, Completed
    <3>3. /\ Entered' = [m \in Nodes |-> (pos'[m] + T - 1) \div T]
          /\ Completed' = [m \in Nodes |-> pos'[m] \div T]
      BY <1>1, <1>3 DEF Entered, Completed
    <3>4. \A m \in Nodes : /\ pos[m] \in Nat
                          /\ pos'[m] = IF m = n THEN pos[n] + 1 ELSE pos[m]
      BY <1>1, <2>1
    <3>5. \A m \in Nodes : /\ Entered'[m] = IF m = n THEN (pos[n] + 7) \div 7 ELSE Entered[m]
                          /\ Completed'[m] = IF m = n THEN (pos[n] + 1) \div 7 ELSE Completed[m]
      BY <3>1, <3>2, <3>3, <3>4
    <3> QED
      BY <3>2, <3>3, <3>5
  <2>3. CASE pos[n] % 7 = 0
    <3>1. /\ Entered[n] = Completed[n]
          /\ Entered' = [Entered EXCEPT ![n] = @ + 1] /\ Completed' = Completed
      BY <1>1, <2>2, <2>3, Count
    <3>2. Entered[n] < MaxStep
      BY <1>1, <2>2, <2>3, Count
    <3>3. \A m \in live : Completed[m] >= Entered[n]
      BY <1>1, <2>2, <2>3, Count, Monotonic
    <3>4. Stepwise!Enter(n)
      BY <1>1, <1>3, <3>1, <3>2, <3>3 DEF Stepwise!Enter, Entered, Completed
    <3> QED
      BY <3>4 DEF Stepwise!Next
  <2>4. CASE pos[n] % 7 = 6
    <3>1. /\ Completed[n] < Entered[n]
          /\ Completed' = [Completed EXCEPT ![n] = @ + 1] /\ Entered' = Entered
      <4>1. /\ pos[n] \div 7 \in Nat /\ (pos[n] + 6) \div 7 = pos[n] \div 7 + 1
            /\ (pos[n] + 7) \div 7 = pos[n] \div 7 + 1 /\ (pos[n] + 1) \div 7 = pos[n] \div 7 + 1
        BY <1>1, <2>4, Count
      <4>2. Entered[n] = pos[n] \div 7 + 1 /\ Completed[n] = pos[n] \div 7
        BY <1>1, <2>2, <4>1
      <4>3. [Entered EXCEPT ![n] = Entered[n]] = Entered
        BY <1>1 DEF Entered
      <4>4. (pos[n] + 7) \div 7 = Entered[n] /\ (pos[n] + 1) \div 7 = Completed[n] + 1
        BY <4>1, <4>2
      <4>5. Completed[n] < Entered[n]
        BY <4>1, <4>2
      <4> QED
        BY <2>2, <4>3, <4>4, <4>5
    <3>2. Stepwise!Complete(n)
      BY <1>1, <1>3, <3>1 DEF Stepwise!Complete, Entered, Completed
    <3> QED
      BY <3>2 DEF Stepwise!Next
  <2>5. CASE pos[n] % 7 \notin {0, 6}
    <3>1. Completed' = Completed /\ Entered' = Entered
      BY <1>1, <2>2, <2>5, Count
    <3> QED
      BY <1>1, <1>3, <3>1 DEF Stepwise!svars, Entered, Completed
  <2> QED
    BY <2>3, <2>4, <2>5
<1> QED
  BY <1>2, <1>3

\* Every step of the playbooks is a step of a stepwise deployment, or none.
LEMMA NextRefines ==
  ASSUME OrderInv, [Next]_vars
  PROVE  [Stepwise!Next]_(Stepwise!svars)
<1>1. CASE Deploy
  <2>1. pos' = [n \in Nodes |-> 0] /\ mode' = "deploy" /\ live' \in SUBSET Nodes \ {{}}
    BY <1>1 DEF Deploy, NewPlaybook, OrderInv, IdleIsClean
  <2>2. Stepwise!Begin
    BY <2>1, Boundary DEF Stepwise!Begin, Entered, Completed
  <2> QED
    BY <2>2 DEF Stepwise!Next
<1>2. CASE Update
  BY <1>2 DEF Update, NewPlaybook, Stepwise!svars
<1>3. CASE \E r : Stop(r)
  <2>1. pos' = [n \in Nodes |-> 0] /\ mode' = "idle"
    BY <1>3 DEF Stop
  <2>2. Stepwise!End
    BY <2>1, Boundary DEF Stepwise!End, Entered, Completed
  <2> QED
    BY <2>2 DEF Stepwise!Next
<1>4. CASE PlayEnds /\ waiting # {}
  BY <1>4 DEF PlayEnds, OrderInv, IdleIsClean, Stepwise!svars
<1>5. CASE UNCHANGED <<mode, live, pos>>
  BY <1>5 DEF Stepwise!svars
<1>6. CASE \E n \in Nodes : HostTask(n)
  BY <1>6, TaskIsGiven, TaskRefines
<1> QED
  BY <1>1, <1>2, <1>3, <1>4, <1>5, <1>6
     DEF Next, Ansible, vars, Interrupt, PlayFails, PlayEnds, ExternalStep

\* The plays are a stepwise deployment: for any number of hosts and steps, each host
\* takes the steps in order, and nobody enters one before all have completed the last.
THEOREM Refinement == Spec => ImplementsStepwise
<1>1. Init => Stepwise!Init
  BY DEF Init, Stepwise!Init
<1>2. OrderInv /\ [Next]_vars => [Stepwise!Next]_(Stepwise!svars)
  BY NextRefines
<1> QED
  BY <1>1, <1>2, Inductive, PTL DEF Spec, ImplementsStepwise, Stepwise!Spec

(***************************************************************************)
(* What is on the hosts: the second half of the inductive invariant, and   *)
(* the properties that follow from it                                      *)
(***************************************************************************)
\* What ContentsInv says of one host.
HostInv(n) ==
  /\ pos[n] > Check /\ ~Imported(n) => host[n].json
  /\ Imported(n) \/ ~host[n].json =>
       /\ pos[n] > Write => host[n].plain # Mixed
       /\ pos[n] > Generate => host[n].hashed = host[n].plain /\ host[n].conf = host[n].plain
  /\ AlwaysImported => (pos[n] > Write => host[n].plain = want)
  /\ AlwaysImported => \A s \in Steps : pos[n] > T * (s - 1) + Start => host[n].up[s] = <<want, want>>
  /\ \A s \in Steps : host[n].up[s][1] = host[n].up[s][2] /\ host[n].up[s][1] # Mixed

\* The invariant of the contents is that of each host, and the order of the tasks.
LEMMA ContentsByHost ==
  ContentsInv <=> (\A n \in Nodes : HostInv(n)) /\ TasksInOrder /\ TasksRan /\ SuccessIsComplete
  BY DEF ContentsInv, HostInv, SkipsJson, Generated, ContainersAsWanted, ContainersConsistent

(***************************************************************************)
(* Positions                                                               *)
(***************************************************************************)

\* The number of tasks done tells the step and the task.
LEMMA AtMark ==
  ASSUME NEW s \in Nat, NEW k \in 0 .. 6, NEW p \in Nat, p = 7 * (s - 1) + k
  PROVE  p % 7 = k /\ 1 + p \div 7 = s
  OBVIOUS

\* What a task does to the positions.
LEMMA Moves ==
  ASSUME OrderInv, NEW n \in Nodes, NEW t \in 0 .. 6, Given(n, t), Done(n) \/ Fails(n)
  PROVE  /\ pos \in [Nodes -> Nat] /\ StepOf(n) \in Steps /\ Steps \subseteq Nat
         /\ pos[n] = T * (StepOf(n) - 1) + t
         /\ \A m \in Nodes : m # n => pos'[m] = pos[m]
         /\ pos'[n] \in {pos[n], pos[n] + 1}
<1>1. pos \in [Nodes -> Nat] /\ StepOf(n) \in Steps /\ Steps \subseteq Nat
  BY GivenInStep DEF OrderInv, TypeOK, Last, Steps
<1>2. pos[n] = T * (StepOf(n) - 1) + t
  BY <1>1 DEF Given, TaskOf, StepOf, T
<1> QED
  BY <1>1, <1>2 DEF Done, Fails

\* A host passes task k of step s only when it is given that task and does it.
LEMMA Passes ==
  ASSUME OrderInv, NEW n \in Nodes, NEW t \in 0 .. 6, Given(n, t), Done(n) \/ Fails(n),
         NEW s \in Steps, NEW k \in 0 .. 6,
         pos'[n] > T * (s - 1) + k, ~(pos[n] > T * (s - 1) + k)
  PROVE  t = k /\ s = StepOf(n) /\ Done(n)
<1>1. pos[n] \in Nat /\ s \in Nat /\ pos'[n] \in {pos[n], pos[n] + 1}
  BY Moves
<1>2. pos[n] = 7 * (s - 1) + k /\ pos'[n] # pos[n]
  BY <1>1 DEF T
<1>3. pos[n] % 7 = k /\ 1 + pos[n] \div 7 = s
  BY <1>1, <1>2, AtMark
<1>4. Done(n)
  BY <1>2 DEF Fails
<1> QED
  BY <1>3, <1>4 DEF Given, TaskOf, StepOf, T

\* The first step's task k is passed at position k + 1.
LEMMA PassesFirst ==
  ASSUME OrderInv, NEW n \in Nodes, NEW t \in 0 .. 6, Given(n, t), Done(n) \/ Fails(n),
         NEW k \in 0 .. 6, pos'[n] > k, ~(pos[n] > k)
  PROVE  t = k /\ StepOf(n) = 1 /\ Done(n)
<1>1. 1 \in Steps
  BY DeployAssumption DEF Steps
<1>2. T * (1 - 1) + k = k
  BY DEF T
<1> QED
  BY <1>1, <1>2, Passes

(***************************************************************************)
(* The tasks                                                               *)
(***************************************************************************)

\* A task of host n leaves what the invariant says of the other hosts alone.
LEMMA OtherHosts ==
  ASSUME OrderInv, ContentsInv, NEW n \in Nodes, HostTask(n), NEW m \in Nodes, m # n
  PROVE  HostInv(m)'
<1>1. PICK t \in 0 .. 6 : Given(n, t) /\ UNCHANGED Playbook /\ (Done(n) \/ Fails(n))
  BY TaskIsGiven
<1>2. pos'[m] = pos[m]
  BY <1>1, Moves
<1>3. host'[m] = host[m] /\ exists'[m] = exists[m]
  BY DEF HostTask, RoleTasks, CheckConfigs, Skip, WriteConfigs, HostPuppet, GenerateConfig,
         StartContainers, BootstrapTasks, OnHost, OrderInv, TypeOK
<1>4. HostInv(m)
  BY ContentsByHost
<1> QED
  BY <1>1, <1>2, <1>3, <1>4 DEF HostInv, Imported, AlwaysImported, Playbook

\* What is put on a host is there.
LEMMA PutOnHost ==
  ASSUME OrderInv, NEW n \in Nodes
  PROVE  host[n] \in Host /\ \A h : OnHost(n, h) => host'[n] = h
  BY DEF OrderInv, TypeOK, OnHost

\* The tasks that do not touch the host's files pass none of the marks the invariant
\* speaks of, or skip them.
LEMMA QuietTasks ==
  ASSUME OrderInv, NEW n \in Nodes, HostInv(n),
         RoleTasks(n) \/ Skip(n) \/ HostPuppet(n) \/ BootstrapTasks(n)
  PROVE  HostInv(n)'
<1>1. PICK t \in {Role, Puppet, Tasks} \cup Write .. Tasks :
         /\ Given(n, t) /\ (Done(n) \/ Fails(n))
         /\ t \in {Write, Generate, Start} => ~Imported(n) \/ (StepOneOnly(t) /\ StepOf(n) # 1)
  BY DEF RoleTasks, Skip, HostPuppet, BootstrapTasks, Runs, Role, Puppet, Tasks, Write, Generate, Start
<1>2. t \in 0 .. 6 /\ t # Check
  BY <1>1 DEF Role, Puppet, Tasks, Write, Check
<1>3. UNCHANGED <<mode, ident, want, exists, host>>
  BY DEF RoleTasks, Skip, HostPuppet, BootstrapTasks, Playbook
<1>4. ~Imported(n) => ~AlwaysImported
  BY DEF Imported, AlwaysImported
<1>5. (Imported(n))' = Imported(n) /\ AlwaysImported' = AlwaysImported
  BY <1>3 DEF Imported, AlwaysImported
<1>6. pos'[n] > Check => pos[n] > Check
  BY <1>1, <1>2, PassesFirst DEF Check
<1>7. pos'[n] > Generate => pos[n] > Generate \/ (~Imported(n) /\ host[n].json)
  <2> SUFFICES ASSUME pos'[n] > Generate, ~(pos[n] > Generate) PROVE ~Imported(n) /\ host[n].json
    OBVIOUS
  <2>1. t = Generate /\ StepOf(n) = 1
    BY <1>1, <1>2, PassesFirst DEF Generate
  <2>2. ~Imported(n)
    BY <1>1, <2>1
  <2>3. pos[n] = 4
    BY <1>1, <1>2, <2>1, Moves DEF T, Generate
  <2> QED
    BY <2>2, <2>3 DEF HostInv, Check
<1>8. pos'[n] > Write => pos[n] > Write \/ (~Imported(n) /\ host[n].json)
  <2> SUFFICES ASSUME pos'[n] > Write, ~(pos[n] > Write) PROVE ~Imported(n) /\ host[n].json
    OBVIOUS
  <2>1. t = Write /\ StepOf(n) = 1
    BY <1>1, <1>2, PassesFirst DEF Write
  <2>2. ~Imported(n)
    BY <1>1, <2>1
  <2>3. pos[n] = 2
    BY <1>1, <1>2, <2>1, Moves DEF T, Write
  <2> QED
    BY <2>2, <2>3 DEF HostInv, Check
<1>9. ASSUME AlwaysImported, NEW s \in Steps, pos'[n] > T * (s - 1) + Start PROVE pos[n] > T * (s - 1) + Start
  BY <1>1, <1>2, <1>4, <1>9, Passes DEF Start, StepOneOnly, Write, Generate
<1> QED
  BY <1>3, <1>4, <1>5, <1>6, <1>7, <1>8, <1>9 DEF HostInv

\* Check if container-startup-configs.json exists.
LEMMA CheckConfigsTask ==
  ASSUME OrderInv, NEW n \in Nodes, HostInv(n), CheckConfigs(n)
  PROVE  HostInv(n)'
<1>1. Given(n, Check) /\ Check \in 0 .. 6 /\ (Done(n) \/ Fails(n))
  BY DEF CheckConfigs, Check
<1>2. UNCHANGED <<mode, ident, want, host>> /\ AlwaysImported' = AlwaysImported
  BY DEF CheckConfigs, Playbook, AlwaysImported
<1>3. /\ pos'[n] > Generate => pos[n] > Generate
      /\ pos'[n] > Write => pos[n] > Write
  BY <1>1, PassesFirst DEF Check, Write, Generate
<1>4. ASSUME NEW s \in Steps, pos'[n] > T * (s - 1) + Start PROVE pos[n] > T * (s - 1) + Start
  BY <1>1, <1>4, Passes DEF Check, Start
<1>5. CASE exists' = [exists EXCEPT ![n] = host[n].json] /\ Done(n)
  <2>1. exists'[n] = host[n].json /\ (Imported(n)' <=> mode = "update" \/ ident \/ ~host[n].json)
    BY <1>2, <1>5 DEF OrderInv, TypeOK, Imported
  <2>2. Imported(n) \/ ~host[n].json \/ mode = "update" \/ ident \/ ~exists[n] <=> Imported(n) \/ ~host[n].json
    BY DEF Imported
  <2>3. Imported(n)' \/ ~host[n].json => Imported(n) \/ ~host[n].json
    BY <2>1 DEF Imported
  <2>4. ~Imported(n)' => host[n].json
    BY <2>1
  <2> QED
    BY <1>2, <1>3, <1>4, <2>3, <2>4 DEF HostInv
<1>6. CASE UNCHANGED exists /\ Fails(n)
  <2>1. Imported(n)' = Imported(n) /\ pos' = pos
    BY <1>2, <1>6 DEF Imported, Fails
  <2> QED
    BY <1>2, <2>1 DEF HostInv
<1> QED
  BY <1>5, <1>6 DEF CheckConfigs

\* Write config data at the start of step 1.
LEMMA WriteConfigsTask ==
  ASSUME OrderInv, NEW n \in Nodes, HostInv(n), WriteConfigs(n)
  PROVE  HostInv(n)'
<1>1. Given(n, Write) /\ Write \in 0 .. 6 /\ (Done(n) \/ Fails(n)) /\ Imported(n) /\ StepOf(n) = 1
  <2>1. Runs(n, Write) /\ (Done(n) \/ Fails(n))
    BY Zenon DEF WriteConfigs
  <2> QED
    BY <2>1 DEF Runs, Write, StepOneOnly
<1>2. /\ UNCHANGED <<mode, ident, want, exists>>
      /\ Imported(n)' = Imported(n) /\ AlwaysImported' = AlwaysImported
  BY DEF WriteConfigs, Playbook, AlwaysImported, Imported
<1>3. pos[n] = 2 /\ pos'[n] \in {2, 3}
  BY <1>1, Moves DEF T, Write
<1>4. host'[n].up = host[n].up /\ (Done(n) => host'[n].plain = want)
  <2>1. host[n] \in Host
    BY PutOnHost
  <2>2. \A j \in BOOLEAN, p \in Contents :
          /\ [host[n] EXCEPT !.json = j, !.plain = p].up = host[n].up
          /\ [host[n] EXCEPT !.json = j, !.plain = p].plain = p
    BY <2>1 DEF Host
  <2>3. Done(n) => ~Fails(n)
    BY <1>3, Moves, <1>1 DEF Done, Fails, OrderInv, TypeOK
  <2>4. want \in Contents /\ Mixed \in Contents
    BY DEF OrderInv, TypeOK, Versions, Contents
  <2>5. CASE Done(n) /\ OnHost(n, [host[n] EXCEPT !.json = TRUE, !.plain = want])
    <3>1. host'[n] = [host[n] EXCEPT !.json = TRUE, !.plain = want]
      BY <2>5, PutOnHost
    <3> QED
      BY <3>1, <2>2, <2>4
  <2>6. CASE Fails(n) /\ \E j \in BOOLEAN : OnHost(n, [host[n] EXCEPT !.json = j, !.plain = Mixed])
    <3>1. PICK j \in BOOLEAN : OnHost(n, [host[n] EXCEPT !.json = j, !.plain = Mixed])
      BY <2>6
    <3>2. host'[n] = [host[n] EXCEPT !.json = j, !.plain = Mixed]
      BY <3>1, PutOnHost
    <3>3. host'[n].up = host[n].up
      BY <3>2, <2>2, <2>4
    <3> QED
      BY <3>3, <2>6, <2>3
  <2> QED
    BY <2>5, <2>6, Zenon DEF WriteConfigs
<1>5. ASSUME NEW s \in Steps PROVE ~(pos'[n] > T * (s - 1) + Start)
  BY <1>3 DEF Steps, T, Start
<1>6. pos'[n] > Write => Done(n)
  BY <1>1, <1>3 DEF Write, Fails
<1>7. want # Mixed /\ want' = want
  BY <1>2 DEF OrderInv, TypeOK, Mixed
<1>8. Imported(n)'
  BY <1>1, <1>2
<1>9. \A s \in Steps : host'[n].up[s][1] = host'[n].up[s][2] /\ host'[n].up[s][1] # Mixed
  BY <1>4 DEF HostInv
<1> QED
  BY <1>1, <1>2, <1>3, <1>4, <1>5, <1>6, <1>7, <1>8, <1>9 DEF HostInv, Generate

\* Run container-puppet.py.
LEMMA GenerateConfigTask ==
  ASSUME OrderInv, NEW n \in Nodes, HostInv(n), GenerateConfig(n)
  PROVE  HostInv(n)'
<1>1. Given(n, Generate) /\ Generate \in 0 .. 6 /\ (Done(n) \/ Fails(n)) /\ Imported(n) /\ StepOf(n) = 1
  BY DEF GenerateConfig, Runs, Generate, StepOneOnly
<1>2. /\ UNCHANGED <<mode, ident, want, exists>>
      /\ Imported(n)' = Imported(n) /\ AlwaysImported' = AlwaysImported
  BY DEF GenerateConfig, Playbook, AlwaysImported, Imported
<1>3. pos[n] = 4 /\ pos'[n] \in {4, 5} /\ (Fails(n) => pos'[n] = 4)
  BY <1>1, Moves DEF T, Generate, Fails
<1>4. /\ host'[n].up = host[n].up /\ host'[n].plain = host[n].plain
      /\ pos'[n] = 5 => host'[n].hashed = host[n].plain /\ host'[n].conf = host[n].plain
  <2>1. host[n] \in Host
    BY PutOnHost
  <2>2. CASE Done(n) /\ OnHost(n, [host[n] EXCEPT !.conf = host[n].plain, !.hashed = host[n].plain])
    <3>1. host'[n] = [host[n] EXCEPT !.conf = host[n].plain, !.hashed = host[n].plain]
      BY <2>2, PutOnHost
    <3> QED
      BY <3>1, <2>1 DEF Host
  <2>3. CASE Fails(n) /\ OnHost(n, [host[n] EXCEPT !.conf = Mixed, !.hashed = Mixed])
    <3>1. host'[n] = [host[n] EXCEPT !.conf = Mixed, !.hashed = Mixed] /\ pos'[n] = 4
      BY <2>3, <1>3, PutOnHost
    <3> QED
      BY <3>1, <2>1 DEF Host
  <2> QED
    BY <2>2, <2>3 DEF GenerateConfig
<1>5. ASSUME NEW s \in Steps PROVE ~(pos'[n] > T * (s - 1) + Start)
  BY <1>3 DEF Steps, T, Start
<1>6. host[n].plain # Mixed /\ (AlwaysImported => host[n].plain = want)
  BY <1>1, <1>3 DEF HostInv, Write
<1>7. \A s \in Steps : host[n].up[s][1] = host[n].up[s][2] /\ host[n].up[s][1] # Mixed
  BY DEF HostInv
<1> QED
  BY <1>1, <1>2, <1>3, <1>4, <1>5, <1>6, <1>7 DEF HostInv, Generate

\* paunch apply: what it starts from is of one version, the wanted one if the host
\* always runs the common tasks.
LEMMA StartContainersTask ==
  ASSUME OrderInv, NEW n \in Nodes, HostInv(n), StartContainers(n)
  PROVE  HostInv(n)'
<1>1. Given(n, Start) /\ Start \in 0 .. 6 /\ (Done(n) \/ Fails(n)) /\ Imported(n)
  BY DEF StartContainers, Runs, Start
<1>2. /\ UNCHANGED <<mode, ident, want, exists>>
      /\ Imported(n)' = Imported(n) /\ AlwaysImported' = AlwaysImported
  BY DEF StartContainers, Playbook, AlwaysImported, Imported
<1>3. /\ pos[n] = 7 * (StepOf(n) - 1) + 5 /\ StepOf(n) \in Nat \ {0} /\ StepOf(n) \in Steps
      /\ pos[n] \in Nat /\ pos'[n] \in {pos[n], pos[n] + 1}
  BY <1>1, Moves DEF T, Start, Steps
<1>4. pos[n] > 4
  BY <1>3
<1>5. /\ host[n].hashed = host[n].plain /\ host[n].conf = host[n].plain /\ host[n].plain # Mixed
      /\ AlwaysImported => host[n].plain = want
  BY <1>1, <1>3, <1>4 DEF HostInv, Generate, Write
<1>6. /\ host'[n].json = host[n].json /\ host'[n].plain = host[n].plain
      /\ host'[n].hashed = host[n].hashed /\ host'[n].conf = host[n].conf
      /\ \A s \in Steps : host'[n].up[s] \in {host[n].up[s], <<host[n].hashed, host[n].conf>>}
      /\ \A s \in Steps : s # StepOf(n) => host'[n].up[s] = host[n].up[s]
      /\ pos'[n] # pos[n] => host'[n].up[StepOf(n)] = <<host[n].hashed, host[n].conf>>
  <2> DEFINE new == [host[n] EXCEPT !.up[StepOf(n)] = <<host[n].hashed, host[n].conf>>]
  <2>1. host[n] \in Host
    BY PutOnHost
  <2>2. /\ new.json = host[n].json /\ new.plain = host[n].plain
        /\ new.hashed = host[n].hashed /\ new.conf = host[n].conf
        /\ new.up = [host[n].up EXCEPT ![StepOf(n)] = <<host[n].hashed, host[n].conf>>]
    BY <2>1 DEF Host
  <2>3. host[n].up \in [Steps -> Contents \X Contents]
    BY <2>1 DEF Host
  <2>4. /\ \A s \in Steps : new.up[s] \in {host[n].up[s], <<host[n].hashed, host[n].conf>>}
        /\ \A s \in Steps : s # StepOf(n) => new.up[s] = host[n].up[s]
        /\ new.up[StepOf(n)] = <<host[n].hashed, host[n].conf>>
    BY <2>2, <2>3, <1>3
  <2>5. /\ host'[n] \in {host[n], new}
        /\ pos'[n] # pos[n] => host'[n] = new
    BY PutOnHost DEF StartContainers, Fails
  <2> QED
    BY <2>2, <2>4, <2>5
<1>7. \A s \in Steps : host'[n].up[s][1] = host'[n].up[s][2] /\ host'[n].up[s][1] # Mixed
  BY <1>5, <1>6 DEF HostInv
<1>8. AlwaysImported => \A s \in Steps : pos'[n] > T * (s - 1) + Start => host'[n].up[s] = <<want, want>>
  <2> SUFFICES ASSUME AlwaysImported, NEW s \in Steps, pos'[n] > T * (s - 1) + Start
               PROVE  host'[n].up[s] = <<want, want>>
    OBVIOUS
  <2>1. CASE pos[n] > T * (s - 1) + Start
    <3>1. host[n].up[s] = <<want, want>>
      BY <2>1 DEF HostInv
    <3> QED
      BY <3>1, <1>5, <1>6
  <2>2. CASE ~(pos[n] > T * (s - 1) + Start)
    <3>1. s = StepOf(n)
      BY <2>2, <1>1, Passes
    <3>2. pos'[n] # pos[n]
      BY <2>2
    <3> QED
      BY <3>1, <3>2, <1>5, <1>6
  <2> QED
    BY <2>1, <2>2
<1>9. (pos'[n] > Check => pos[n] > Check) /\ pos[n] > Generate /\ pos[n] > Write
  BY <1>3, <1>4 DEF Check, Generate, Write
<1> QED
  BY <1>2, <1>5, <1>6, <1>7, <1>8, <1>9 DEF HostInv

(***************************************************************************)
(* The invariant                                                           *)
(***************************************************************************)

\* A task keeps the bootstrap tasks in order: they are given to the bootstrap host
\* when every host is at or past them, and when it is past them they have run.
LEMMA TasksKeepOrder ==
  ASSUME OrderInv, ContentsInv, NEW n \in Nodes, HostTask(n)
  PROVE  TasksInOrder' /\ TasksRan'
<1>1. PICK t \in 0 .. 6 : Given(n, t) /\ UNCHANGED Playbook /\ (Done(n) \/ Fails(n))
  BY TaskIsGiven
<1>2. /\ pos \in [Nodes -> Nat] /\ StepOf(n) \in Steps /\ Steps \subseteq Nat
      /\ pos[n] = T * (StepOf(n) - 1) + t
      /\ \A m \in Nodes : m # n => pos'[m] = pos[m]
      /\ pos'[n] \in {pos[n], pos[n] + 1}
  BY <1>1, Moves
<1>3. /\ live \subseteq Nodes /\ live' = live /\ mode' = mode /\ ident' = ident
      /\ \A m \in live : pos'[m] >= pos[m] /\ pos[m] >= pos[n]
  BY <1>1, <1>2 DEF Playbook, Given, OrderInv, TypeOK
<1>4. TasksInOrder /\ TasksRan
  BY ContentsByHost
<1>5. CASE UNCHANGED <<fact, execs>> /\ ~BootstrapTasks(n)
  <2>1. TasksInOrder'
    BY <1>2, <1>3, <1>4, <1>5 DEF TasksInOrder, T, Tasks
  <2>2. ASSUME mode = "deploy", ident, NEW s \in Steps, Boot[s] \in live, pos'[Boot[s]] > T * (s - 1) + Tasks
        PROVE  pos[Boot[s]] > T * (s - 1) + Tasks
    <3>1. CASE Boot[s] # n
      BY <3>1, <2>2, <1>2, <1>3
    <3>2. CASE Boot[s] = n
      <4> SUFFICES ASSUME ~(pos[n] > T * (s - 1) + Tasks) PROVE FALSE
        BY <3>2
      <4>1. Given(n, Tasks) /\ Imported(n)
        BY <1>1, <2>2, <3>2, Passes DEF Tasks, Imported
      <4>2. TaskOf(n) = 6 /\ ~StepOneOnly(6)
        BY <4>1 DEF Given, Tasks, StepOneOnly, Write, Generate
      <4> QED
        BY <4>1, <4>2, <1>5 DEF HostTask, RoleTasks, CheckConfigs, Skip, WriteConfigs, HostPuppet,
           GenerateConfig, StartContainers, Runs, Given, Role, Check, Write, Puppet, Generate, Start
    <3> QED
      BY <3>1, <3>2
  <2>3. TasksRan'
    BY <1>3, <1>4, <1>5, <2>2 DEF TasksRan
  <2> QED
    BY <2>1, <2>3
<1>6. CASE BootstrapTasks(n)
  <2>1. t = Tasks
    BY <1>1, <1>6 DEF BootstrapTasks, Runs, Given
  <2>2. PICK E \in SUBSET Calculated(n) :
          /\ execs' = [s \in Steps |-> IF s \in E THEN execs[s] + 1 ELSE execs[s]]
          /\ (E = Calculated(n) /\ Done(n)) \/ Fails(n)
    BY <1>6 DEF BootstrapTasks
  <2>3. fact' = [fact EXCEPT ![n] = Calculated(n)] /\ fact \in [Nodes -> SUBSET Steps]
        /\ execs \in [Steps -> Nat]
    BY <1>6 DEF BootstrapTasks, OrderInv, TypeOK
  <2>4. \A s \in Calculated(n) : s \in fact[n] \/ s = StepOf(n)
    BY DEF Calculated
  <2>5. TasksInOrder'
    <3> SUFFICES ASSUME mode = "deploy", NEW s \in Steps,
                        execs'[s] > 0 \/ (\E m \in Nodes : s \in fact'[m]),
                        NEW m \in live
                 PROVE  pos'[m] >= T * (s - 1) + Tasks
      BY <1>3 DEF TasksInOrder
    <3>1. execs[s] > 0 \/ (\E o \in Nodes : s \in fact[o]) \/ s = StepOf(n)
      BY <2>2, <2>3, <2>4
    <3>2. CASE s = StepOf(n)
      BY <3>2, <1>2, <1>3, <2>1 DEF T, Tasks
    <3>3. CASE execs[s] > 0 \/ \E o \in Nodes : s \in fact[o]
      BY <3>3, <1>2, <1>3, <1>4 DEF TasksInOrder, T, Tasks
    <3> QED
      BY <3>1, <3>2, <3>3
  <2>6. TasksRan'
    <3> SUFFICES ASSUME mode = "deploy", ident, NEW s \in Steps, Boot[s] \in live,
                        pos'[Boot[s]] > T * (s - 1) + Tasks
                 PROVE  execs'[s] > 0
      BY <1>3 DEF TasksRan
    <3>1. CASE pos[Boot[s]] > T * (s - 1) + Tasks
      <4>1. execs[s] > 0
        BY <3>1, <1>4 DEF TasksRan
      <4> QED
        BY <4>1, <2>2, <2>3
    <3>2. CASE ~(pos[Boot[s]] > T * (s - 1) + Tasks)
      <4>1. Boot[s] = n
        BY <3>2, <1>2, <1>3
      <4>2. s = StepOf(n) /\ Done(n)
        BY <4>1, <3>2, <1>1, Passes DEF Tasks
      <4>3. s \in Calculated(n)
        BY <4>1, <4>2 DEF Calculated
      <4>4. s \in E
        BY <4>2, <4>3, <2>2, <1>2, <3>2, <4>1 DEF Fails
      <4> QED
        BY <4>4, <2>2, <2>3
    <3> QED
      BY <3>1, <3>2
  <2> QED
    BY <2>5, <2>6
<1> QED
  BY <1>5, <1>6 DEF HostTask, RoleTasks, CheckConfigs, Skip, WriteConfigs, HostPuppet,
                    GenerateConfig, StartContainers

\* Every task of a host keeps the invariant.
LEMMA TaskContents ==
  ASSUME OrderInv, ContentsInv, NEW n \in Nodes, HostTask(n)
  PROVE  ContentsInv'
<1>1. HostInv(n)'
  BY ContentsByHost, QuietTasks, CheckConfigsTask, WriteConfigsTask, GenerateConfigTask,
     StartContainersTask DEF HostTask
<1>2. \A m \in Nodes : HostInv(m)'
  BY <1>1, OtherHosts
<1>3. mode # "idle" /\ result' = result
  BY TaskIsGiven DEF OrderInv, IdleIsClean, Given, Playbook
<1>4. SuccessIsComplete'
  BY <1>3 DEF OrderInv, IdleIsClean, SuccessIsComplete
<1>5. (\A m \in Nodes : HostInv(m))' /\ TasksInOrder' /\ TasksRan'
  BY <1>2, TasksKeepOrder
<1>6. ContentsInv' <=> (\A m \in Nodes : HostInv(m))' /\ TasksInOrder' /\ TasksRan' /\ SuccessIsComplete'
  BY DEF ContentsInv, HostInv, SkipsJson, Generated, ContainersAsWanted, ContainersConsistent
<1> QED
  BY <1>4, <1>5, <1>6

\* The end of a playbook: success means that every host is through.
LEMMA StopContents ==
  ASSUME OrderInv, ContentsInv, NEW r, Stop(r),
         r = "deployed" => mode = "deploy" /\ \A n \in Nodes : pos[n] = Last,
         r = "updated" => mode = "update" /\ \A n \in Nodes : pos[n] = Last
  PROVE  ContentsInv'
<1>1. /\ mode' = "idle" /\ pos' = [n \in Nodes |-> 0] /\ execs' = [s \in Steps |-> 0]
      /\ fact' = [n \in Nodes |-> {}]
      /\ host' = host /\ want' = want /\ ident' = ident /\ result' = r
  BY DEF Stop
<1>2. SkipsJson' /\ Generated' /\ ContainersAsWanted' /\ TasksInOrder' /\ TasksRan'
  BY <1>1 DEF SkipsJson, Generated, ContainersAsWanted, TasksInOrder, TasksRan, AlwaysImported, Check, Write, Generate
<1>3. ContainersConsistent'
  BY <1>1 DEF ContentsInv, ContainersConsistent
<1>4. SuccessIsComplete'
  <2> SUFFICES ASSUME (r = "deployed" /\ ident) \/ r = "updated", NEW n \in Nodes, NEW s \in Steps
               PROVE  host[n].up[s] = <<want, want>>
    BY <1>1 DEF SuccessIsComplete
  <2>1. AlwaysImported /\ pos[n] = Last
    BY DEF AlwaysImported
  <2>2. Last > T * (s - 1) + Start
    BY DeployAssumption DEF Last, T, Start, Steps
  <2> QED
    BY <2>1, <2>2 DEF ContentsInv, ContainersAsWanted
<1> QED
  BY <1>2, <1>3, <1>4 DEF ContentsInv

\* A step that leaves the positions and the hosts alone, and no host that was not in
\* the play of a deployment joins it.
LEMMA PlayContents ==
  ASSUME OrderInv, ContentsInv, UNCHANGED <<mode, result, want, ident, pos, exists, fact, execs, host>>,
         mode = "deploy" => live' = live
  PROVE  ContentsInv'
  BY DEF ContentsInv, SkipsJson, Generated, ContainersAsWanted, TasksInOrder, TasksRan,
         ContainersConsistent, SuccessIsComplete, Imported, AlwaysImported

\* The initial states satisfy the invariant.
LEMMA InitContents == Init => ContentsInv
<1> SUFFICES ASSUME Init PROVE ContentsInv
  OBVIOUS
<1>1. SkipsJson /\ Generated /\ ContainersAsWanted /\ TasksInOrder /\ TasksRan /\ SuccessIsComplete
  BY DEF Init, SkipsJson, Generated, ContainersAsWanted, TasksInOrder, TasksRan, SuccessIsComplete,
         AlwaysImported, Check, Write, Generate
<1>2. ContainersConsistent
  BY DEF Init, ContainersConsistent, NewHost, Mixed
<1> QED
  BY <1>1, <1>2 DEF ContentsInv

\* Every step keeps it.
LEMMA NextContents == OrderInv /\ ContentsInv /\ [Next]_vars => ContentsInv'
<1> SUFFICES ASSUME OrderInv, ContentsInv, [Next]_vars PROVE ContentsInv'
  OBVIOUS
<1>1. CASE Deploy \/ Update
  <2>1. /\ pos = [n \in Nodes |-> 0] /\ result' = "none" /\ live' \subseteq Nodes
        /\ execs = [s \in Steps |-> 0] /\ fact = [n \in Nodes |-> {}]
        /\ UNCHANGED <<pos, exists, fact, execs, host>>
    BY <1>1 DEF Deploy, Update, NewPlaybook, OrderInv, IdleIsClean
  <2>2. SkipsJson' /\ Generated' /\ SuccessIsComplete'
    BY <2>1 DEF SkipsJson, Generated, SuccessIsComplete, Check, Write, Generate
  <2>3. ContainersConsistent'
    BY <2>1 DEF ContentsInv, ContainersConsistent
  <2>4. ContainersAsWanted' /\ TasksRan'
    BY <2>1 DEF ContainersAsWanted, TasksRan, Write, Start, Tasks, T, Steps
  <2>5. TasksInOrder'
    BY <2>1 DEF TasksInOrder
  <2> QED
    BY <2>2, <2>3, <2>4, <2>5 DEF ContentsInv
<1>2. CASE Interrupt \/ PlayFails
  BY <1>2, StopContents DEF Interrupt, PlayFails
<1>3. CASE PlayEnds
  <2>1. CASE waiting = {}
    <3> DEFINE r == IF \E n \in Nodes : pos[n] # Last THEN "partial"
                    ELSE IF mode = "deploy" THEN "deployed" ELSE "updated"
    <3>1. Stop(r) /\ mode \in {"deploy", "update"}
      BY <1>3, <2>1 DEF PlayEnds, OrderInv, TypeOK
    <3>2. /\ r = "deployed" => mode = "deploy" /\ \A n \in Nodes : pos[n] = Last
          /\ r = "updated" => mode = "update" /\ \A n \in Nodes : pos[n] = Last
      BY <3>1
    <3> HIDE DEF r
    <3> QED
      BY <3>1, <3>2, StopContents
  <2>2. CASE waiting # {}
    <3>1. UNCHANGED <<mode, result, want, ident, pos, exists, fact, execs, host>>
      BY <1>3, <2>2 DEF PlayEnds
    <3>2. mode # "deploy"
      BY <2>2 DEF OrderInv, IdleIsClean
    <3> QED
      BY <3>1, <3>2, PlayContents
  <2> QED
    BY <2>1, <2>2
<1>4. CASE ExternalStep
  BY <1>4, StopContents, PlayContents DEF ExternalStep
<1>5. CASE \E n \in Nodes : HostTask(n)
  BY <1>5, TaskContents
<1>6. CASE UNCHANGED vars
  BY <1>6, PlayContents DEF vars
<1> QED
  BY <1>1, <1>2, <1>3, <1>4, <1>5, <1>6 DEF Next, Ansible

\* The inductive invariant holds in every reachable state.
THEOREM Invariance == Spec => []IInv
<1>1. Init => IInv
  BY InitOrder, InitContents DEF IInv
<1>2. IInv /\ [Next]_vars => IInv'
  BY NextOrder, NextContents DEF IInv
<1> QED
  BY <1>1, <1>2, PTL DEF Spec

\* Containers only ever run with a configuration made in full from the parameters of
\* their definition, for any number of hosts, steps and changes of the parameters.
THEOREM Consistent == Spec => []ContainersConsistent
<1>1. IInv => ContainersConsistent
  BY DEF IInv, ContentsInv
<1> QED
  BY <1>1, Invariance, PTL

\* A playbook that reports success has brought every host to the wanted parameters.
THEOREM Complete == Spec => []SuccessIsComplete
<1>1. IInv => SuccessIsComplete
  BY DEF IInv, ContentsInv
<1> QED
  BY <1>1, Invariance, PTL

\* A step's bootstrap tasks find its containers up on all the hosts.
THEOREM AfterContainers == Spec => []BootstrapAfterContainers
<1>1. IInv => BootstrapAfterContainers
  <2> SUFFICES ASSUME IInv, mode = "deploy", ident, NEW s \in Steps, execs[s] > 0, NEW n \in live
               PROVE  host[n].up[s] = <<want, want>>
    BY DEF BootstrapAfterContainers
  <2>1. pos[n] >= T * (s - 1) + Tasks /\ n \in Nodes /\ pos[n] \in Nat
    BY DEF IInv, ContentsInv, TasksInOrder, OrderInv, TypeOK, Last
  <2>2. pos[n] > T * (s - 1) + Start
    BY <2>1 DEF T, Tasks, Start, Steps
  <2> QED
    BY <2>1, <2>2 DEF IInv, ContentsInv, ContainersAsWanted, AlwaysImported
<1> QED
  BY <1>1, Invariance, PTL

\* They have run before any host begins the next step.
THEOREM BeforeNextStep == Spec => []BootstrapBeforeNextStep
<1>1. IInv => BootstrapBeforeNextStep
  <2> SUFFICES ASSUME IInv, mode = "deploy", ident, NEW s \in Steps, Boot[s] \in live,
                      NEW n \in live, pos[n] > T * s
               PROVE  execs[s] > 0
    BY DEF BootstrapBeforeNextStep
  <2>1. pos[n] <= pos[Boot[s]] + 1 /\ pos[n] \in Nat /\ pos[Boot[s]] \in Nat
    BY DEF IInv, OrderInv, Together, TypeOK, Last
  <2>2. pos[Boot[s]] > T * (s - 1) + Tasks
    BY <2>1 DEF T, Tasks, Steps
  <2> QED
    BY <2>2 DEF IInv, ContentsInv, TasksRan
<1> QED
  BY <1>1, Invariance, PTL

\* The bootstrap host's tasks stand between the containers of their step and the next one.
THEOREM Bootstrapped == Spec => []BootstrapInOrder
  BY AfterContainers, BeforeNextStep, PTL DEF BootstrapInOrder

\* An update is rolling, for any number of hosts.
THEOREM Rolling == Spec => []RollingUpdate
<1>1. IInv => RollingUpdate
  BY DEF IInv, OrderInv, OneAtATime, RollingUpdate, Last
<1> QED
  BY <1>1, Invariance, PTL

\* A host that fails its update is the last one the playbook touches.
THEOREM FailureStops == Spec => FailureStopsUpdate
<1>1. ASSUME IInv, [Next]_vars, mode = "update", failed # {}, NEW m \in Nodes \ live
      PROVE  m \notin live' /\ host'[m] = host[m]
  <2>1. ~Deploy /\ ~Update /\ ~PlayEnds /\ ~ExternalStep
    BY <1>1 DEF Deploy, Update, NewPlaybook, PlayEnds, ExternalStep
  <2>2. CASE \E r : Stop(r)
    BY <2>2 DEF Stop
  <2>3. CASE UNCHANGED vars
    BY <1>1, <2>3 DEF vars
  <2>4. CASE \E n \in Nodes : HostTask(n)
    <3>1. PICK n \in Nodes : HostTask(n)
      BY <2>4
    <3>2. n \in live /\ live' = live
      BY <3>1, TaskIsGiven DEF Given, Playbook
    <3>3. m # n /\ host \in [Nodes -> Host]
      BY <1>1, <3>2 DEF IInv, OrderInv, TypeOK
    <3>4. host'[m] = host[m]
      BY <3>1, <3>3 DEF HostTask, RoleTasks, CheckConfigs, Skip, WriteConfigs, HostPuppet,
                        GenerateConfig, StartContainers, BootstrapTasks, OnHost
    <3> QED
      BY <1>1, <3>2, <3>4
  <2> QED
    BY <1>1, <2>1, <2>2, <2>3, <2>4 DEF Next, Ansible, Interrupt, PlayFails
<1>2. IInv /\ [Next]_vars =>
        [mode = "update" /\ failed # {} => \A n \in Nodes \ live : n \notin live' /\ host'[n] = host[n]]_vars
  BY <1>1
<1> QED
  BY <1>2, Invariance, PTL DEF Spec, FailureStopsUpdate

\* The serial play: one host at a time, and none after one that failed.
THEOREM RollsOneByOne == Spec => UpdateIsRolling
  BY Rolling, FailureStops, PTL DEF UpdateIsRolling
=============================================================================
