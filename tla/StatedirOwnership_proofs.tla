---------------------- MODULE StatedirOwnership_proofs ----------------------
(***************************************************************************)
(* For any hosts and any trees: when nova_compute runs in its container    *)
(* nothing in its state directory is of the old user or group, and no walk *)
(* takes a file from qemu or root.                                         *)
(***************************************************************************)
EXTENDS StatedirOwnership, TLAPS

(***************************************************************************)
(* What a walk comes to                                                    *)
(***************************************************************************)
Existing == {o \in Objects : Exists(o)}

\* What is in directory d, of the objects E.
In(E, d) == {o \in E : d \in Parent[o]}

\* What a walk comes to that has the objects A in its list, if the objects E exist: the
\* least set that contains them, and with a directory what is in it.
Closed(E, S) == \A d \in S : In(E, d) \subseteq S
Reach(E, A) == {o \in Objects : \A S \in SUBSET Objects : A \subseteq S /\ Closed(E, S) => o \in S}

\* A listed object is come to.
LEMMA ReachHas ==
  ASSUME NEW E, NEW A \in SUBSET Objects
  PROVE  A \subseteq Reach(E, A)
BY DEF Reach

\* What is in a directory that is come to is come to.
LEMMA ReachStep ==
  ASSUME NEW E \in SUBSET Objects, NEW A \in SUBSET Objects, NEW d \in Reach(E, A)
  PROVE  In(E, d) \subseteq Reach(E, A)
BY DEF Reach, Closed, In

\* An empty list leads nowhere.
LEMMA ReachNothing ==
  ASSUME NEW E
  PROVE  Reach(E, {}) = {}
<1>1. Closed(E, {}) /\ {} \in SUBSET Objects
  BY DEF Closed
<1> QED
  BY <1>1 DEF Reach

\* To visit an object and to list what is in it loses nothing else.
LEMMA ReachVisited ==
  ASSUME NEW E \in SUBSET Objects, NEW A \in SUBSET Objects, NEW d \in A
  PROVE  Reach(E, A) \subseteq Reach(E, (A \ {d}) \cup In(E, d)) \cup {d}
<1> SUFFICES ASSUME NEW o \in Reach(E, A), o # d, NEW S \in SUBSET Objects,
                    (A \ {d}) \cup In(E, d) \subseteq S, Closed(E, S)
             PROVE  o \in S
  BY DEF Reach
<1>1. S \cup {d} \in SUBSET Objects /\ A \subseteq S \cup {d}
  OBVIOUS
<1>2. Closed(E, S \cup {d})
  BY DEF Closed
<1>3. o \in S \cup {d}
  BY <1>1, <1>2 DEF Reach
<1> QED
  BY <1>3

\* A new object only adds to what is come to.
LEMMA ReachGrows ==
  ASSUME NEW E, NEW F, E \subseteq F, NEW A
  PROVE  Reach(E, A) \subseteq Reach(F, A)
<1>1. \A S \in SUBSET Objects : Closed(F, S) => Closed(E, S)
  BY DEF Closed, In
<1> QED
  BY <1>1 DEF Reach

\* Nobody comes to anything through an object with nothing in it.
LEMMA ReachShrinks ==
  ASSUME NEW E \in SUBSET Objects, NEW d \in Objects, In(E, d) = {}, NEW A \in SUBSET Objects
  PROVE  Reach(E, A) \subseteq Reach(E \ {d}, A) \cup {d}
<1> SUFFICES ASSUME NEW o \in Reach(E, A), o # d, NEW S \in SUBSET Objects,
                    A \subseteq S, Closed(E \ {d}, S)
             PROVE  o \in S
  BY DEF Reach
<1>1. S \cup {d} \in SUBSET Objects /\ A \subseteq S \cup {d}
  OBVIOUS
<1>2. Closed(E, S \cup {d})
  <2> SUFFICES ASSUME NEW e \in S \cup {d}, NEW x \in In(E, e) PROVE x \in S \cup {d}
    BY DEF Closed
  <2>1. CASE e = d
    BY <2>1
  <2>2. CASE e \in S /\ x # d
    <3>1. x \in In(E \ {d}, e)
      BY <2>2 DEF In
    <3> QED
      BY <2>2, <3>1 DEF Closed
  <2> QED
    BY <2>1, <2>2
<1>3. o \in S \cup {d}
  BY <1>1, <1>2 DEF Reach
<1> QED
  BY <1>3

(***************************************************************************)
(* The inductive invariant                                                 *)
(***************************************************************************)
Below(h) == Tree[h] \cup {Top[h]}
OfOld(o) == owner[o].uid = "old" \/ owner[o].gid = "old"
Clean(h) == \A o \in Below(h) : Exists(o) => ~OfOld(o)

Before(h) == nova[h] \in {"old", "stopped"}

\* As long as one host is before the upgrade, no container is made; and without it a host
\* is not behind the upgrade, and does not walk.
PhaseInv ==
  \A h \in Hosts :
    /\ container[h] # "none" => \A g \in Hosts : ~Before(g)
    /\ container[h] = "none" => nova[h] \in {"old", "stopped", "marked"} /\ ~walk[h].on
    /\ container[h] = "none" /\ nova[h] = "marked" => marker[h]

\* Whatever exists can be come to from the state directory.
Connected(h) == \A o \in Tree[h] : Exists(o) => o \in Reach(Existing, {Top[h]})

\* A host that is upgraded and has no marker has nothing old; with a marker it is through
\* with step 3 only if a repeated playbook passed by its script; what an upgrading walk has
\* left is still to come, and a walk that does not upgrade has no marker.
HostClean(h) ==
  /\ ~Before(h) => marker[h] \/ Clean(h)
  /\ nova[h] \in {"migrated", "new"} /\ marker[h] => h \in skipped
  /\ walk[h].on /\ ~walk[h].upgrade => ~marker[h]
  /\ walk[h].on /\ walk[h].upgrade =>
       \A o \in Below(h) : Exists(o) /\ OfOld(o) => o \in Reach(Existing, walk[h].todo)

\* An id the walk has seen is at most out of date in one direction; and a file seen with
\* an old one is neither qemu's now nor in the tree of a nova_compute that could start
\* a guest, if no script was passed by.
VisitInv(h) ==
  visit[h] # Idle =>
    /\ Exists(visit[h].at) /\ visit[h].saw.uid # "old" => owner[visit[h].at].uid # "old"
    /\ Exists(visit[h].at) /\ visit[h].saw.gid # "old" => owner[visit[h].at].gid # "old"
    /\ visit[h].at \in Files /\ (visit[h].saw.uid = "old" \/ visit[h].saw.gid = "old") /\ skipped = {} =>
         /\ owner[visit[h].at] # By("other")
         /\ \A g \in Hosts : visit[h].at \in Tree[g] => nova[g] # "new"

WalksInv == refused = {} => \A h \in Hosts : HostClean(h) /\ VisitInv(h)

IInv == TypeOK /\ PhaseInv /\ (\A h \in Hosts : Connected(h)) /\ WalksInv

(***************************************************************************)
(* Initial state and the shape of the state                                *)
(***************************************************************************)

\* What is not there has no owner.
LEMMA Owners ==
  /\ Absent \notin Owner
  /\ \A id \in Ids : By(id) \in Owner /\ By(id).uid = id /\ By(id).gid = id
  /\ [uid |-> "other", gid |-> "old"] \in Owner
BY DEF Absent, By, Owner, Ids

\* Before the upgrade all hosts are on the old ids, and no walk is under way.
LEMMA InitInv == Init => IInv
<1> SUFFICES ASSUME Init PROVE IInv
  OBVIOUS
<1> USE DEF Init
<1>1. TypeOK
  <2>1. owner \in [Objects -> Owner \cup {Absent}]
    BY Owners DEF Ids
  <2>2. Idle \in [at : Objects \cup {"nowhere"}, saw : Owner \cup {Absent}]
    BY DEF Idle
  <2> QED
    BY <2>1, <2>2 DEF TypeOK, Off
<1>2. PhaseInv
  BY DEF PhaseInv, Before, Off
<1>3. ASSUME NEW h \in Hosts PROVE Connected(h)
  <2> SUFFICES ASSUME NEW o \in Tree[h], Exists(o), NEW S \in SUBSET Objects,
                      Top[h] \in S, Closed(Existing, S)
               PROVE  o \in S
    BY TreeAssumption DEF Connected, Reach
  <2> DEFINE T == {x \in Objects : Exists(x) => x \in S}
  <2>1. ASSUME NEW x \in Objects, Parent[x] \cap (T \cup {Top[h]}) # {}, Exists(x) PROVE x \in S
    <3>1. PICK d \in Parent[x] : d \in T \/ d = Top[h]
      BY <2>1
    <3>2. d \in Dirs /\ Exists(d)
      BY <2>1, <3>1, TreeAssumption, Owners DEF Exists, Ids, Objects
    <3>3. d \in S
      BY <3>1, <3>2
    <3>4. x \in In(Existing, d)
      BY <2>1, <3>1 DEF In, Existing
    <3> QED
      BY <3>3, <3>4 DEF Closed
  <2>2. Tree[h] \subseteq T
    <3>1. T \in SUBSET Objects /\ \A x \in Objects : Parent[x] \cap (T \cup {Top[h]}) # {} => x \in T
      BY <2>1
    <3> QED
      BY <3>1, ShareAssumption
  <2> QED
    BY <2>2
<1>4. WalksInv
  BY DEF WalksInv, HostClean, VisitInv, Off, Before
<1> QED
  BY <1>1, <1>2, <1>3, <1>4 DEF IInv

\* What exists, in the words of the model.
LEMMA Contents ==
  ASSUME TypeOK
  PROVE  /\ Existing \in SUBSET Objects
         /\ \A o \in Objects : (o \in Existing <=> Exists(o)) /\ (Exists(o) => owner[o] \in Owner)
         /\ \A d : Children(d) = In(Existing, d)
         /\ \A f \in Files : In(Existing, f) = {}
         /\ \A h \in Hosts : Below(h) \in SUBSET Objects /\ Top[h] \in Objects /\ walk[h].todo \in SUBSET Objects
<1>1. Existing \in SUBSET Objects
  BY DEF Existing
<1>2. \A o \in Objects : (o \in Existing <=> Exists(o)) /\ (Exists(o) => owner[o] \in Owner)
  BY DEF Existing, Exists, TypeOK
<1>3. \A d : Children(d) = In(Existing, d)
  BY DEF Existing, Children, In
<1>4. \A f \in Files : In(Existing, f) = {}
  BY TreeAssumption DEF In, Existing
<1>5. \A h \in Hosts : Below(h) \in SUBSET Objects /\ Top[h] \in Objects /\ walk[h].todo \in SUBSET Objects
  BY TreeAssumption DEF Below, TypeOK, Objects
<1> QED
  BY <1>1, <1>2, <1>3, <1>4, <1>5

(***************************************************************************)
(* What a step leaves as it was                                            *)
(***************************************************************************)

\* No id becomes the old one, and qemu takes files of containers' novas only.
NoOlder ==
  \A o \in Objects : Exists(o)' =>
    /\ owner'[o].uid = "old" => Exists(o) /\ owner[o].uid = "old"
    /\ owner'[o].gid = "old" => Exists(o) /\ owner[o].gid = "old"
NoneTaken ==
  \A f \in Files : owner'[f] = By("other") =>
    owner[f] = By("other") \/ \E g \in Hosts : f \in Tree[g] /\ nova[g] = "new"

\* Owners that do not change leave no host less clean.
LEMMA OwnersStay ==
  ASSUME UNCHANGED owner
  PROVE  /\ Existing' = Existing /\ NoOlder /\ NoneTaken
         /\ \A o \in Objects : Exists(o)' = Exists(o) /\ OfOld(o)' = OfOld(o)
         /\ \A h \in Hosts : (Clean(h)' <=> Clean(h)) /\ (Connected(h)' <=> Connected(h))
BY DEF Existing, Exists, NoOlder, NoneTaken, OfOld, Clean, Connected

\* A host that a step does not concern stays as clean as it was.
LEMMA HostStays ==
  ASSUME TypeOK, NEW g \in Hosts, HostClean(g), VisitInv(g), NoOlder, NoneTaken,
         \A h \in Hosts : nova'[h] = "new" => nova[h] = "new", skipped \subseteq skipped',
         nova'[g] = nova[g], marker'[g] = marker[g], walk'[g] = walk[g], visit'[g] = visit[g],
         \A o \in Objects : Exists(o)' /\ o \in Reach(Existing, walk[g].todo) => o \in Reach(Existing, walk[g].todo)'
  PROVE  HostClean(g)' /\ VisitInv(g)'
<1>1. Below(g) \in SUBSET Objects
  BY Contents
<1>2. \A o \in Objects : Exists(o)' /\ OfOld(o)' => Exists(o) /\ OfOld(o)
  BY DEF NoOlder, OfOld
<1>3. Clean(g) => Clean(g)'
  BY <1>1, <1>2 DEF Clean, Below
<1>4. HostClean(g)'
  <2>1. ASSUME walk[g].on, walk[g].upgrade, NEW o \in Below(g), Exists(o)', OfOld(o)'
        PROVE  o \in Reach(Existing, walk[g].todo)'
    BY <1>1, <1>2, <2>1 DEF HostClean
  <2>2. /\ ~Before(g)' => marker'[g] \/ Clean(g)'
        /\ nova'[g] \in {"migrated", "new"} /\ marker'[g] => g \in skipped'
        /\ walk'[g].on /\ ~walk'[g].upgrade => ~marker'[g]
    BY <1>3 DEF HostClean, Before
  <2>3. Reach(Existing, walk[g].todo)' = Reach(Existing', walk'[g].todo)
    BY DEF Reach
  <2> QED
    BY <2>1, <2>2, <2>3 DEF HostClean, Below
<1>5. VisitInv(g)'
  <2> SUFFICES ASSUME visit[g] # Idle PROVE VisitInv(g)'
    BY DEF VisitInv
  <2>1. visit[g].at \in Objects
    BY DEF TypeOK
  <2> QED
    BY <2>1 DEF VisitInv, NoOlder, NoneTaken
<1> QED
  BY <1>4, <1>5

\* While a host is before the upgrade nothing that happens in the trees matters.
LEMMA BeforeUpgrade ==
  ASSUME TypeOK, PhaseInv, NEW g \in Hosts, Before(g),
         UNCHANGED <<nova, marker, container, walk, visit, refused, skipped>>
  PROVE  WalksInv'
<1>1. \A h \in Hosts : /\ nova[h] \in {"old", "stopped", "marked"} /\ ~walk[h].on
                       /\ nova[h] = "marked" => marker[h]
                       /\ visit[h] = Idle
  BY DEF PhaseInv, TypeOK
<1> QED
  BY <1>1 DEF WalksInv, HostClean, VisitInv, Before

(***************************************************************************)
(* The playbooks                                                           *)
(***************************************************************************)
\* While no container is made hosts go back and forth before the upgrade.
LEMMA EarlyKeeps ==
  ASSUME IInv, NEW h \in Hosts, NEW n \in {"old", "stopped", "marked"},
         \A g \in Hosts : container[g] = "none", n = "marked" => marker[h],
         nova' = [nova EXCEPT ![h] = n], UNCHANGED <<owner, marker, container, walk, visit, refused, skipped>>
  PROVE  IInv'
<1>1. TypeOK'
  BY DEF IInv, TypeOK
<1>2. \A g \in Hosts : /\ nova[g] \in {"old", "stopped", "marked"} /\ ~walk[g].on
                       /\ nova[g] = "marked" => marker[g]
                       /\ visit[g] = Idle
  BY DEF IInv, PhaseInv, TypeOK
<1>3. \A g \in Hosts : /\ nova'[g] \in {"old", "stopped", "marked"}
                       /\ nova'[g] = "marked" => marker'[g]
  BY <1>2 DEF IInv, TypeOK
<1>4. PhaseInv'
  BY <1>2, <1>3 DEF PhaseInv
<1>5. \A g \in Hosts : Connected(g)'
  BY OwnersStay DEF IInv
<1>6. WalksInv'
  BY <1>2, <1>3 DEF WalksInv, HostClean, VisitInv, Before
<1> QED
  BY <1>1, <1>4, <1>5, <1>6 DEF IInv

\* The old compute service of a host is stopped, by the upgrade or with its package, or
\* comes back with its host.
LEMMA StopKeeps == \A h \in Hosts : IInv /\ (StopNova(h) \/ Restart(h) \/ RemovePackage(h)) => IInv'
<1> SUFFICES ASSUME NEW h \in Hosts, IInv, StopNova(h) \/ Restart(h) \/ RemovePackage(h) PROVE IInv'
  OBVIOUS
<1>1. \A g \in Hosts : container[g] = "none"
  BY DEF StopNova, Restart, RemovePackage, IInv, PhaseInv, Before
<1>2. PICK n \in {"old", "stopped", "marked"} :
        /\ n = "marked" => marker[h]
        /\ nova' = [nova EXCEPT ![h] = n] /\ UNCHANGED <<owner, marker, container, walk, visit, refused, skipped>>
  BY DEF StopNova, Restart, RemovePackage
<1> QED
  BY <1>1, <1>2, EarlyKeeps

\* A deployment gets an identifier of its own: nothing but the containers' age changes.
LEMMA RedeployKeeps == IInv /\ Redeploy => IInv'
<1> SUFFICES ASSUME IInv, Redeploy PROVE IInv'
  OBVIOUS
<1>1. /\ container' = [h \in Hosts |-> IF container[h] = "none" THEN "none" ELSE "earlier"]
      /\ UNCHANGED <<owner, nova, marker, walk, visit, refused, skipped>>
  BY DEF Redeploy
<1>2. TypeOK'
  BY <1>1 DEF IInv, TypeOK
<1>3. \A g \in Hosts : container'[g] = "none" <=> container[g] = "none"
  BY <1>1
<1>4. PhaseInv'
  BY <1>1, <1>3 DEF IInv, PhaseInv, Before
<1>5. \A g \in Hosts : Connected(g)'
  BY <1>1, OwnersStay DEF IInv
<1>6. WalksInv'
  <2> SUFFICES ASSUME refused = {}, NEW g \in Hosts PROVE HostClean(g)' /\ VisitInv(g)'
    BY <1>1 DEF WalksInv
  <2>1. /\ HostClean(g) /\ VisitInv(g) /\ TypeOK /\ NoOlder /\ NoneTaken /\ Existing' = Existing
        /\ Reach(Existing, walk[g].todo)' = Reach(Existing, walk[g].todo)
    BY <1>1, OwnersStay DEF IInv, WalksInv, Reach
  <2> QED
    BY <1>1, <2>1, HostStays
<1> QED
  BY <1>2, <1>4, <1>5, <1>6 DEF IInv

\* The marker is set, which names the old ids to the walk.
LEMMA MarkKeeps == \A h \in Hosts : IInv /\ SetMarker(h) => IInv'
<1> SUFFICES ASSUME NEW h \in Hosts, IInv, SetMarker(h) PROVE IInv'
  OBVIOUS
<1>1. /\ nova[h] \in {"stopped", "marked"} /\ ~walk[h].on
      /\ nova' = [nova EXCEPT ![h] = "marked"] /\ marker' = [marker EXCEPT ![h] = TRUE]
      /\ UNCHANGED <<owner, container, walk, visit, refused, skipped>>
  BY DEF SetMarker
<1>2. TypeOK'
  BY <1>1 DEF IInv, TypeOK
<1>3. nova'[h] = "marked" /\ marker'[h] = TRUE /\ visit[h] = Idle
      /\ \A g \in Hosts : g # h => nova'[g] = nova[g] /\ marker'[g] = marker[g]
  BY <1>1 DEF IInv, TypeOK
<1>4. PhaseInv'
  BY <1>1, <1>3 DEF PhaseInv, Before, IInv
<1>5. \A g \in Hosts : Connected(g)'
  BY <1>1, OwnersStay DEF IInv
<1>6. WalksInv'
  <2> SUFFICES ASSUME refused = {}, NEW g \in Hosts PROVE HostClean(g)' /\ VisitInv(g)'
    BY <1>1 DEF WalksInv
  <2>1. CASE g = h
    BY <1>1, <1>3, <2>1 DEF HostClean, VisitInv
  <2>2. CASE g # h
    <3>1. HostClean(g) /\ VisitInv(g) /\ TypeOK /\ NoOlder /\ NoneTaken /\ Existing' = Existing
      BY <1>1, OwnersStay DEF IInv, WalksInv
    <3>2. /\ nova'[g] = nova[g] /\ marker'[g] = marker[g] /\ walk'[g] = walk[g] /\ visit'[g] = visit[g]
          /\ \A x \in Hosts : nova'[x] = "new" => nova[x] = "new"
      BY <1>1, <1>3, <2>2
    <3>3. Reach(Existing, walk[g].todo)' = Reach(Existing, walk[g].todo)
      BY <3>1, <3>2 DEF Reach
    <3> QED
      BY <1>1, <3>1, <3>2, <3>3, HostStays
  <2> QED
    BY <2>1, <2>2
<1> QED
  BY <1>2, <1>4, <1>5, <1>6 DEF IInv

\* nova_statedir_ownership.py starts: it reads the marker and begins at the top.
LEMMA LaunchKeeps == \A h \in Hosts : IInv /\ Launch(h) => IInv'
<1> SUFFICES ASSUME NEW h \in Hosts, IInv, Launch(h) PROVE IInv'
  OBVIOUS
<1> DEFINE w == [on |-> TRUE, upgrade |-> marker[h], todo |-> {Top[h]}]
<1>1. /\ \A g \in Hosts : ~Before(g)
      /\ ~walk[h].on /\ walk' = [walk EXCEPT ![h] = w]
      /\ container' = [container EXCEPT ![h] = "current"]
      /\ UNCHANGED <<owner, nova, marker, visit, refused, skipped>>
  BY DEF Launch, Upgraded, Before
<1>2. /\ w.on = TRUE /\ w.upgrade = marker[h] /\ w.todo = {Top[h]}
      /\ w \in [on : BOOLEAN, upgrade : BOOLEAN, todo : SUBSET Objects] /\ visit[h] = Idle
  <2>1. {Top[h]} \in SUBSET Objects /\ marker[h] \in BOOLEAN
    BY Contents DEF IInv, TypeOK
  <2>2. visit[h] = Idle
    BY <1>1 DEF IInv, TypeOK
  <2> QED
    BY <2>1, <2>2
<1> HIDE DEF w
<1>3. walk'[h] = w /\ \A g \in Hosts : g # h => walk'[g] = walk[g]
  BY <1>1 DEF IInv, TypeOK
<1>4. TypeOK'
  <2>1. walk' \in [Hosts -> [on : BOOLEAN, upgrade : BOOLEAN, todo : SUBSET Objects]]
    BY <1>1, <1>2 DEF IInv, TypeOK
  <2>2. \A g \in Hosts : visit[g] = Idle \/ (walk'[g].on /\ visit[g].at \in walk'[g].todo /\ visit[g].saw \in Owner)
    BY <1>2, <1>3 DEF IInv, TypeOK
  <2> QED
    BY <1>1, <2>1, <2>2 DEF IInv, TypeOK
<1>5. PhaseInv'
  <2>1. container'[h] = "current" /\ \A g \in Hosts : g # h => container'[g] = container[g]
    BY <1>1 DEF IInv, TypeOK
  <2> QED
    BY <1>1, <1>3, <2>1 DEF IInv, PhaseInv, Before
<1>6. \A g \in Hosts : Connected(g)'
  BY <1>1, OwnersStay DEF IInv
<1>7. WalksInv'
  <2> SUFFICES ASSUME refused = {}, NEW g \in Hosts PROVE HostClean(g)' /\ VisitInv(g)'
    BY <1>1 DEF WalksInv
  <2>1. HostClean(g) /\ VisitInv(g) /\ TypeOK /\ NoOlder /\ NoneTaken /\ Existing' = Existing
    BY <1>1, OwnersStay DEF IInv, WalksInv
  <2>2. CASE g = h
    <3>1. Clean(h)' <=> Clean(h)
      BY <1>1, OwnersStay
    <3>3. ASSUME NEW o \in Below(h), Exists(o)' PROVE o \in Reach(Existing, walk[h].todo)'
      <4>1. Reach(Existing, walk[h].todo)' = Reach(Existing, {Top[h]})
        BY <1>2, <1>3, <2>1 DEF Reach
      <4>2. Top[h] \in Reach(Existing, {Top[h]})
        BY <2>1, Contents, ReachHas
      <4>3. o \in Tree[h] => o \in Reach(Existing, {Top[h]})
        BY <1>1, <3>3 DEF IInv, Connected, Exists
      <4> QED
        BY <4>1, <4>2, <4>3 DEF Below
    <3>4. HostClean(h)'
      BY <1>1, <1>2, <1>3, <2>1, <2>2, <3>1, <3>3 DEF HostClean, Below, Before
    <3> QED
      BY <1>1, <1>2, <2>2, <3>4 DEF VisitInv
  <2>3. CASE g # h
    <3>1. /\ nova'[g] = nova[g] /\ marker'[g] = marker[g] /\ walk'[g] = walk[g] /\ visit'[g] = visit[g]
          /\ \A x \in Hosts : nova'[x] = "new" => nova[x] = "new"
      BY <1>1, <1>3, <2>3
    <3>2. Reach(Existing, walk[g].todo)' = Reach(Existing, walk[g].todo)
      BY <2>1, <3>1 DEF Reach
    <3> QED
      BY <1>1, <2>1, <3>1, <3>2, HostStays
  <2> QED
    BY <2>2, <2>3
<1> QED
  BY <1>4, <1>5, <1>6, <1>7 DEF IInv

\* Step 3 is passed behind a failed script: the host is noted, if its marker is there.
LEMMA SkipKeeps == \A h \in Hosts : IInv /\ SkipWalk(h) => IInv'
<1> SUFFICES ASSUME NEW h \in Hosts, IInv, SkipWalk(h) PROVE IInv'
  OBVIOUS
<1>1. /\ nova[h] = "marked" /\ container[h] = "current" /\ ~walk[h].on
      /\ nova' = [nova EXCEPT ![h] = "migrated"]
      /\ skipped' = (IF marker[h] THEN skipped \cup {h} ELSE skipped)
      /\ UNCHANGED <<owner, marker, container, walk, visit, refused>>
  BY DEF SkipWalk
<1>2. TypeOK' /\ skipped \subseteq skipped' /\ (marker[h] => h \in skipped')
  BY <1>1 DEF IInv, TypeOK
<1>3. nova'[h] = "migrated" /\ visit[h] = Idle /\ \A g \in Hosts : g # h => nova'[g] = nova[g]
  BY <1>1 DEF IInv, TypeOK
<1>4. PhaseInv'
  BY <1>1, <1>3 DEF PhaseInv, Before, IInv
<1>5. \A g \in Hosts : Connected(g)'
  BY <1>1, OwnersStay DEF IInv
<1>6. WalksInv'
  <2> SUFFICES ASSUME refused = {}, NEW g \in Hosts PROVE HostClean(g)' /\ VisitInv(g)'
    BY <1>1 DEF WalksInv
  <2>1. HostClean(g) /\ VisitInv(g) /\ TypeOK /\ NoOlder /\ NoneTaken /\ Existing' = Existing
    BY <1>1, OwnersStay DEF IInv, WalksInv
  <2>2. CASE g = h
    <3>1. Clean(h)' <=> Clean(h)
      BY <1>1, OwnersStay
    <3> QED
      BY <1>1, <1>2, <1>3, <2>1, <2>2, <3>1 DEF HostClean, VisitInv, Before
  <2>3. CASE g # h
    <3>1. /\ nova'[g] = nova[g] /\ marker'[g] = marker[g] /\ walk'[g] = walk[g] /\ visit'[g] = visit[g]
          /\ \A x \in Hosts : nova'[x] = "new" => nova[x] = "new"
      BY <1>1, <1>3, <2>3
    <3>2. Reach(Existing, walk[g].todo)' = Reach(Existing, walk[g].todo)
      BY <2>1, <3>1 DEF Reach
    <3> QED
      BY <1>2, <2>1, <3>1, <3>2, HostStays
  <2> QED
    BY <2>2, <2>3
<1> QED
  BY <1>2, <1>4, <1>5, <1>6 DEF IInv

\* nova_compute starts in its container, on a host that is through with step 3.
LEMMA StartKeeps == \A h \in Hosts : IInv /\ StartNova(h) => IInv'
<1> SUFFICES ASSUME NEW h \in Hosts, IInv, StartNova(h) PROVE IInv'
  OBVIOUS
<1>1. /\ nova[h] = "migrated" /\ \A g \in Hosts : ~walk[g].on
      /\ nova' = [nova EXCEPT ![h] = "new"]
      /\ UNCHANGED <<owner, marker, container, walk, visit, refused, skipped>>
  BY DEF StartNova
<1>2. TypeOK'
  BY <1>1 DEF IInv, TypeOK
<1>3. nova'[h] = "new" /\ \A g \in Hosts : visit[g] = Idle /\ (g # h => nova'[g] = nova[g])
  BY <1>1 DEF IInv, TypeOK
<1>4. PhaseInv'
  BY <1>1, <1>3 DEF PhaseInv, Before, IInv
<1>5. \A g \in Hosts : Connected(g)' /\ (Clean(g)' <=> Clean(g))
  BY <1>1, OwnersStay DEF IInv
<1>6. WalksInv'
  BY <1>1, <1>3, <1>5 DEF WalksInv, HostClean, VisitInv, IInv, Before
<1> QED
  BY <1>2, <1>4, <1>5, <1>6 DEF IInv

(***************************************************************************)
(* The script                                                              *)
(***************************************************************************)

\* However a walk ends, the host has what it had before.
LEMMA EndsKeeps == \A h \in Hosts : IInv /\ walk[h].on /\ Ends(h) => IInv'
<1> SUFFICES ASSUME NEW h \in Hosts, IInv, walk[h].on, Ends(h) PROVE IInv'
  OBVIOUS
<1> DEFINE n == IF nova[h] = "migrated" THEN "marked" ELSE nova[h]
<1>1. /\ walk' = [walk EXCEPT ![h] = Off] /\ visit' = [visit EXCEPT ![h] = Idle]
      /\ nova' = [nova EXCEPT ![h] = n]
      /\ UNCHANGED <<owner, marker, container, refused, skipped>>
  BY DEF Ends
<1>2. /\ Off \in [on : BOOLEAN, upgrade : BOOLEAN, todo : SUBSET Objects] /\ Off.on = FALSE
      /\ n \in {"marked", nova[h]} /\ n \in {"old", "stopped", "marked", "migrated", "new"}
      /\ n = "marked" => nova[h] \in {"marked", "migrated"}
      /\ n \in {"migrated", "new"} => nova[h] = n
  BY DEF Off, IInv, TypeOK
<1> HIDE DEF n
<1>3. /\ walk'[h] = Off /\ nova'[h] = n
      /\ visit'[h] = Idle
      /\ \A g \in Hosts : g # h => walk'[g] = walk[g] /\ nova'[g] = nova[g] /\ visit'[g] = visit[g]
  <2>1. walk'[h] = Off /\ nova'[h] = n /\ visit'[h] = Idle
    BY <1>1 DEF IInv, TypeOK
  <2>2. \A g \in Hosts : g # h => walk'[g] = walk[g] /\ nova'[g] = nova[g] /\ visit'[g] = visit[g]
    BY <1>1 DEF IInv, TypeOK
  <2> QED
    BY <2>1, <2>2
<1>4. Idle \in [at : Objects \cup {"nowhere"}, saw : Owner \cup {Absent}]
  BY DEF Idle
<1>5. TypeOK'
  <2>1. walk' \in [Hosts -> [on : BOOLEAN, upgrade : BOOLEAN, todo : SUBSET Objects]]
    BY <1>1, <1>2 DEF IInv, TypeOK
  <2>2. /\ visit' \in [Hosts -> [at : Objects \cup {"nowhere"}, saw : Owner \cup {Absent}]]
        /\ nova' \in [Hosts -> {"old", "stopped", "marked", "migrated", "new"}]
    BY <1>1, <1>2, <1>4 DEF IInv, TypeOK
  <2>3. \A g \in Hosts : visit'[g] = Idle \/ (walk'[g].on /\ visit'[g].at \in walk'[g].todo /\ visit'[g].saw \in Owner)
    BY <1>3 DEF IInv, TypeOK
  <2> QED
    BY <1>1, <2>1, <2>2, <2>3 DEF IInv, TypeOK
<1>6. \A g \in Hosts : ~Before(g)
  BY DEF IInv, PhaseInv
<1>7. PhaseInv'
  <2>1. \A g \in Hosts : ~Before(g)'
    BY <1>2, <1>3, <1>6 DEF Before
  <2>2. container[h] # "none"
    BY DEF IInv, PhaseInv
  <2> QED
    BY <1>1, <1>3, <2>1, <2>2 DEF IInv, PhaseInv
<1>8. \A g \in Hosts : Connected(g)'
  BY <1>1, OwnersStay DEF IInv
<1>9. WalksInv'
  <2> SUFFICES ASSUME refused = {}, NEW g \in Hosts PROVE HostClean(g)' /\ VisitInv(g)'
    BY <1>1 DEF WalksInv
  <2>1. HostClean(g) /\ VisitInv(g) /\ TypeOK /\ NoOlder /\ NoneTaken /\ Existing' = Existing
    BY <1>1, OwnersStay DEF IInv, WalksInv
  <2>2. CASE g = h
    <3>1. Clean(h)' <=> Clean(h)
      BY <1>1, OwnersStay
    <3> QED
      BY <1>1, <1>2, <1>3, <2>1, <2>2, <3>1 DEF HostClean, VisitInv, Before
  <2>3. CASE g # h
    <3>1. /\ nova'[g] = nova[g] /\ marker'[g] = marker[g] /\ walk'[g] = walk[g] /\ visit'[g] = visit[g]
          /\ \A x \in Hosts : nova'[x] = "new" => nova[x] = "new"
      BY <1>1, <1>2, <1>3, <2>3
    <3>2. Reach(Existing, walk[g].todo)' = Reach(Existing, walk[g].todo)
      BY <2>1, <3>1 DEF Reach
    <3> QED
      BY <1>1, <2>1, <3>1, <3>2, HostStays
  <2> QED
    BY <2>2, <2>3
<1> QED
  BY <1>5, <1>7, <1>8, <1>9 DEF IInv

\* The walk looks at an object.
LEMMA LookKeeps == \A h \in Hosts, o \in Objects : IInv /\ Look(h, o) => IInv'
<1> SUFFICES ASSUME NEW h \in Hosts, NEW o \in Objects, IInv, Look(h, o) PROVE IInv'
  OBVIOUS
<1>1. walk[h].on /\ visit[h] = Idle /\ o \in walk[h].todo
  BY DEF Look
<1>2. CASE ~Exists(o)
  BY <1>1, <1>2, EndsKeeps DEF Look
<1>3. CASE Exists(o)
  <2> DEFINE v == [at |-> o, saw |-> owner[o]]
  <2>1. visit' = [visit EXCEPT ![h] = v] /\ UNCHANGED <<owner, nova, marker, container, walk, refused, skipped>>
    BY <1>3 DEF Look
  <2>2. owner[o] \in Owner /\ v.at = o /\ v.saw = owner[o]
    BY <1>3, Contents DEF IInv
  <2>3. v \in [at : Objects \cup {"nowhere"}, saw : Owner \cup {Absent}]
    BY <2>2
  <2> HIDE DEF v
  <2>4. visit'[h] = v /\ \A g \in Hosts : g # h => visit'[g] = visit[g]
    BY <2>1 DEF IInv, TypeOK
  <2>5. TypeOK'
    BY <1>1, <2>1, <2>2, <2>3, <2>4 DEF IInv, TypeOK
  <2>6. PhaseInv' /\ \A g \in Hosts : Connected(g)'
    BY <2>1, OwnersStay DEF IInv, PhaseInv, Before
  <2>7. WalksInv'
    <3> SUFFICES ASSUME refused = {}, NEW g \in Hosts PROVE HostClean(g)' /\ VisitInv(g)'
      BY <2>1 DEF WalksInv
    <3>1. /\ HostClean(g) /\ VisitInv(g) /\ TypeOK /\ NoOlder /\ NoneTaken /\ Existing' = Existing
          /\ Reach(Existing, walk[g].todo)' = Reach(Existing, walk[g].todo)
      BY <2>1, OwnersStay DEF IInv, WalksInv, Reach
    <3>2. CASE g = h
      <4>1. HostClean(h)'
        BY <2>1, <3>1, <3>2, OwnersStay, Contents DEF HostClean, Below, Before
      <4>2. o \in Files /\ OfOld(o) => owner[o] # By("other")
        BY Owners DEF OfOld, Ids
      <4>3. ASSUME OfOld(o), skipped = {}, NEW x \in Hosts, o \in Tree[x] PROVE nova[x] # "new"
        BY <1>3, <4>3, <3>1 DEF IInv, WalksInv, HostClean, Clean, Below, Before
      <4>4. VisitInv(h)'
        BY <2>1, <2>2, <2>4, <4>2, <4>3 DEF VisitInv, OfOld
      <4> QED
        BY <3>2, <4>1, <4>4
    <3>3. CASE g # h
      <4>1. /\ nova'[g] = nova[g] /\ marker'[g] = marker[g] /\ walk'[g] = walk[g] /\ visit'[g] = visit[g]
            /\ \A x \in Hosts : nova'[x] = "new" => nova[x] = "new"
        BY <2>1, <2>4, <3>3
      <4> QED
        BY <2>1, <3>1, <4>1, HostStays
    <3> QED
      BY <3>2, <3>3
  <2> QED
    BY <2>5, <2>6, <2>7 DEF IInv
<1> QED
  BY <1>2, <1>3

\* A walk that has visited all has left nothing old.
LEMMA AllVisited ==
  ASSUME NEW h \in Hosts, HostClean(h), walk[h].on, walk[h].todo = {}, walk[h].upgrade \/ ~marker[h], ~Before(h)
  PROVE  Clean(h)
<1>1. Reach(Existing, walk[h].todo) = {}
  BY ReachNothing
<1> QED
  BY <1>1 DEF HostClean, Clean

\* All is visited: the marker can go.
LEMMA UnmarkKeeps == \A h \in Hosts : IInv /\ Unmark(h) => IInv'
<1> SUFFICES ASSUME NEW h \in Hosts, IInv, Unmark(h) PROVE IInv'
  OBVIOUS
<1>1. /\ walk[h].on /\ visit[h] = Idle /\ walk[h].todo = {} /\ walk[h].upgrade
      /\ marker' = [marker EXCEPT ![h] = FALSE]
      /\ UNCHANGED <<owner, nova, container, walk, visit, refused, skipped>>
  BY DEF Unmark
<1>2. TypeOK' /\ marker'[h] = FALSE /\ \A g \in Hosts : g # h => marker'[g] = marker[g]
  BY <1>1 DEF IInv, TypeOK
<1>3. container[h] # "none" /\ ~Before(h)
  BY <1>1 DEF IInv, PhaseInv
<1>4. PhaseInv'
  BY <1>1, <1>2, <1>3 DEF IInv, PhaseInv, Before
<1>5. \A g \in Hosts : Connected(g)'
  BY <1>1, OwnersStay DEF IInv
<1>6. WalksInv'
  <2> SUFFICES ASSUME refused = {}, NEW g \in Hosts PROVE HostClean(g)' /\ VisitInv(g)'
    BY <1>1 DEF WalksInv
  <2>1. /\ HostClean(g) /\ VisitInv(g) /\ TypeOK /\ NoOlder /\ NoneTaken /\ Existing' = Existing
        /\ Reach(Existing, walk[g].todo)' = Reach(Existing, walk[g].todo)
    BY <1>1, OwnersStay DEF IInv, WalksInv, Reach
  <2>2. CASE g = h
    <3>1. Clean(h)' /\ Clean(h)
      BY <1>1, <1>3, <2>1, <2>2, AllVisited, OwnersStay
    <3>2. HostClean(h)'
      BY <1>1, <1>2, <3>1 DEF HostClean, Clean, Below, OfOld
    <3> QED
      BY <1>1, <2>2, <3>2 DEF VisitInv
  <2>3. CASE g # h
    BY <1>1, <1>2, <2>1, <2>3, HostStays
  <2> QED
    BY <2>2, <2>3
<1> QED
  BY <1>2, <1>4, <1>5, <1>6 DEF IInv

\* The script exits with 0: nothing is left that could be old.
LEMMA FinishKeeps == \A h \in Hosts : IInv /\ Finish(h) => IInv'
<1> SUFFICES ASSUME NEW h \in Hosts, IInv, Finish(h) PROVE IInv'
  OBVIOUS
<1> DEFINE n == IF nova[h] = "marked" THEN "migrated" ELSE nova[h]
<1>1. /\ walk[h].on /\ visit[h] = Idle /\ walk[h].todo = {} /\ (walk[h].upgrade => ~marker[h])
      /\ walk' = [walk EXCEPT ![h] = Off]
      /\ nova' = [nova EXCEPT ![h] = n]
      /\ UNCHANGED <<owner, marker, container, visit, refused, skipped>>
  BY DEF Finish
<1>2. /\ Off \in [on : BOOLEAN, upgrade : BOOLEAN, todo : SUBSET Objects] /\ Off.on = FALSE
      /\ n \in {"migrated", nova[h]} /\ n \in {"old", "stopped", "marked", "migrated", "new"}
      /\ n # "marked" /\ (n = "new" => nova[h] = "new") /\ (n \in {"old", "stopped"} => n = nova[h])
  BY DEF Off, IInv, TypeOK
<1> HIDE DEF n
<1>3. /\ walk'[h] = Off /\ nova'[h] = n
      /\ \A g \in Hosts : g # h => walk'[g] = walk[g] /\ nova'[g] = nova[g]
  BY <1>1 DEF IInv, TypeOK
<1>4. TypeOK'
  <2>1. walk' \in [Hosts -> [on : BOOLEAN, upgrade : BOOLEAN, todo : SUBSET Objects]]
    BY <1>1, <1>2 DEF IInv, TypeOK
  <2>2. nova' \in [Hosts -> {"old", "stopped", "marked", "migrated", "new"}]
    BY <1>1, <1>2 DEF IInv, TypeOK
  <2>3. \A g \in Hosts : visit[g] = Idle \/ (walk'[g].on /\ visit[g].at \in walk'[g].todo /\ visit[g].saw \in Owner)
    BY <1>1, <1>3 DEF IInv, TypeOK
  <2> QED
    BY <1>1, <2>1, <2>2, <2>3 DEF IInv, TypeOK
<1>5. container[h] # "none" /\ \A g \in Hosts : ~Before(g)
  BY <1>1 DEF IInv, PhaseInv
<1>6. PhaseInv'
  <2>1. \A g \in Hosts : ~Before(g)'
    BY <1>2, <1>3, <1>5 DEF Before
  <2> QED
    BY <1>1, <1>3, <1>5, <2>1 DEF IInv, PhaseInv
<1>7. \A g \in Hosts : Connected(g)'
  BY <1>1, OwnersStay DEF IInv
<1>8. WalksInv'
  <2> SUFFICES ASSUME refused = {}, NEW g \in Hosts PROVE HostClean(g)' /\ VisitInv(g)'
    BY <1>1 DEF WalksInv
  <2>1. HostClean(g) /\ VisitInv(g) /\ TypeOK /\ NoOlder /\ NoneTaken /\ Existing' = Existing
    BY <1>1, OwnersStay DEF IInv, WalksInv
  <2>2. CASE g = h
    <3>1. ~marker[h]
      BY <1>1, <2>1, <2>2 DEF HostClean
    <3>2. Clean(h)'
      BY <1>1, <1>5, <2>1, <2>2, <3>1, AllVisited, OwnersStay
    <3> QED
      BY <1>1, <1>2, <1>3, <2>2, <3>1, <3>2 DEF HostClean, VisitInv
  <2>3. CASE g # h
    <3>1. /\ nova'[g] = nova[g] /\ marker'[g] = marker[g] /\ walk'[g] = walk[g] /\ visit'[g] = visit[g]
          /\ \A x \in Hosts : nova'[x] = "new" => nova[x] = "new"
      BY <1>1, <1>2, <1>3, <2>3
    <3>2. Reach(Existing, walk[g].todo)' = Reach(Existing, walk[g].todo)
      BY <2>1, <3>1 DEF Reach
    <3> QED
      BY <1>1, <2>1, <3>1, <3>2, HostStays
  <2> QED
    BY <2>2, <2>3
<1> QED
  BY <1>4, <1>6, <1>7, <1>8 DEF IInv

\* The owner an object should have differs from the one seen in new ids only, and has no
\* old one wherever the walk is to replace them.
LEMMA Targets ==
  ASSUME NEW h \in Hosts, NEW o \in Objects, NEW saw \in Owner
  PROVE  /\ Target(h, o, saw) \in Owner
         /\ Target(h, o, saw).uid \in {saw.uid, "new"} /\ Target(h, o, saw).gid \in {saw.gid, "new"}
         /\ o \in Dirs \/ walk[h].upgrade => Target(h, o, saw).uid # "old" /\ Target(h, o, saw).gid # "old"
         /\ o \in Files => /\ saw.uid # "old" => Target(h, o, saw).uid = saw.uid
                           /\ saw.gid # "old" => Target(h, o, saw).gid = saw.gid
<1>1. o \in Files => o \notin Dirs
  BY TreeAssumption
<1>2. CASE o \in Dirs
  BY <1>1, <1>2, Owners DEF Target, Ids
<1>3. CASE o \notin Dirs /\ ~walk[h].upgrade
  BY <1>3 DEF Target
<1>4. CASE o \notin Dirs /\ walk[h].upgrade
  <2> DEFINE t == [i \in {"uid", "gid"} |-> IF saw[i] = "old" THEN "new" ELSE saw[i]]
  <2>1. t \in Owner
    BY DEF Owner, Ids
  <2>2. /\ t.uid = IF saw.uid = "old" THEN "new" ELSE saw.uid
        /\ t.gid = IF saw.gid = "old" THEN "new" ELSE saw.gid
    BY DEF Owner
  <2>3. Target(h, o, saw) = t
    BY <1>4 DEF Target
  <2> HIDE DEF t
  <2> QED
    BY <1>4, <2>1, <2>2, <2>3
<1> QED
  BY <1>2, <1>3, <1>4

\* What chown makes of the owner an object has by then.
Chowned(want, saw, now) == [i \in {"uid", "gid"} |-> IF want[i] # saw[i] THEN want[i] ELSE now[i]]

\* Each id of a visited object is either the one wanted or the one it has now.
LEMMA ChownedIds ==
  ASSUME NEW want \in Owner, NEW saw \in Owner, NEW now \in Owner
  PROVE  /\ Chowned(want, saw, now) \in Owner
         /\ Chowned(want, saw, now).uid = IF want.uid # saw.uid THEN want.uid ELSE now.uid
         /\ Chowned(want, saw, now).gid = IF want.gid # saw.gid THEN want.gid ELSE now.gid
BY DEF Chowned, Owner

\* The walk visits an object: nothing becomes old, and nothing it was to come to is lost.
LEMMA ChownKeeps == \A h \in Hosts : IInv /\ Chown(h) => IInv'
<1> SUFFICES ASSUME NEW h \in Hosts, IInv, Chown(h) PROVE IInv'
  OBVIOUS
<1> DEFINE o == visit[h].at
           saw == visit[h].saw
           want == Target(h, o, saw)
           w == [walk[h] EXCEPT !.todo = (@ \ {o}) \cup In(Existing, o)]
<1>1. visit[h] # Idle /\ walk[h].on /\ o \in walk[h].todo /\ o \in Objects /\ saw \in Owner
  BY DEF Chown, IInv, TypeOK
<1>2. (IF o \in Dirs THEN Children(o) ELSE {}) = In(Existing, o)
  BY <1>1, Contents DEF IInv, Objects
<1>3. \/ Ends(h)
      \/ /\ walk' = [walk EXCEPT ![h] = w]
         /\ visit' = [visit EXCEPT ![h] = Idle]
         /\ UNCHANGED <<nova, marker, container, skipped>>
         /\ \/ owner' = (IF Exists(o) THEN [owner EXCEPT ![o] = Chowned(want, saw, owner[o])] ELSE owner) /\ UNCHANGED refused
            \/ refused' = refused \cup {o} /\ UNCHANGED owner
  BY <1>1, <1>2 DEF Chown, Chowned, IInv, TypeOK
<1>4. CASE Ends(h)
  BY <1>1, <1>4, EndsKeeps
<1>5. CASE /\ walk' = [walk EXCEPT ![h] = w]
           /\ visit' = [visit EXCEPT ![h] = Idle]
           /\ UNCHANGED <<nova, marker, container, skipped>>
           /\ \/ owner' = (IF Exists(o) THEN [owner EXCEPT ![o] = Chowned(want, saw, owner[o])] ELSE owner) /\ UNCHANGED refused
              \/ refused' = refused \cup {o} /\ UNCHANGED owner
  <2> DEFINE new == Chowned(want, saw, owner[o])
             todo == (walk[h].todo \ {o}) \cup In(Existing, o)
  <2>1. /\ want \in Owner
        /\ want.uid \in {saw.uid, "new"} /\ want.gid \in {saw.gid, "new"}
        /\ o \in Dirs \/ walk[h].upgrade => want.uid # "old" /\ want.gid # "old"
        /\ o \in Files => (saw.uid # "old" => want.uid = saw.uid) /\ (saw.gid # "old" => want.gid = saw.gid)
    <3> HIDE DEF o, saw, w
    <3>0. o \in Objects /\ saw \in Owner
      BY <1>1
    <3> QED
      BY <3>0, Targets
  <2>2. Exists(o) => /\ owner[o] \in Owner /\ new \in Owner
                     /\ new.uid = IF want.uid # saw.uid THEN want.uid ELSE owner[o].uid
                     /\ new.gid = IF want.gid # saw.gid THEN want.gid ELSE owner[o].gid
    BY <1>1, <2>1, ChownedIds, Contents DEF IInv
  <2> HIDE DEF want, new
  <2>3. \/ owner' = owner
        \/ Exists(o) /\ owner' = [owner EXCEPT ![o] = new]
    BY <1>5 DEF new
  <2>4. /\ \A x \in Objects : x # o => owner'[x] = owner[x]
        /\ owner'[o] = owner[o] \/ (Exists(o) /\ owner'[o] = new)
        /\ owner' \in [Objects -> Owner \cup {Absent}]
    BY <1>1, <2>2, <2>3 DEF IInv, TypeOK
  <2>5. w \in [on : BOOLEAN, upgrade : BOOLEAN, todo : SUBSET Objects] /\ w.on = walk[h].on
        /\ w.upgrade = walk[h].upgrade /\ w.todo = todo
    <3>1. todo \in SUBSET Objects
      BY Contents DEF IInv, In
    <3>2. walk[h] \in [on : BOOLEAN, upgrade : BOOLEAN, todo : SUBSET Objects]
      BY DEF IInv, TypeOK
    <3> HIDE DEF todo
    <3>3. w = [walk[h] EXCEPT !.todo = todo]
      BY DEF todo
    <3> HIDE DEF w
    <3> QED
      BY <3>1, <3>2, <3>3
  <2> HIDE DEF w
  <2>6. /\ walk'[h] = w /\ visit'[h] = Idle
        /\ \A g \in Hosts : g # h => walk'[g] = walk[g] /\ visit'[g] = visit[g]
    BY <1>5 DEF IInv, TypeOK
  <2>7. TypeOK'
    <3>1. walk' \in [Hosts -> [on : BOOLEAN, upgrade : BOOLEAN, todo : SUBSET Objects]]
      BY <1>5, <2>5 DEF IInv, TypeOK
    <3>2. visit' \in [Hosts -> [at : Objects \cup {"nowhere"}, saw : Owner \cup {Absent}]]
      <4>1. Idle \in [at : Objects \cup {"nowhere"}, saw : Owner \cup {Absent}]
        BY DEF Idle
      <4> QED
        BY <1>5, <4>1 DEF IInv, TypeOK
    <3>3. \A g \in Hosts : visit'[g] = Idle \/ (walk'[g].on /\ visit'[g].at \in walk'[g].todo /\ visit'[g].saw \in Owner)
      BY <2>6 DEF IInv, TypeOK
    <3>4. refused' \subseteq Objects
      BY <1>1, <1>5 DEF IInv, TypeOK
    <3> QED
      BY <1>5, <2>4, <3>1, <3>2, <3>3, <3>4 DEF IInv, TypeOK
  <2>8. \A x \in Objects : Exists(x)' = Exists(x)
    BY <1>1, <2>2, <2>4, Owners DEF Exists
  <2>9. Existing' = Existing
    BY <2>8 DEF Existing
  <2>10. PhaseInv'
    BY <1>1, <1>5, <2>5, <2>6 DEF IInv, PhaseInv, Before
  <2>11. \A g \in Hosts : Connected(g)'
    BY <2>8, <2>9, TreeAssumption DEF IInv, Connected
  <2>12. WalksInv'
    <3> SUFFICES ASSUME refused' = {}, NEW g \in Hosts PROVE HostClean(g)' /\ VisitInv(g)'
      BY DEF WalksInv
    <3>1. refused = {} /\ (\/ ~Exists(o) /\ owner' = owner
                           \/ Exists(o) /\ owner'[o] = new)
      <4>1. refused' # refused \cup {o}
        OBVIOUS
      <4>2. /\ UNCHANGED refused
            /\ owner' = (IF Exists(o) THEN [owner EXCEPT ![o] = new] ELSE owner)
        BY <1>5, <4>1 DEF new
      <4>3. owner \in [Objects -> Owner \cup {Absent}]
        BY DEF IInv, TypeOK
      <4> QED
        BY <1>1, <4>2, <4>3
    <3>2. HostClean(g) /\ VisitInv(g) /\ HostClean(h) /\ VisitInv(h) /\ TypeOK
      BY <3>1 DEF IInv, WalksInv
    <3>3. NoOlder
      <4> SUFFICES ASSUME NEW x \in Objects, Exists(x)'
                   PROVE  /\ owner'[x].uid = "old" => Exists(x) /\ owner[x].uid = "old"
                          /\ owner'[x].gid = "old" => Exists(x) /\ owner[x].gid = "old"
        BY DEF NoOlder
      <4>1. CASE owner'[x] = owner[x]
        BY <2>8, <4>1
      <4>2. CASE x = o /\ Exists(o) /\ owner'[o] = new
        BY <2>1, <2>2, <4>2
      <4> QED
        BY <2>4, <4>1, <4>2
    <3>4. NoneTaken
      <4> SUFFICES ASSUME NEW f \in Files, owner'[f] = By("other") PROVE owner[f] = By("other")
        BY DEF NoneTaken
      <4>1. CASE owner'[f] = owner[f]
        BY <4>1
      <4>2. CASE f = o /\ Exists(o) /\ owner'[o] = new
        <5>1. new.uid = "other" /\ new.gid = "other"
          BY <4>2, Owners DEF Ids
        <5>2. owner[o].uid = "other" /\ owner[o].gid = "other" /\ owner[o] \in Owner
          BY <2>1, <2>2, <4>2, <5>1
        <5>3. owner[o] = [uid |-> "other", gid |-> "other"]
          BY <5>2 DEF Owner
        <5> QED
          BY <4>2, <5>3 DEF By
      <4> QED
        BY <2>4, <4>1, <4>2 DEF Objects
    <3>5. CASE g = h
      <4>1. Below(h) \in SUBSET Objects
        BY <3>2, Contents
      <4>2. Clean(h) => Clean(h)'
        BY <3>3, <4>1 DEF Clean, Below, NoOlder, OfOld
      <4>3. ASSUME walk[h].upgrade, NEW x \in Below(h), Exists(x)', OfOld(x)'
            PROVE  x \in Reach(Existing, walk[h].todo)'
        <5>1. Exists(x) /\ OfOld(x)
          BY <3>3, <4>1, <4>3 DEF NoOlder, OfOld
        <5>2. x \in Reach(Existing, walk[h].todo)
          BY <1>1, <3>2, <4>3, <5>1 DEF HostClean
        <5>3. x # o
          <6> SUFFICES ASSUME x = o PROVE FALSE
            OBVIOUS
          <6>1. Exists(o) /\ owner'[o] = new
            BY <3>1, <5>1
          <6>2. new.uid # "old" /\ new.gid # "old"
            BY <1>1, <2>1, <2>2, <3>2, <4>3, <6>1 DEF VisitInv
          <6> QED
            BY <4>3, <6>1, <6>2 DEF OfOld
        <5>4. x \in Reach(Existing, todo)
          BY <1>1, <3>2, <5>2, <5>3, Contents, ReachVisited
        <5>5. Reach(Existing, walk[h].todo)' = Reach(Existing, todo)
          BY <2>5, <2>6, <2>9 DEF Reach
        <5> QED
          BY <5>4, <5>5
      <4>4. HostClean(h)'
        BY <1>1, <1>5, <2>5, <2>6, <3>2, <4>2, <4>3 DEF HostClean, Below, Before
      <4> QED
        BY <2>6, <3>5, <4>4 DEF VisitInv
    <3>6. CASE g # h
      <4>1. /\ nova'[g] = nova[g] /\ marker'[g] = marker[g] /\ walk'[g] = walk[g] /\ visit'[g] = visit[g]
            /\ \A x \in Hosts : nova'[x] = "new" => nova[x] = "new"
        BY <1>5, <2>6, <3>6
      <4>2. Reach(Existing, walk[g].todo)' = Reach(Existing, walk[g].todo)
        BY <2>9, <4>1 DEF Reach
      <4> QED
        BY <1>5, <3>2, <3>3, <3>4, <4>1, <4>2, HostStays
    <3> QED
      BY <3>5, <3>6
  <2> QED
    BY <2>7, <2>10, <2>11, <2>12 DEF IInv
<1> QED
  BY <1>3, <1>4, <1>5

(***************************************************************************)
(* The compute services                                                    *)
(***************************************************************************)

\* What a compute service does to the owners leaves the rest of the invariant to show.
LEMMA ServiceKeeps ==
  ASSUME IInv, NEW h \in Hosts, Running(h), UNCHANGED <<nova, marker, container, walk, visit, refused, skipped>>,
         owner' \in [Objects -> Owner \cup {Absent}], \A g \in Hosts : Connected(g)',
         nova[h] = "new" =>
           /\ NoOlder /\ NoneTaken
           /\ \A g \in Hosts : \A o \in Objects :
                Exists(o)' /\ o \in Reach(Existing, walk[g].todo) => o \in Reach(Existing, walk[g].todo)'
  PROVE  IInv'
<1>1. TypeOK' /\ PhaseInv'
  BY DEF IInv, TypeOK, PhaseInv, Before
<1>2. WalksInv'
  <2>1. CASE nova[h] = "old"
    BY <2>1, BeforeUpgrade DEF Before, IInv
  <2>2. CASE nova[h] = "new"
    <3> SUFFICES ASSUME refused = {}, NEW g \in Hosts PROVE HostClean(g)' /\ VisitInv(g)'
      BY DEF WalksInv
    <3> QED
      BY <2>2, HostStays DEF IInv, WalksInv
  <2> QED
    BY <2>1, <2>2 DEF Running
<1> QED
  BY <1>1, <1>2 DEF IInv

\* A compute service on the share creates an object, with its own ids.
LEMMA CreatesKeeps == \A h \in Hosts, o \in Objects : IInv /\ NovaCreates(h, o) => IInv'
<1> SUFFICES ASSUME NEW h \in Hosts, NEW o \in Objects, IInv, NovaCreates(h, o) PROVE IInv'
  OBVIOUS
<1>1. /\ Running(h) /\ o \in Tree[h] /\ ~Exists(o)
      /\ owner' = [owner EXCEPT ![o] = By(nova[h])]
      /\ UNCHANGED <<nova, marker, container, walk, visit, refused, skipped>>
  BY DEF NovaCreates
<1>2. PICK d \in Parent[o] : Exists(d)
  BY DEF NovaCreates
<1>3. nova[h] \in Ids /\ By(nova[h]) \in Owner /\ By(nova[h]).uid = nova[h] /\ By(nova[h]).gid = nova[h]
  BY <1>1, Owners DEF Running, Ids
<1>4. /\ owner' \in [Objects -> Owner \cup {Absent}] /\ owner'[o] = By(nova[h])
      /\ \A x \in Objects : x # o => owner'[x] = owner[x]
  BY <1>1, <1>3 DEF IInv, TypeOK
<1>5. \A x \in Objects : Exists(x)' <=> Exists(x) \/ x = o
  BY <1>3, <1>4, Owners DEF Exists
<1>6. /\ Existing \in SUBSET Objects /\ Existing' \in SUBSET Objects /\ Existing \subseteq Existing'
      /\ o \in Existing'
  BY <1>5 DEF Existing
<1>7. \A A : Reach(Existing, A) \subseteq Reach(Existing', A)
  BY <1>6, ReachGrows
<1>8. ASSUME NEW g \in Hosts PROVE Connected(g)'
  <2> SUFFICES ASSUME NEW x \in Tree[g], Exists(x)' PROVE x \in Reach(Existing', {Top[g]})
    BY DEF Connected, Reach
  <2>1. x \in Objects /\ d \in Objects /\ {Top[g]} \in SUBSET Objects
    BY <1>2, TreeAssumption DEF Objects
  <2>2. Top[g] \in Reach(Existing', {Top[g]})
    BY <2>1, ReachHas
  <2>3. CASE x # o
    BY <1>5, <1>7, <2>1, <2>3 DEF IInv, Connected
  <2>4. CASE x = o
    <3>1. CASE Top[g] \in Parent[o]
      <4>1. o \in In(Existing', Top[g])
        BY <1>6, <3>1 DEF In
      <4> QED
        BY <1>6, <2>1, <2>2, <2>4, <4>1, ReachStep
    <3>2. CASE Top[g] \notin Parent[o]
      <4>1. Parent[o] = {d}
        BY <1>2, <2>4, <3>2, ShareAssumption
      <4>2. d \in Tree[g]
        BY <2>4, <3>2, <4>1, TreeAssumption
      <4>3. d \in Reach(Existing', {Top[g]})
        BY <1>2, <1>7, <4>2 DEF IInv, Connected
      <4>4. o \in In(Existing', d)
        BY <1>6, <4>1 DEF In
      <4> QED
        BY <1>6, <2>1, <2>4, <4>3, <4>4, ReachStep
    <3> QED
      BY <3>1, <3>2
  <2> QED
    BY <2>3, <2>4
<1>9. nova[h] = "new" => NoOlder /\ NoneTaken
  <2>1. nova[h] = "new" => NoOlder
    BY <1>3, <1>4, <1>5 DEF NoOlder
  <2>2. nova[h] = "new" => NoneTaken
    <3>1. nova[h] = "new" => By(nova[h]) # By("other")
      BY <1>3, Owners DEF Ids
    <3> QED
      BY <1>4, <3>1 DEF NoneTaken, Objects
  <2> QED
    BY <2>1, <2>2
<1>10. \A g \in Hosts : Reach(Existing, walk[g].todo) \subseteq Reach(Existing, walk[g].todo)'
  BY <1>1, <1>7 DEF Reach
<1> QED
  BY <1>1, <1>4, <1>8, <1>9, <1>10, ServiceKeeps

\* A compute service removes an object, which a walk may have listed before.
LEMMA RemovesKeeps == \A h \in Hosts, o \in Objects : IInv /\ NovaRemoves(h, o) => IInv'
<1> SUFFICES ASSUME NEW h \in Hosts, NEW o \in Objects, IInv, NovaRemoves(h, o) PROVE IInv'
  OBVIOUS
<1>1. /\ Running(h) /\ Exists(o)
      /\ owner' = [owner EXCEPT ![o] = Absent]
      /\ UNCHANGED <<nova, marker, container, walk, visit, refused, skipped>>
  BY DEF NovaRemoves
<1>2. /\ owner' \in [Objects -> Owner \cup {Absent}] /\ owner'[o] = Absent
      /\ \A x \in Objects : x # o => owner'[x] = owner[x]
  BY <1>1 DEF IInv, TypeOK
<1>3. \A x \in Objects : Exists(x)' <=> Exists(x) /\ x # o
  BY <1>2 DEF Exists
<1>4. Existing \in SUBSET Objects /\ Existing' = Existing \ {o}
  BY <1>3 DEF Existing
<1>5. In(Existing, o) = {}
  <2>1. CASE o \in Dirs
    BY <2>1, Contents DEF NovaRemoves, IInv
  <2>2. CASE o \in Files
    BY <2>2, Contents DEF IInv
  <2> QED
    BY <2>1, <2>2 DEF Objects
<1>6. \A A \in SUBSET Objects : Reach(Existing, A) \subseteq Reach(Existing', A) \cup {o}
  BY <1>4, <1>5, ReachShrinks
<1>7. ASSUME NEW g \in Hosts PROVE Connected(g)'
  <2> SUFFICES ASSUME NEW x \in Tree[g], Exists(x)' PROVE x \in Reach(Existing', {Top[g]})
    BY DEF Connected, Reach
  <2>1. x \in Objects /\ {Top[g]} \in SUBSET Objects
    BY TreeAssumption DEF Objects
  <2>2. Exists(x) /\ x # o
    BY <1>3, <2>1
  <2>3. x \in Reach(Existing, {Top[g]})
    BY <2>2 DEF IInv, Connected
  <2> QED
    BY <1>6, <2>1, <2>2, <2>3
<1>8. NoOlder
  BY <1>2, <1>3 DEF NoOlder
<1>9. NoneTaken
  <2>1. Absent # By("other")
    BY Owners DEF Ids
  <2> QED
    BY <1>2, <2>1 DEF NoneTaken, Objects
<1>10. ASSUME NEW g \in Hosts, NEW x \in Objects, Exists(x)', x \in Reach(Existing, walk[g].todo)
       PROVE  x \in Reach(Existing, walk[g].todo)'
  <2>1. x # o /\ walk[g].todo \in SUBSET Objects
    BY <1>3, <1>10, Contents DEF IInv
  <2>2. x \in Reach(Existing', walk[g].todo)
    BY <1>6, <1>10, <2>1
  <2> QED
    BY <1>1, <2>2 DEF Reach
<1> QED
  BY <1>1, <1>2, <1>7, <1>8, <1>9, <1>10, ServiceKeeps

\* libvirt takes a file, under any walk.
LEMMA TakesKeeps == \A h \in Hosts, f \in Objects : IInv /\ LibvirtTakes(h, f) => IInv'
<1> SUFFICES ASSUME NEW h \in Hosts, NEW f \in Objects, IInv, LibvirtTakes(h, f) PROVE IInv'
  OBVIOUS
<1>1. /\ Running(h) /\ f \in Tree[h] /\ Exists(f)
      /\ owner' = [owner EXCEPT ![f] = By("other")]
      /\ UNCHANGED <<nova, marker, container, walk, visit, refused, skipped>>
  BY DEF LibvirtTakes
<1>2. /\ owner' \in [Objects -> Owner \cup {Absent}] /\ owner'[f] = By("other")
      /\ \A x \in Objects : x # f => owner'[x] = owner[x]
  BY <1>1, Owners DEF IInv, TypeOK, Ids
<1>3. \A x \in Objects : Exists(x)' <=> Exists(x)
  BY <1>1, <1>2, Owners DEF Exists, Ids
<1>4. Existing' = Existing
  BY <1>3 DEF Existing
<1>5. \A g \in Hosts : Connected(g)'
  BY <1>3, <1>4, TreeAssumption DEF IInv, Connected
<1>6. NoOlder
  BY <1>2, <1>3, Owners DEF NoOlder, Ids
<1>7. nova[h] = "new" => NoneTaken
  BY <1>1, <1>2 DEF NoneTaken, Objects
<1>8. \A g \in Hosts : Reach(Existing, walk[g].todo)' = Reach(Existing, walk[g].todo)
  BY <1>1, <1>4 DEF Reach
<1> QED
  BY <1>1, <1>2, <1>5, <1>6, <1>7, <1>8, ServiceKeeps

(***************************************************************************)
(* Invariants and action properties of the specification                   *)
(***************************************************************************)
\* Every step of the specification keeps the invariant.
LEMMA NextInv == IInv /\ [Next]_vars => IInv'
<1> SUFFICES ASSUME IInv, [Next]_vars PROVE IInv'
  OBVIOUS
<1>1. CASE UNCHANGED vars
  <2>1. UNCHANGED <<owner, nova, marker, container, walk, visit, refused, skipped>>
    BY <1>1 DEF vars
  <2>2. TypeOK' /\ PhaseInv' /\ \A h \in Hosts : Connected(h)'
    BY <2>1, OwnersStay DEF IInv, TypeOK, PhaseInv, Before
  <2>3. ASSUME refused = {}, NEW g \in Hosts PROVE HostClean(g)' /\ VisitInv(g)'
    <3>1. /\ HostClean(g) /\ VisitInv(g) /\ TypeOK /\ NoOlder /\ NoneTaken /\ Existing' = Existing
          /\ Reach(Existing, walk[g].todo)' = Reach(Existing, walk[g].todo)
      BY <2>1, <2>3, OwnersStay DEF IInv, WalksInv, Reach
    <3> QED
      BY <2>1, <3>1, HostStays
  <2> QED
    BY <2>1, <2>2, <2>3 DEF IInv, WalksInv
<1>2. CASE \E h \in Hosts : Crash(h)
  BY <1>2, EndsKeeps DEF Crash
<1>3. CASE \/ Redeploy
           \/ \E h \in Hosts : \/ StopNova(h) \/ Restart(h) \/ RemovePackage(h) \/ SetMarker(h)
                              \/ Launch(h) \/ SkipWalk(h) \/ StartNova(h)
  BY <1>3, RedeployKeeps, StopKeeps, MarkKeeps, LaunchKeeps, SkipKeeps, StartKeeps
<1>4. CASE \E h \in Hosts : Chown(h) \/ Unmark(h) \/ Finish(h)
  BY <1>4, ChownKeeps, UnmarkKeeps, FinishKeeps
<1>5. CASE \E h \in Hosts, o \in Objects : Look(h, o) \/ NovaCreates(h, o) \/ NovaRemoves(h, o) \/ LibvirtTakes(h, o)
  BY <1>5, LookKeeps, CreatesKeeps, RemovesKeeps, TakesKeeps
<1> QED
  BY <1>1, <1>2, <1>3, <1>4, <1>5 DEF Next

\* The inductive invariant holds in every reachable state.
THEOREM Invariance == Spec => []IInv
BY InitInv, NextInv, PTL DEF Spec

\* The state always has its shape: what a walk visits is in its list.
THEOREM TypeCorrect == Spec => []TypeOK
<1>1. IInv => TypeOK
  BY DEF IInv
<1> QED
  BY <1>1, Invariance, PTL

\* When nova_compute runs in its container, nothing below its state directory is of the
\* old user or group, or its failed script was passed by and the marker is still there;
\* for any number of hosts on one share, walks, kills and removals.
THEOREM AllMigrated == Spec => []Migrated
<1>1. IInv => Migrated
  BY DEF IInv, WalksInv, HostClean, Clean, Below, OfOld, Migrated, Before
<1> QED
  BY <1>1, Invariance, PTL

\* A file that is qemu's or root's stays so, whatever a walk had seen of it before.
THEOREM ForeignStays == Spec => ForeignKept
<1>1. ASSUME IInv, [Next]_vars, refused = {}, skipped = {}, NEW f \in Files, owner[f] = By("other")
      PROVE  owner'[f] \in {By("other"), Absent}
  <2>1. f \in Objects /\ owner \in [Objects -> Owner \cup {Absent}] /\ Exists(f)
    BY <1>1, Owners DEF Objects, IInv, TypeOK, Exists, Ids
  <2>2. CASE owner' = owner
    BY <1>1, <2>2
  <2>3. ASSUME NEW h \in Hosts, Chown(h) PROVE owner'[f] = By("other")
    <3> DEFINE o == visit[h].at
               saw == visit[h].saw
               want == Target(h, o, saw)
    <3>1. /\ visit[h] # Idle /\ o \in Objects /\ saw \in Owner
          /\ owner' = owner \/ owner' = [owner EXCEPT ![o] = Chowned(want, saw, owner[o])]
      <4>1. visit[h] # Idle /\ o \in Objects /\ saw \in Owner
        BY <1>1, <2>3 DEF Chown, IInv, TypeOK
      <4>2. owner' = owner \/ owner' = [owner EXCEPT ![o] = Chowned(want, saw, @)]
        BY <2>3 DEF Chown, Ends, Chowned
      <4> QED
        BY <4>1, <4>2
    <3>2. CASE f # o \/ owner' = owner
      BY <1>1, <2>1, <3>1, <3>2
    <3>3. CASE f = o /\ owner' = [owner EXCEPT ![o] = Chowned(want, saw, owner[o])]
      <4>1. saw.uid # "old" /\ saw.gid # "old"
        BY <1>1, <2>3, <3>1, <3>3 DEF IInv, WalksInv, VisitInv
      <4>2. want \in Owner /\ want.uid = saw.uid /\ want.gid = saw.gid
        <5>1. o \in Files
          BY <3>3
        <5>2. o \in Objects /\ saw \in Owner
          BY <3>1
        <5> HIDE DEF o, saw
        <5>3. want \in Owner
          BY <5>2, Targets, Zenon
        <5>4. (saw.uid # "old" => want.uid = saw.uid) /\ (saw.gid # "old" => want.gid = saw.gid)
          BY <5>1, <5>2, Targets, Zenon
        <5> QED
          BY <4>1, <5>3, <5>4
      <4>3. By("other") \in Owner
        BY Owners DEF Ids
      <4> DEFINE new == Chowned(want, saw, By("other"))
      <4>4. new \in Owner /\ new.uid = By("other").uid /\ new.gid = By("other").gid
        BY <3>1, <4>2, <4>3, ChownedIds
      <4>5. owner'[f] = new
        BY <1>1, <2>1, <3>3
      <4> HIDE DEF new
      <4>6. new = By("other")
        BY <4>3, <4>4 DEF Owner
      <4> QED
        BY <4>5, <4>6
    <3> QED
      BY <3>1, <3>2, <3>3
  <2>4. ASSUME NEW h \in Hosts, NEW o \in Objects, NovaCreates(h, o) PROVE owner'[f] = By("other")
    BY <1>1, <2>1, <2>4 DEF NovaCreates
  <2>5. ASSUME NEW h \in Hosts, NEW o \in Objects, NovaRemoves(h, o) \/ LibvirtTakes(h, o)
        PROVE  owner'[f] \in {By("other"), Absent}
    BY <1>1, <2>1, <2>5 DEF NovaRemoves, LibvirtTakes
  <2> QED
    BY <1>1, <2>2, <2>3, <2>4, <2>5
       DEF Next, vars, StopNova, Restart, RemovePackage, SetMarker, Redeploy, Launch, SkipWalk, StartNova,
           Unmark, Finish, Crash, Ends, Look
<1>2. IInv /\ [Next]_vars =>
        [refused = {} /\ skipped = {} => \A f \in Files : owner[f] = By("other") => owner'[f] \in {By("other"), Absent}]_vars
  BY <1>1
<1> QED
  BY <1>2, Invariance, PTL DEF Spec, ForeignKept
=============================================================================
