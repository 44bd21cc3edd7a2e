----------------------- MODULE TemplateValidation_proofs ----------------------
(***************************************************************************)
(* For any tree of files: exit status 0 of yaml-validate.py is deserved,   *)
(* and five repairs of what is listed suffice.  For any input, its checks  *)
(* that compute are right, and so are the endpoint map and the sample      *)
(* environments that are generated.                                        *)
(***************************************************************************)
EXTENDS TemplateValidation, EndpointMap, EnvironmentGenerator, ServiceChecks, WellFoundedInduction,
        FiniteSetTheorems, TLAPS

(***************************************************************************)
(* The inductive invariant                                                 *)
(***************************************************************************)
TypeOK ==
  /\ DOMAIN content = Files /\ \A f \in Files : DOMAIN content[f] = FileFields
  /\ phase \in {"idle", "walk", "endpoints", "compare", "ended", "validate", "validate_endpoint_map", "update"}
  /\ todo \subseteq Files /\ failed \subseteq Files /\ envs \subseteq Envs \cup Copies
  /\ map \in [Params -> SUBSET Files]
  /\ base \in BOOLEAN /\ exit \in {0, 1} /\ rounds \in 0 .. MaxRounds

\* The files that validate reports, or their place.
Found(f) == Misplaced(f) \/ Retval(f) = 1

\* The files of the definitions that are reported.
Disagreeing == UNION {map[p] : p \in {q \in Params : Mismatched(q)}}

\* What a run knows is what is so, of the files it has visited.
RunInv ==
  LET visited == Files \ todo
      found == {f \in visited : Found(f)}
  IN  /\ phase \in {"walk", "endpoints", "compare", "ended"} =>
           /\ \A p \in Params : map[p] = {f \in visited : p \in Collected(f)}
           /\ base <=> Base \in visited /\ Mapped(Base) /\ content[Base].endpoints # NullEndpoints
           /\ envs = {f \in (Envs \cup Copies) \cap visited : Mapped(f)}
           /\ failed = found \cup (IF phase \in {"compare", "ended"} THEN Wrong ELSE {})
                             \cup (IF phase = "ended" THEN Disagreeing ELSE {})
           /\ exit = 1 <=> failed # {} \/ (phase \in {"compare", "ended"} /\ ~Comparable)
           /\ \A f \in visited : Breaks(f) => Fails(f, "resources")
      /\ phase \in {"endpoints", "compare", "ended"} => todo = {}
      /\ phase = "ended" => ~NullDefinition

\* What the first list settles: every file parses, and lies where it may.
One == \A f \in Files : (content[f].parses \/ f \in Ansible) /\ ~Misplaced(f)

\* The second: the versions, and the endpoint maps that are missing.
Two ==
  /\ \A f \in Files : ~(content[f].parses /\ Unsupported(f))
  /\ \A f \in Envs \cup {Base} : Mapped(f)
  /\ content[Base].endpoints # NullEndpoints

\* The third: what the checks raise, and the endpoints.
Three ==
  /\ \A f \in Files : Unread(f) => Retval(f) = 0
  /\ \A f \in Envs : ~Differs(f)

\* The fourth, with nothing hidden from it but the old nic configurations: the checks and the
\* definitions of parameters.
Four ==
  /\ \A f \in Files : ~Unread(f) => /\ \A c \in Checks(Place[f]) : ~Fails(f, c)
                                    /\ ~(content[f].heat /\ Fails(f, "resources"))
  /\ \A p \in Params : \A f, g \in Files : p \in Collected(f) /\ p \in Collected(g) =>
       Agree(p, f, g) /\ (f # g => content[f].params[p] # Null)

\* The fifth, everything.
Five == \A f \in Files : Retval(f) = 0

LevelInv == NoTwins =>
  /\ rounds >= 1 => One
  /\ rounds >= 2 => Two
  /\ rounds >= 3 => Three
  /\ rounds >= 4 => Four /\ phase # "update"
  /\ rounds >= 5 => Five /\ rounds = 5

IInv == TypeOK /\ RunInv /\ LevelInv

(***************************************************************************)
(* Lemmas about the operators                                              *)
(***************************************************************************)
\* validate returns 0 or 1.
LEMMA Returns == \A f \in Files : Retval(f) \in {0, 1}
BY DEF Retval, Checked

\* A file that its checks pass fails none of them.
LEMMA NothingFails ==
  ASSUME NEW f \in Files, Checked(f) = 0
  PROVE  /\ \A c \in Checks(Place[f]) : ~Fails(f, c)
         /\ content[f].heat => ~Fails(f, "nic config")
<1>1. Checked(f) # 1
  OBVIOUS
<1>2. CASE \E c \in Checks(Place[f]) : Fails(f, c)
  BY <1>1, <1>2, Zenon DEF Checked
<1>3. CASE content[f].heat /\ Fails(f, "nic config")
  BY <1>1, <1>3, Zenon DEF Checked
<1> QED
  BY <1>2, <1>3, Zenon

\* A file that fails none of its checks is passed by them.
LEMMA NothingFound ==
  ASSUME NEW f \in Files, \A c \in Checks(Place[f]) : ~Fails(f, c), ~(content[f].heat /\ Fails(f, "nic config"))
  PROVE  Checked(f) = 0
BY Zenon DEF Checked

\* Definitions that are the same agree.
LEMMA SameAgree ==
  ASSUME NEW p \in Params, NEW f \in Files, NEW g \in Files,
         content[f].params[p] = content[g].params[p]
  PROVE  Agree(p, f, g)
BY DEF Agree

\* While the files stay as they are, so does all that is computed from them.
LEMMA FilesStay ==
  ASSUME UNCHANGED content
  PROVE  /\ \A f \in Files : /\ Retval(f)' = Retval(f) /\ (Mapped(f)' <=> Mapped(f)) /\ (Differs(f)' <=> Differs(f))
                             /\ (Misplaced(f)' <=> Misplaced(f)) /\ (Breaks(f)' <=> Breaks(f))
                             /\ (Unread(f)' <=> Unread(f)) /\ (Unsupported(f)' <=> Unsupported(f))
                             /\ \A c : Fails(f, c)' <=> Fails(f, c)
         /\ \A f \in Files : Collected(f)' = Collected(f)
         /\ \A p \in Params : \A f, g \in Files : Agree(p, f, g)' <=> Agree(p, f, g)
         /\ NoTwins' <=> NoTwins
<1>1. \A f \in Files : (Unsupported(f)' <=> Unsupported(f)) /\ (Excepted(f)' <=> Excepted(f)) /\ (Unread(f)' <=> Unread(f))
  BY DEF Unsupported, Excepted, Unread, Fails
<1>2. \A f \in Files : Retval(f)' = Retval(f)
  BY <1>1 DEF Retval, Checked, Fails
<1>3. \A f \in Files : /\ (Mapped(f)' <=> Mapped(f)) /\ (Misplaced(f)' <=> Misplaced(f)) /\ (Breaks(f)' <=> Breaks(f))
                       /\ \A c : Fails(f, c)' <=> Fails(f, c)
  BY <1>1 DEF Mapped, Misplaced, Breaks, Fails
<1>4. \A f \in Files : Differs(f)' <=> Differs(f)
  BY DEF Differs
<1>5. \A f \in Files : Collected(f)' = Collected(f)
  BY <1>1 DEF Collected
<1>6. \A p \in Params : \A f, g \in Files : Agree(p, f, g)' <=> Agree(p, f, g)
  BY DEF Agree
<1>7. NoTwins' <=> NoTwins
  BY DEF NoTwins
<1> QED
  BY <1>1, <1>2, <1>3, <1>4, <1>5, <1>6, <1>7

\* And so does what has been settled.
LEMMA LevelsStay ==
  ASSUME UNCHANGED <<content, rounds>>, LevelInv, phase' = "update" => ~(rounds >= 4 /\ NoTwins)
  PROVE  LevelInv'
<1>1. (One' <=> One) /\ (Two' <=> Two) /\ (Three' <=> Three) /\ (Five' <=> Five) /\ (NoTwins' <=> NoTwins)
  BY FilesStay, FileAssumption DEF One, Two, Three, Five
<1>2. Four' <=> Four
  BY FilesStay, FileAssumption DEF Four
<1> QED
  BY <1>1, <1>2, Zenon DEF LevelInv

\* What is computed from the files and from what has been read of them.
LEMMA MapsStay ==
  ASSUME UNCHANGED <<content, map, base, envs>>, TypeOK
  PROVE  /\ Wrong' = Wrong /\ (Comparable' <=> Comparable) /\ Disagreeing' = Disagreeing
         /\ (NullDefinition' <=> NullDefinition)
<1>1. Comparable' <=> Comparable
  BY DEF Comparable
<1>2. Wrong' = Wrong
  BY <1>1 DEF Wrong, Differs, Unmatched
<1>3. Disagreeing' = Disagreeing
  BY DEF Disagreeing, Mismatched, Agree
<1>4. NullDefinition' <=> NullDefinition
  BY DEF NullDefinition, Valueless
<1> QED
  BY <1>1, <1>2, <1>3, <1>4

\* The environments that are reported are files.
LEMMA WrongFiles == TypeOK => Wrong \subseteq Envs \cup Copies \cup {Base} /\ Wrong \subseteq Files
BY FileAssumption DEF TypeOK, Wrong, Unmatched

\* Without copies, the maps that are read are compared if and only if they are those of all
\* environments and of the base.
LEMMA MapsCounted ==
  ASSUME TypeOK, NoTwins, envs \subseteq {f \in Files : Mapped(f)}
  PROVE  /\ envs \subseteq Envs
         /\ Comparable <=> base /\ envs = Envs
         /\ envs # Envs => Unmatched = Envs \ envs /\ Cardinality(envs) # Cardinality(Envs)
<1>1. envs \subseteq Envs
  BY DEF TypeOK, NoTwins, Mapped
<1>2. Cardinality(envs) = Cardinality(Envs) => envs = Envs
  BY <1>1, FileAssumption, FS_Subset
<1>3. \A f \in envs : f \notin Copies
  BY <1>1, FileAssumption
<1>4. Unmatched = Envs \ envs
  BY <1>3 DEF Unmatched
<1> QED
  BY <1>1, <1>2, <1>4 DEF Comparable

\* Before the first run.
LEMMA InitInv == Init => IInv
<1> SUFFICES ASSUME Init PROVE IInv
  OBVIOUS
<1>1. TypeOK
  <2>1. DOMAIN content = Files /\ \A f \in Files : DOMAIN content[f] = FileFields
    BY FileAssumption, Zenon DEF Init
  <2>2. map \in [Params -> SUBSET Files]
    BY DEF Init
  <2>3. todo \subseteq Files /\ failed \subseteq Files /\ envs \subseteq Envs \cup Copies
    BY DEF Init
  <2>4. base = FALSE /\ exit = 0 /\ rounds = 0 /\ phase = "idle"
    BY DEF Init
  <2>5. base \in BOOLEAN
    BY <2>4
  <2>6. exit \in {0, 1} /\ rounds \in 0 .. MaxRounds
    BY <2>4 DEF MaxRounds
  <2> QED
    BY <2>1, <2>2, <2>3, <2>4, <2>5, <2>6 DEF TypeOK
<1>2. RunInv
  BY DEF Init, RunInv
<1>3. LevelInv
  BY DEF Init, LevelInv
<1> QED
  BY <1>1, <1>2, <1>3 DEF IInv

(***************************************************************************)
(* The run                                                                 *)
(***************************************************************************)
\* A run begins and knows nothing.
LEMMA BeginKeeps == IInv /\ Begin => IInv'
<1> SUFFICES ASSUME IInv, Begin PROVE IInv'
  OBVIOUS
<1>1. TypeOK'
  BY DEF IInv, TypeOK, Begin
<1>2. RunInv'
  <2>1. /\ phase' = "walk" /\ todo' = Files /\ map' = [p \in Params |-> {}] /\ base' = FALSE /\ envs' = {}
        /\ failed' = {} /\ exit' = 0
    BY DEF Begin
  <2> QED
    BY <2>1, FileAssumption DEF RunInv
<1>3. LevelInv'
  BY LevelsStay DEF Begin, IInv
<1> QED
  BY <1>1, <1>2, <1>3 DEF IInv

\* The walk visits a file.
LEMMA VisitKeeps == \A f \in Files : IInv /\ Visit(f) => IInv'
<1> SUFFICES ASSUME NEW f \in Files, IInv, Visit(f) PROVE IInv'
  OBVIOUS
<1>1. /\ UNCHANGED <<content, rounds>> /\ phase = "walk" /\ f \in todo /\ todo' = todo \ {f}
      /\ phase' = IF todo = {f} THEN "endpoints" ELSE "walk"
      /\ failed' = IF Found(f) THEN failed \cup {f} ELSE failed
      /\ exit' = IF Found(f) THEN 1 ELSE exit
      /\ map' = [p \in Params |-> IF p \in Collected(f) THEN map[p] \cup {f} ELSE map[p]]
      /\ base' = IF f = Base THEN Mapped(f) /\ content[f].endpoints # NullEndpoints ELSE base
      /\ envs' = IF f \in Envs \cup Copies /\ Mapped(f) THEN envs \cup {f} ELSE envs
      /\ Breaks(f) => Fails(f, "resources")
  BY DEF Visit, Found
<1>2. TypeOK
  BY DEF IInv
<1>3. Mapped(f) \in BOOLEAN
  BY DEF Mapped
<1>4. TypeOK'
  BY <1>1, <1>2, <1>3 DEF TypeOK
<1>5. Files \ todo' = (Files \ todo) \cup {f} /\ f \notin Files \ todo
  BY <1>1, <1>2 DEF TypeOK
<1>6. /\ \A p \in Params : map[p] = {g \in Files \ todo : p \in Collected(g)}
      /\ base <=> Base \in Files \ todo /\ Mapped(Base) /\ content[Base].endpoints # NullEndpoints
      /\ envs = {g \in (Envs \cup Copies) \cap (Files \ todo) : Mapped(g)}
      /\ failed = {g \in Files \ todo : Found(g)}
      /\ exit = 1 <=> failed # {}
      /\ \A g \in Files \ todo : Breaks(g) => Fails(g, "resources")
  BY <1>1 DEF IInv, RunInv
<1>7. \A p \in Params : map'[p] = {g \in Files \ todo' : p \in Collected(g)}
  BY <1>1, <1>2, <1>5, <1>6 DEF TypeOK
<1>8. base' <=> Base \in Files \ todo' /\ Mapped(Base) /\ content[Base].endpoints # NullEndpoints
  BY <1>1, <1>5, <1>6, FileAssumption
<1>9. envs' = {g \in (Envs \cup Copies) \cap (Files \ todo') : Mapped(g)}
  BY <1>1, <1>5, <1>6, FileAssumption
<1>10. failed' = {g \in Files \ todo' : Found(g)}
  BY <1>1, <1>5, <1>6
<1>11. exit' = 1 <=> failed' # {}
  BY <1>1, <1>6
<1>12. phase' \in {"walk", "endpoints"} /\ (phase' = "endpoints" => todo' = {})
  BY <1>1
<1>13. RunInv'
  <2>1. \A p \in Params : map'[p] = {g \in Files \ todo' : p \in Collected(g)'}
    BY <1>1, <1>7, FilesStay
  <2>2. base' <=> Base \in Files \ todo' /\ Mapped(Base)' /\ content'[Base].endpoints # NullEndpoints
    BY <1>1, <1>8, FilesStay, FileAssumption
  <2>3. envs' = {g \in (Envs \cup Copies) \cap (Files \ todo') : Mapped(g)'}
    BY <1>1, <1>9, FilesStay
  <2>4. failed' = {g \in Files \ todo' : Found(g)'}
    BY <1>1, <1>10, FilesStay DEF Found
  <2>5. \A g \in Files \ todo' : Breaks(g)' => Fails(g, "resources")'
    BY <1>1, <1>5, <1>6, FilesStay
  <2> QED
    BY <1>11, <1>12, <2>1, <2>2, <2>3, <2>4, <2>5 DEF RunInv
<1>14. LevelInv'
  BY <1>1, <1>12, LevelsStay DEF IInv
<1> QED
  BY <1>4, <1>13, <1>14 DEF IInv

\* A step that ends the program with a traceback.
LEMMA TracebackKeeps ==
  ASSUME IInv, UNCHANGED <<content, todo, map, base, envs, failed, rounds>>, exit' = 1,
         \/ phase' \in {"validate", "validate_endpoint_map"}
         \/ phase' = "update" /\ ~(rounds >= 4 /\ NoTwins)
  PROVE  IInv'
<1>1. TypeOK'
  BY DEF IInv, TypeOK
<1>2. RunInv'
  BY DEF RunInv
<1>3. LevelInv'
  BY LevelsStay DEF IInv
<1> QED
  BY <1>1, <1>2, <1>3 DEF IInv

\* validate raises.
LEMMA BreakKeeps == \A f \in Files : IInv /\ Break(f) => IInv'
BY TracebackKeeps DEF Break

\* A map has no keys.
LEMMA EndpointsRaiseKeeps == IInv /\ EndpointsRaise => IInv'
BY TracebackKeeps DEF EndpointsRaise

\* The endpoint maps are compared, or missed.
LEMMA EndpointsKeeps == IInv /\ Endpoints => IInv'
<1> SUFFICES ASSUME IInv, Endpoints PROVE IInv'
  OBVIOUS
<1>1. /\ UNCHANGED <<content, todo, map, base, envs, rounds>> /\ phase = "endpoints" /\ phase' = "compare"
      /\ failed' = failed \cup Wrong /\ exit' = IF Wrong # {} \/ ~Comparable THEN 1 ELSE exit
  BY DEF Endpoints
<1>2. TypeOK
  BY DEF IInv
<1>3. TypeOK'
  BY <1>1, <1>2, WrongFiles DEF TypeOK
<1>4. /\ \A p \in Params : map[p] = {g \in Files \ todo : p \in Collected(g)}
      /\ base <=> Base \in Files \ todo /\ Mapped(Base) /\ content[Base].endpoints # NullEndpoints
      /\ envs = {g \in (Envs \cup Copies) \cap (Files \ todo) : Mapped(g)}
      /\ failed = {g \in Files \ todo : Found(g)}
      /\ exit = 1 <=> failed # {}
      /\ \A g \in Files \ todo : Breaks(g) => Fails(g, "resources")
      /\ todo = {}
  BY <1>1 DEF IInv, RunInv
<1>5. Wrong' = Wrong /\ (Comparable' <=> Comparable)
  BY <1>1, <1>2, MapsStay
<1>6. RunInv'
  <2>1. \A p \in Params : map'[p] = {g \in Files \ todo' : p \in Collected(g)'}
    BY <1>1, <1>4, FilesStay
  <2>2. base' <=> Base \in Files \ todo' /\ Mapped(Base)' /\ content'[Base].endpoints # NullEndpoints
    BY <1>1, <1>4, FilesStay, FileAssumption
  <2>3. envs' = {g \in (Envs \cup Copies) \cap (Files \ todo') : Mapped(g)'}
    BY <1>1, <1>4, FilesStay
  <2>4. failed' = {g \in Files \ todo' : Found(g)'} \cup Wrong'
    BY <1>1, <1>4, <1>5, FilesStay DEF Found
  <2>5. exit' = 1 <=> failed' # {} \/ ~Comparable'
    BY <1>1, <1>4, <1>5
  <2>6. \A g \in Files \ todo' : Breaks(g)' => Fails(g, "resources")'
    BY <1>1, <1>4, FilesStay
  <2> QED
    BY <1>1, <1>4, <2>1, <2>2, <2>3, <2>4, <2>5, <2>6 DEF RunInv
<1>7. LevelInv'
  BY <1>1, LevelsStay DEF IInv
<1> QED
  BY <1>3, <1>6, <1>7 DEF IInv

\* The definitions are compared, and the run ends with its list.
LEMMA CompareKeeps == IInv /\ Compare => IInv'
<1> SUFFICES ASSUME IInv, Compare PROVE IInv'
  OBVIOUS
<1> DEFINE mismatches == {p \in Params : Mismatched(p)}
<1>1. /\ UNCHANGED <<content, todo, map, base, envs, rounds>> /\ phase = "compare" /\ phase' = "ended"
      /\ failed' = failed \cup Disagreeing /\ ~NullDefinition
      /\ exit' = IF mismatches # {} THEN 1 ELSE exit
  BY DEF Compare, Disagreeing
<1>2. TypeOK
  BY DEF IInv
<1>3. TypeOK'
  BY <1>1, <1>2 DEF TypeOK, Disagreeing
<1>4. /\ \A p \in Params : map[p] = {g \in Files \ todo : p \in Collected(g)}
      /\ base <=> Base \in Files \ todo /\ Mapped(Base) /\ content[Base].endpoints # NullEndpoints
      /\ envs = {g \in (Envs \cup Copies) \cap (Files \ todo) : Mapped(g)}
      /\ failed = {g \in Files \ todo : Found(g)} \cup Wrong
      /\ exit = 1 <=> failed # {} \/ ~Comparable
      /\ \A g \in Files \ todo : Breaks(g) => Fails(g, "resources")
      /\ todo = {}
  BY <1>1 DEF IInv, RunInv
<1>5. /\ Wrong' = Wrong /\ (Comparable' <=> Comparable) /\ Disagreeing' = Disagreeing
      /\ (NullDefinition' <=> NullDefinition)
  BY <1>1, <1>2, MapsStay
<1>6. mismatches # {} <=> Disagreeing # {}
  BY DEF Mismatched, Disagreeing
<1>7. RunInv'
  <2>1. \A p \in Params : map'[p] = {g \in Files \ todo' : p \in Collected(g)'}
    BY <1>1, <1>4, FilesStay
  <2>2. base' <=> Base \in Files \ todo' /\ Mapped(Base)' /\ content'[Base].endpoints # NullEndpoints
    BY <1>1, <1>4, FilesStay, FileAssumption
  <2>3. envs' = {g \in (Envs \cup Copies) \cap (Files \ todo') : Mapped(g)'}
    BY <1>1, <1>4, FilesStay
  <2>4. failed' = {g \in Files \ todo' : Found(g)'} \cup Wrong' \cup Disagreeing'
    BY <1>1, <1>4, <1>5, FilesStay DEF Found
  <2>5. exit' = 1 <=> failed' # {} \/ ~Comparable'
    BY <1>1, <1>4, <1>5, <1>6
  <2>6. \A g \in Files \ todo' : Breaks(g)' => Fails(g, "resources")'
    BY <1>1, <1>4, FilesStay
  <2> QED
    BY <1>1, <1>4, <1>5, <2>1, <2>2, <2>3, <2>4, <2>5, <2>6 DEF RunInv
<1>8. LevelInv'
  BY <1>1, LevelsStay DEF IInv
<1> QED
  BY <1>3, <1>7, <1>8 DEF IInv

\* A definition without a value: not among those that four lists have settled.
LEMMA CompareRaiseKeeps == IInv /\ CompareRaise => IInv'
<1> SUFFICES ASSUME IInv, CompareRaise PROVE IInv'
  OBVIOUS
<1>1. ~(rounds >= 4 /\ NoTwins)
  <2> SUFFICES ASSUME rounds >= 4, NoTwins PROVE FALSE
    OBVIOUS
  <2>1. Four /\ phase = "compare" /\ NullDefinition
    BY DEF IInv, LevelInv, CompareRaise
  <2>2. \A p \in Params : map[p] = {g \in Files \ todo : p \in Collected(g)}
    BY <2>1 DEF IInv, RunInv
  <2>3. PICK p \in Params : \E f \in map[p] : Valueless(p, f)
    BY <2>1 DEF NullDefinition
  <2>4. PICK f \in map[p] : Valueless(p, f)
    BY <2>3
  <2>5. PICK g \in map[p] : g # f /\ content[f].params[p] = Null
    BY <2>4 DEF Valueless
  <2> QED
    BY <2>1, <2>2, <2>4, <2>5 DEF Four
<1> QED
  BY <1>1, TracebackKeeps DEF CompareRaise

(***************************************************************************)
(* The developer                                                           *)
(***************************************************************************)
\* A list has ended a run: what the run knows is of all the files.
LEMMA ListKnows ==
  ASSUME IInv, phase = "ended"
  PROVE  /\ \A p \in Params : map[p] = {g \in Files : p \in Collected(g)}
         /\ base <=> Mapped(Base) /\ content[Base].endpoints # NullEndpoints
         /\ envs = {g \in Envs \cup Copies : Mapped(g)}
         /\ \A g \in Files \ failed : ~Misplaced(g) /\ Retval(g) = 0
         /\ Wrong \subseteq failed /\ Disagreeing \subseteq failed /\ failed \subseteq Files
         /\ exit = 1 <=> failed # {} \/ ~Comparable
         /\ \A g \in Files : Breaks(g) => Fails(g, "resources")
         /\ ~NullDefinition
<1>1. /\ todo = {}
      /\ \A p \in Params : map[p] = {f \in Files \ todo : p \in Collected(f)}
      /\ base <=> Base \in Files \ todo /\ Mapped(Base) /\ content[Base].endpoints # NullEndpoints
      /\ envs = {f \in (Envs \cup Copies) \cap (Files \ todo) : Mapped(f)}
      /\ failed = {f \in Files \ todo : Found(f)} \cup Wrong \cup Disagreeing
      /\ exit = 1 <=> failed # {} \/ ~Comparable
      /\ \A f \in Files \ todo : Breaks(f) => Fails(f, "resources")
      /\ ~NullDefinition
  BY DEF IInv, RunInv
<1>2. \A g \in Files \ failed : ~Misplaced(g) /\ Retval(g) = 0
  BY <1>1, Returns DEF Found
<1>3. failed \subseteq Files
  BY DEF IInv, TypeOK
<1> QED
  BY <1>1, <1>2, <1>3, FileAssumption

\* What a repair leaves of a file.
LEMMA RepairedFile ==
  ASSUME IInv, Repair, NEW f \in Files
  PROVE  /\ f \in failed => content'[f] = Repaired(f)
         /\ f \notin failed => content'[f] = content[f]
         /\ content'[f].heat = content[f].heat
         /\ content'[f].parses <=> content[f].parses \/ Retval(f) = 1
         /\ \A c : Fails(f, c)' <=> Fails(f, c) /\ (f \in failed => c # "services-docker" /\ c \notin Printed(f))
         /\ \A p \in Params : content'[f].params[p] = IF f \in map[p] /\ Mismatched(p) THEN Right[p] ELSE content[f].params[p]
         /\ content'[f].endpoints = IF f \in Wrong THEN RightEndpoints ELSE content[f].endpoints
<1>1. phase = "ended" /\ content' = [g \in Files |-> IF g \in failed THEN Repaired(g) ELSE content[g]]
  BY DEF Repair
<1>2. content'[f] = IF f \in failed THEN Repaired(f) ELSE content[f]
  BY <1>1
<1>3. CASE f \in failed
  <2>1. content'[f] = Repaired(f)
    BY <1>2, <1>3
  <2>2. /\ content'[f].heat = content[f].heat
        /\ content'[f].parses = (content[f].parses \/ Retval(f) = 1)
        /\ content'[f].fails = content[f].fails \ (Printed(f) \cup {"services-docker"})
        /\ content'[f].params = [p \in Params |-> IF f \in map[p] /\ Mismatched(p) THEN Right[p] ELSE content[f].params[p]]
        /\ content'[f].endpoints = IF f \in Wrong THEN RightEndpoints ELSE content[f].endpoints
    BY <2>1 DEF Repaired
  <2>3. \A c : Fails(f, c)' <=> Fails(f, c) /\ c # "services-docker" /\ c \notin Printed(f)
    BY <2>2 DEF Fails
  <2>4. \A p \in Params : content'[f].params[p] = IF f \in map[p] /\ Mismatched(p) THEN Right[p] ELSE content[f].params[p]
    BY <2>2
  <2> QED
    BY <1>3, <2>1, <2>2, <2>3, <2>4
<1>4. CASE f \notin failed
  <2>1. Retval(f) = 0 /\ f \notin Wrong /\ f \notin Disagreeing
    BY <1>1, <1>4, ListKnows
  <2>2. \A p \in Params : ~(f \in map[p] /\ Mismatched(p))
    BY <2>1 DEF Disagreeing
  <2> QED
    BY <1>2, <1>4, <2>1, <2>2 DEF Fails
<1> QED
  BY <1>3, <1>4

\* The endpoints the developer settles on are those of the base from then on.
LEMMA RightOnes == RightEndpoints \notin {NoEndpoints, NullEndpoints}
BY FileAssumption DEF RightEndpoints

\* No repair removes an endpoint map.
LEMMA TwinsStay == IInv /\ Repair /\ NoTwins' => NoTwins
<1> SUFFICES ASSUME IInv, Repair, NoTwins', NEW f \in Copies PROVE content[f].endpoints = NoEndpoints
  BY DEF NoTwins
<1>1. f \in Files /\ content'[f].endpoints = NoEndpoints
  BY FileAssumption DEF NoTwins
<1> QED
  BY <1>1, RepairedFile, RightOnes

\* The first list.
LEMMA FirstList == IInv /\ Repair => One'
<1> SUFFICES ASSUME IInv, Repair, NEW f \in Files
             PROVE  (content'[f].parses \/ f \in Ansible) /\ ~Misplaced(f)'
  BY DEF One
<1>1. ~content[f].parses /\ f \notin Ansible => Retval(f) = 1
  BY DEF Retval, Unread, Excepted
<1>2. content'[f].parses \/ f \in Ansible
  BY <1>1, RepairedFile
<1>3. ~Misplaced(f)'
  <2>1. f \notin failed => ~Misplaced(f)
    BY ListKnows DEF Repair
  <2> QED
    BY <2>1, RepairedFile DEF Misplaced
<1> QED
  BY <1>2, <1>3

\* The second.
LEMMA SecondList == IInv /\ Repair /\ One /\ NoTwins => Two'
<1> SUFFICES ASSUME IInv, Repair, One, NoTwins PROVE Two'
  OBVIOUS
<1>1. phase = "ended"
  BY DEF Repair
<1>2. \A f \in Files : ~(content'[f].parses /\ Unsupported(f)')
  <2> SUFFICES ASSUME NEW f \in Files, content'[f].parses, Unsupported(f)' PROVE FALSE
    OBVIOUS
  <2>1. content[f].heat /\ Fails(f, "version")
    BY RepairedFile DEF Unsupported
  <2>2. content[f].parses
    <3> SUFFICES ASSUME ~content[f].parses PROVE FALSE
      OBVIOUS
    <3>1. Retval(f) = 0
      BY DEF One, Retval, Unread, Excepted
    <3> QED
      BY <3>1, RepairedFile
  <2>3. Unsupported(f) /\ ~Excepted(f) /\ Retval(f) = 1
    BY <2>1, <2>2 DEF Unsupported, Excepted, Unread, Retval
  <2>4. f \in failed
    BY <1>1, <2>3, ListKnows
  <2>5. "version" \in Printed(f)
    BY <2>2, <2>3 DEF Printed
  <2>6. ~Fails(f, "version")'
    BY <2>4, <2>5, RepairedFile
  <2> QED
    BY <2>6 DEF Unsupported
<1>3. Base \in Files /\ content'[Base].parses /\ content'[Base].endpoints \notin {NoEndpoints, NullEndpoints}
  <2>1. Base \in Files /\ content[Base].parses
    BY FileAssumption DEF One
  <2>2. content[Base].endpoints \in {NoEndpoints, NullEndpoints} => Base \in Wrong
    BY <1>1, ListKnows DEF Mapped, Comparable, Wrong
  <2> QED
    BY <2>1, <2>2, RepairedFile, RightOnes
<1>4. \A f \in Envs : content'[f].parses /\ content'[f].endpoints # NoEndpoints
  <2> SUFFICES ASSUME NEW f \in Envs PROVE content'[f].parses /\ content'[f].endpoints # NoEndpoints
    OBVIOUS
  <2>1. f \in Files /\ content[f].parses
    BY FileAssumption DEF One
  <2>2. content[f].endpoints = NoEndpoints => f \in Wrong
    <3> SUFFICES ASSUME content[f].endpoints = NoEndpoints PROVE f \in Wrong
      OBVIOUS
    <3>1. f \notin envs /\ envs # Envs /\ envs \subseteq {g \in Files : Mapped(g)}
      BY <1>1, ListKnows, FileAssumption DEF Mapped
    <3>2. Unmatched = Envs \ envs /\ Cardinality(envs) # Cardinality(Envs)
      BY <3>1, MapsCounted DEF IInv
    <3>3. ~Comparable
      BY <3>2 DEF Comparable
    <3> QED
      BY <3>1, <3>2, <3>3 DEF Wrong
  <2> QED
    BY <2>1, <2>2, RepairedFile, RightOnes
<1>5. \A f \in Envs \cup {Base} : Mapped(f)'
  BY <1>3, <1>4 DEF Mapped
<1> QED
  BY <1>2, <1>3, <1>5 DEF Two

\* The third, when everything has been loaded and every map found.
LEMMA ThirdList == IInv /\ Repair /\ One /\ Two /\ NoTwins => Three'
<1> SUFFICES ASSUME IInv, Repair, One, Two, NoTwins PROVE Three'
  OBVIOUS
<1>1. phase = "ended"
  BY DEF Repair
<1>2. ASSUME NEW f \in Files, Unread(f)' PROVE Retval(f)' = 0
  <2>1. CASE content[f].parses
    <3>1. ~Unsupported(f) /\ ~Unsupported(f)'
      BY <2>1, RepairedFile DEF Two, Unsupported
    <3>2. content'[f].parses /\ Fails(f, "exception")'
      BY <1>2, <2>1, <3>1, RepairedFile DEF Unread, Excepted
    <3>3. Fails(f, "exception")
      BY <3>2, RepairedFile
    <3>4. Excepted(f) /\ Unread(f)
      BY <3>1, <3>3 DEF Excepted, Unread
    <3>5. f \in Ansible
      <4> SUFFICES ASSUME f \notin Ansible PROVE FALSE
        OBVIOUS
      <4>1. Retval(f) = 1
        BY <3>4 DEF Retval
      <4>2. f \in failed
        BY <1>1, <4>1, ListKnows
      <4>3. "exception" \in Printed(f)
        BY <2>1, <3>1, <3>4, <4>1 DEF Printed
      <4> QED
        BY <3>2, <4>2, <4>3, RepairedFile
    <3>6. Excepted(f)'
      BY <3>1, <3>2 DEF Excepted
    <3> QED
      BY <1>2, <3>5, <3>6 DEF Retval
  <2>2. CASE ~content[f].parses
    <3>1. f \in Ansible /\ Retval(f) = 0
      BY <2>2 DEF One, Retval, Unread, Excepted
    <3>2. ~content'[f].parses
      BY <2>2, <3>1, RepairedFile
    <3> QED
      BY <3>1, <3>2 DEF Retval, Unread, Excepted
  <2> QED
    BY <2>1, <2>2
<1>3. ASSUME NEW f \in Envs PROVE ~Differs(f)'
  <2>1. base /\ envs = Envs
    BY <1>1, ListKnows, MapsCounted, FileAssumption DEF IInv, Two, NoTwins, Mapped
  <2>2. Wrong = {g \in Envs : Differs(g)}
    BY <2>1 DEF Comparable, Wrong
  <2>3. content'[Base].endpoints = content[Base].endpoints
    BY <2>2, RepairedFile, FileAssumption
  <2>4. RightEndpoints = content[Base].endpoints
    BY FileAssumption DEF Two, Mapped, RightEndpoints
  <2>5. content'[f].endpoints = IF f \in Wrong THEN RightEndpoints ELSE content[f].endpoints
    BY RepairedFile, FileAssumption
  <2> QED
    BY <2>2, <2>3, <2>4, <2>5 DEF Differs
<1> QED
  BY <1>2, <1>3 DEF Three

\* What has been loaded stays so, and what has not is passed.
LEMMA LoadedStays ==
  ASSUME IInv, Repair, One, Two, Three, NEW f \in Files
  PROVE  /\ Unread(f)' <=> Unread(f)
         /\ Unread(f) => Retval(f) = 0
         /\ ~Unread(f) => content[f].parses /\ ~Unsupported(f) /\ ~Excepted(f)
<1>1. Unread(f) => Retval(f) = 0
  BY DEF Three
<1>2. ~Unread(f) => content[f].parses /\ ~Unsupported(f) /\ ~Excepted(f)
  BY DEF Unread, Excepted
<1>3. CASE ~Unread(f)
  <2>1. content'[f].parses /\ ~Unsupported(f)'
    BY <1>2, <1>3, RepairedFile DEF Unsupported
  <2>2. ~Fails(f, "exception")
    BY <1>2, <1>3 DEF Excepted
  <2>3. ~Fails(f, "exception")'
    BY <2>2, RepairedFile
  <2> QED
    BY <1>2, <1>3, <2>1, <2>3 DEF Unread, Excepted
<1>4. CASE Unread(f)
  <2>1. Retval(f) = 0 /\ Printed(f) = {}
    BY <1>1, <1>4 DEF Printed
  <2>2. /\ content'[f].parses <=> content[f].parses
        /\ content'[f].heat = content[f].heat
        /\ Fails(f, "version")' <=> Fails(f, "version")
        /\ Fails(f, "exception")' <=> Fails(f, "exception")
    BY <2>1, RepairedFile
  <2>3. Unread(f)'
    BY <1>4, <2>2 DEF Unread, Excepted, Unsupported
  <2> QED
    BY <1>1, <1>4, <2>3
<1> QED
  BY <1>1, <1>2, <1>3, <1>4

\* What is printed of a file that is loaded and fails.
LEMMA PrintedOfLoaded ==
  ASSUME NEW f \in Files, content[f].parses, ~Unsupported(f), ~Excepted(f), Retval(f) = 1
  PROVE  /\ Checks(Place[f]) \cup {"resources"} \subseteq Printed(f)
         /\ (\A c \in Checks(Place[f]) : ~Fails(f, c)) => "nic config" \in Printed(f)
<1>1. Retval(f) # 0
  OBVIOUS
<1> DEFINE nic == IF \E c \in Checks(Place[f]) : Fails(f, c) THEN {} ELSE {"nic config"}
<1>2. Printed(f) = Checks(Place[f]) \cup {"resources"} \cup nic
  BY <1>1, Zenon DEF Printed
<1>3. (\A c \in Checks(Place[f]) : ~Fails(f, c)) => nic = {"nic config"}
  BY Zenon
<1> HIDE DEF nic
<1> QED
  BY <1>2, <1>3

\* The fourth: nothing but an old nic configuration behind another failure is hidden from it.
LEMMA FourthList == IInv /\ Repair /\ One /\ Two /\ Three => Four'
<1> SUFFICES ASSUME IInv, Repair, One, Two, Three PROVE Four'
  OBVIOUS
<1>1. phase = "ended"
  BY DEF Repair
<1>2. ASSUME NEW f \in Files, ~Unread(f)'
      PROVE  /\ \A c \in Checks(Place[f]) : ~Fails(f, c)'
             /\ ~(content'[f].heat /\ Fails(f, "resources")')
  <2>1. ~Unread(f) /\ content[f].parses /\ ~Unsupported(f) /\ ~Excepted(f)
    BY <1>2, LoadedStays
  <2>2. CASE Retval(f) = 1
    <3>1. f \in failed
      BY <1>1, <2>2, ListKnows
    <3>2. Checks(Place[f]) \cup {"resources"} \subseteq Printed(f)
      BY <2>1, <2>2, PrintedOfLoaded
    <3> QED
      BY <3>1, <3>2, RepairedFile
  <2>3. CASE Retval(f) # 1
    <3>1. Checked(f) = 0 /\ ~(content[f].heat /\ Fails(f, "resources"))
      BY <2>1, <2>3, Returns DEF Retval
    <3>2. \A c \in Checks(Place[f]) : ~Fails(f, c)
      BY <3>1, NothingFails
    <3>3. content'[f].heat = content[f].heat /\ \A c : Fails(f, c)' => Fails(f, c)
      BY RepairedFile
    <3> QED
      BY <3>1, <3>2, <3>3
  <2> QED
    BY <2>2, <2>3
<1>3. ASSUME NEW p \in Params, NEW f \in Files, p \in Collected(f)'
      PROVE  /\ f \in map[p]
             /\ content'[f].params[p] = IF Mismatched(p) THEN Right[p] ELSE content[f].params[p]
  <2>1. /\ content'[f].params[p] = IF f \in map[p] /\ Mismatched(p) THEN Right[p] ELSE content[f].params[p]
        /\ content'[f].heat = content[f].heat
    BY RepairedFile
  <2>2. ~Unread(f)' /\ content'[f].heat /\ content'[f].params[p] # Undefined
    BY <1>3, Zenon DEF Collected
  <2>3. ~Unread(f) /\ content[f].heat
    BY <2>1, <2>2, LoadedStays
  <2>4. \A q \in Params : map[q] = {g \in Files : q \in Collected(g)}
    BY <1>1, ListKnows
  <2>5. CASE f \in map[p]
    BY <2>1, <2>5
  <2>6. CASE f \notin map[p]
    <3>1. content[f].params[p] # Undefined
      BY <2>1, <2>2, <2>6
    <3>2. p \in Collected(f)
      BY <2>3, <3>1, Zenon DEF Collected
    <3> QED
      BY <2>4, <2>6, <3>2
  <2> QED
    BY <2>5, <2>6
<1>4. ASSUME NEW p \in Params, NEW f \in Files, NEW g \in Files, p \in Collected(f)', p \in Collected(g)'
      PROVE  Agree(p, f, g)' /\ (f # g => content'[f].params[p] # Null)
  <2>1. /\ f \in map[p] /\ content'[f].params[p] = IF Mismatched(p) THEN Right[p] ELSE content[f].params[p]
        /\ g \in map[p] /\ content'[g].params[p] = IF Mismatched(p) THEN Right[p] ELSE content[g].params[p]
    BY <1>3, <1>4
  <2>2. CASE Mismatched(p)
    <3>1. content'[f].params[p] = Right[p] /\ content'[g].params[p] = Right[p] /\ Right[p] # Null
      BY <2>1, <2>2, FileAssumption
    <3> QED
      BY <3>1 DEF Agree
  <2>3. CASE ~Mismatched(p)
    <3>1. content'[f].params[p] = content[f].params[p] /\ content'[g].params[p] = content[g].params[p]
      BY <2>1, <2>3
    <3>2. Agree(p, f, g)
      BY <2>1, <2>3 DEF Mismatched
    <3>3. Agree(p, f, g)'
      BY <3>1, <3>2 DEF Agree
    <3>4. f # g => content[f].params[p] # Null
      BY <1>1, <2>1, ListKnows DEF NullDefinition, Valueless
    <3> QED
      BY <3>1, <3>3, <3>4
  <2> QED
    BY <2>2, <2>3
<1> QED
  BY <1>2, <1>4 DEF Four

\* The fifth.
LEMMA FifthList == IInv /\ Repair /\ One /\ Two /\ Three /\ Four => Five'
<1> SUFFICES ASSUME IInv, Repair, One, Two, Three, Four, NEW f \in Files PROVE Retval(f)' = 0
  BY DEF Five
<1>1. phase = "ended"
  BY DEF Repair
<1>4. Retval(f) = 1 => f \in failed
  BY <1>1, ListKnows
<1>2. CASE Unread(f)
  <2>1. Unread(f)' /\ Retval(f) = 0 /\ Printed(f) = {}
    BY <1>2, LoadedStays DEF Printed
  <2>2. f \in Ansible /\ Excepted(f)
    BY <1>2, <2>1 DEF Retval
  <2>3. /\ content'[f].parses <=> content[f].parses
        /\ content'[f].heat = content[f].heat
        /\ Fails(f, "version")' <=> Fails(f, "version")
        /\ Fails(f, "exception")' <=> Fails(f, "exception")
    BY <2>1, RepairedFile
  <2>4. Excepted(f)'
    BY <2>2, <2>3 DEF Excepted, Unsupported
  <2> QED
    BY <2>1, <2>2, <2>4 DEF Retval
<1>3. CASE ~Unread(f)
  <2>1. ~Unread(f)' /\ content[f].parses /\ ~Unsupported(f) /\ ~Excepted(f)
    BY <1>3, LoadedStays
  <2>2. /\ \A c \in Checks(Place[f]) : ~Fails(f, c)
        /\ ~(content[f].heat /\ Fails(f, "resources"))
    BY <1>3 DEF Four
  <2>3. /\ content'[f].heat = content[f].heat
        /\ \A c : Fails(f, c)' => Fails(f, c) /\ (f \in failed => c \notin Printed(f))
    BY RepairedFile
  <2>4. ~(content'[f].heat /\ Fails(f, "nic config")')
    <3> SUFFICES ASSUME content[f].heat, Fails(f, "nic config"), f \in failed => "nic config" \notin Printed(f) PROVE FALSE
      BY <2>3
    <3>1. Checked(f) = 1
      <4>1. ~\E c \in Checks(Place[f]) : Fails(f, c)
        BY <2>2
      <4> QED
        BY <4>1, Zenon DEF Checked
    <3>2. Retval(f) = 1
      BY <1>3, <2>2, <3>1 DEF Retval
    <3>3. "nic config" \in Printed(f)
      BY <2>1, <2>2, <3>2, PrintedOfLoaded
    <3> QED
      BY <1>4, <3>2, <3>3
  <2>5. \A c \in Checks(Place[f]) : ~Fails(f, c)'
    BY <2>2, <2>3
  <2>6. Checked(f)' = 0
    BY <2>4, <2>5, Zenon DEF Checked
  <2>7. ~(content'[f].heat /\ Fails(f, "resources")')
    BY <2>2, <2>3
  <2> QED
    BY <2>1, <2>6, <2>7 DEF Retval
<1> QED
  BY <1>2, <1>3

\* When all this is settled, no list is left to repair.
LEMMA NothingListed == IInv /\ phase = "ended" /\ One /\ Two /\ Three /\ Four /\ Five /\ NoTwins => exit = 0
<1> SUFFICES ASSUME IInv, phase = "ended", One, Two, Three, Four, Five, NoTwins PROVE exit = 0
  OBVIOUS
<1>1. base /\ envs = Envs
  BY ListKnows, MapsCounted, FileAssumption DEF IInv, Two, NoTwins, Mapped
<1>2. Comparable /\ Wrong = {}
  BY <1>1 DEF Comparable, Wrong, Three
<1>3. Disagreeing = {}
  <2>1. \A p \in Params : ~Mismatched(p)
    BY ListKnows DEF Four, Mismatched
  <2> QED
    BY <2>1 DEF Disagreeing
<1>4. failed = {f \in Files : Found(f)} \cup Wrong \cup Disagreeing
  BY DEF IInv, RunInv
<1>5. \A f \in Files : ~Found(f)
  BY DEF One, Five, Found
<1>6. exit # 1
  BY <1>2, <1>3, <1>4, <1>5, ListKnows
<1> QED
  BY <1>6 DEF IInv, TypeOK

\* The list is repaired: one round more.
LEMMA RepairKeeps == IInv /\ Repair => IInv'
<1> SUFFICES ASSUME IInv, Repair PROVE IInv'
  OBVIOUS
<1>1. /\ UNCHANGED <<todo, map, base, envs, failed, exit>> /\ phase = "ended" /\ phase' = "idle" /\ exit = 1
      /\ content' = [f \in Files |-> IF f \in failed THEN Repaired(f) ELSE content[f]]
      /\ rounds' = IF rounds < MaxRounds THEN rounds + 1 ELSE rounds
  BY DEF Repair
<1>2. TypeOK'
  <2>1. DOMAIN content' = Files /\ \A f \in Files : DOMAIN content'[f] = FileFields
    BY <1>1 DEF IInv, TypeOK, Repaired, FileFields
  <2>2. rounds' \in 0 .. MaxRounds
    BY <1>1 DEF IInv, TypeOK, MaxRounds
  <2> QED
    BY <1>1, <2>1, <2>2 DEF IInv, TypeOK
<1>3. RunInv'
  BY <1>1 DEF RunInv
<1>4. LevelInv'
  <2> SUFFICES ASSUME NoTwins' PROVE LevelInv'
    BY DEF LevelInv
  <2>1. NoTwins
    BY TwinsStay
  <2>2. /\ rounds >= 1 => One
        /\ rounds >= 2 => Two
        /\ rounds >= 3 => Three
        /\ rounds >= 4 => Four
        /\ rounds >= 5 => Five /\ rounds = 5
    BY <2>1 DEF IInv, LevelInv
  <2>3. rounds \in 0 .. 6
    BY DEF IInv, TypeOK, MaxRounds
  <2>4. rounds < 5
    <3> SUFFICES ASSUME rounds >= 5 PROVE FALSE
      BY <2>3
    <3>1. One /\ Two /\ Three /\ Four /\ Five
      BY <2>2, <2>3
    <3> QED
      BY <1>1, <2>1, <3>1, NothingListed
  <2>5. rounds' = rounds + 1
    BY <1>1, <2>3, <2>4 DEF MaxRounds
  <2>6. One'
    BY FirstList
  <2>7. rounds >= 1 => Two'
    BY <2>1, <2>2, SecondList
  <2>8. rounds >= 2 => Three'
    BY <2>1, <2>2, <2>3, ThirdList
  <2>9. rounds >= 3 => Four'
    BY <2>2, <2>3, FourthList
  <2>10. rounds >= 4 => Five'
    BY <2>2, <2>3, FifthList
  <2> QED
    BY <1>1, <2>3, <2>4, <2>5, <2>6, <2>7, <2>8, <2>9, <2>10 DEF LevelInv
<1> QED
  BY <1>2, <1>3, <1>4 DEF IInv

\* Mending a template changes no more of it than what raised.
LEMMA MendTemplateKeeps == IInv /\ MendTemplate => IInv'
<1> SUFFICES ASSUME IInv, MendTemplate PROVE IInv'
  OBVIOUS
<1>1. /\ UNCHANGED <<todo, map, base, envs, failed, exit, culprit, rounds>> /\ phase' = "idle"
      /\ content' = [f \in Files |->
           IF f \in culprit THEN [content[f] EXCEPT !.fails = @ \ {"uncaught"}] ELSE content[f]]
  BY DEF MendTemplate
<1>2. ASSUME NEW f \in Files
      PROVE  /\ DOMAIN content'[f] = FileFields
             /\ content'[f].parses = content[f].parses /\ content'[f].heat = content[f].heat
             /\ content'[f].params = content[f].params /\ content'[f].endpoints = content[f].endpoints
             /\ \A c : c # "uncaught" => (c \in content'[f].fails <=> c \in content[f].fails)
             /\ content'[f].fails \subseteq content[f].fails
  <2>1. DOMAIN content[f] = FileFields
    BY DEF IInv, TypeOK
  <2>2. content'[f] = IF f \in culprit THEN [content[f] EXCEPT !.fails = @ \ {"uncaught"}] ELSE content[f]
    BY <1>1
  <2> QED
    BY <2>1, <2>2 DEF FileFields
<1>3. TypeOK'
  BY <1>1, <1>2 DEF IInv, TypeOK
<1>4. RunInv'
  BY <1>1 DEF RunInv
<1>5. ASSUME NEW f \in Files
      PROVE  /\ Fails(f, "version")' <=> Fails(f, "version")
             /\ Fails(f, "exception")' <=> Fails(f, "exception")
             /\ Fails(f, "resources")' <=> Fails(f, "resources")
             /\ Fails(f, "nic config")' <=> Fails(f, "nic config")
             /\ Misplaced(f)' <=> Misplaced(f)
             /\ \A c : Fails(f, c)' => Fails(f, c)
  BY <1>2 DEF Fails, Misplaced
<1>6. ASSUME NEW f \in Files
      PROVE  (Unsupported(f)' <=> Unsupported(f)) /\ (Excepted(f)' <=> Excepted(f)) /\ (Unread(f)' <=> Unread(f))
  BY <1>2, <1>5 DEF Unsupported, Excepted, Unread
<1>7. ASSUME NEW f \in Files, Retval(f) = 0 PROVE Retval(f)' = 0
  <2>1. CASE Unread(f)
    BY <1>6, <1>7, <2>1 DEF Retval
  <2>2. CASE ~Unread(f)
    <3>1. Checked(f) = 0 /\ ~(content[f].heat /\ Fails(f, "resources"))
      BY <1>7, <2>2 DEF Retval
    <3>2. /\ \A c \in Checks(Place[f]) : ~Fails(f, c)'
          /\ ~(content'[f].heat /\ Fails(f, "nic config")')
      BY <1>2, <1>5, <3>1, NothingFails
    <3>3. Checked(f)' = 0
      BY <3>2, Zenon DEF Checked
    <3> QED
      BY <1>2, <1>5, <1>6, <2>2, <3>1, <3>3 DEF Retval
  <2> QED
    BY <2>1, <2>2
<1>8. ASSUME NEW f \in Files
      PROVE  (Mapped(f)' <=> Mapped(f)) /\ (Differs(f)' <=> Differs(f)) /\ Collected(f)' = Collected(f)
  <2>1. Mapped(f)' <=> Mapped(f)
    BY <1>2 DEF Mapped
  <2>2. Base \in Files
    BY FileAssumption
  <2>3. Differs(f)' <=> Differs(f)
    BY <1>2, <2>2 DEF Differs
  <2>4. (Unread(f)' <=> Unread(f)) /\ content'[f].heat = content[f].heat /\ content'[f].params = content[f].params
    BY <1>2, <1>6
  <2>5. Collected(f)' = Collected(f)
    BY <2>4 DEF Collected
  <2> QED
    BY <2>1, <2>3, <2>5
<1>9. \A p \in Params : \A f, g \in Files : Agree(p, f, g)' <=> Agree(p, f, g)
  BY <1>2 DEF Agree
<1>10. NoTwins' <=> NoTwins
  BY <1>2, FileAssumption DEF NoTwins
<1>11. One => One'
  BY <1>2, <1>5 DEF One
<1>12. Two => Two'
  BY <1>2, <1>6, <1>8, FileAssumption DEF Two
<1>13. Three => Three'
  BY <1>6, <1>7, <1>8, FileAssumption DEF Three
<1>14. Four => Four'
  BY <1>2, <1>5, <1>6, <1>8, <1>9 DEF Four
<1>15. Five => Five'
  BY <1>7 DEF Five
<1>16. LevelInv'
  BY <1>1, <1>10, <1>11, <1>12, <1>13, <1>14, <1>15 DEF IInv, LevelInv
<1> QED
  BY <1>3, <1>4, <1>16 DEF IInv

\* Mending maps gives them the endpoints of the base.
LEMMA MendMapsKeeps == IInv /\ MendMaps => IInv'
<1> SUFFICES ASSUME IInv, MendMaps PROVE IInv'
  OBVIOUS
<1>1. /\ UNCHANGED <<todo, map, base, envs, failed, exit, culprit, rounds>> /\ phase' = "idle"
      /\ content' = [f \in Files |->
           IF f \in envs /\ content[f].endpoints = NullEndpoints
           THEN [content[f] EXCEPT !.endpoints = RightEndpoints] ELSE content[f]]
  BY DEF MendMaps
<1>2. ASSUME NEW f \in Files
      PROVE  /\ DOMAIN content'[f] = FileFields
             /\ content'[f].parses = content[f].parses /\ content'[f].heat = content[f].heat
             /\ content'[f].params = content[f].params /\ content'[f].fails = content[f].fails
             /\ content'[f].endpoints = IF f \in envs /\ content[f].endpoints = NullEndpoints
                                        THEN RightEndpoints ELSE content[f].endpoints
  <2>1. DOMAIN content[f] = FileFields
    BY DEF IInv, TypeOK
  <2>2. content'[f] = IF f \in envs /\ content[f].endpoints = NullEndpoints
                      THEN [content[f] EXCEPT !.endpoints = RightEndpoints] ELSE content[f]
    BY <1>1
  <2> QED
    BY <2>1, <2>2 DEF FileFields
<1>3. TypeOK'
  BY <1>1, <1>2 DEF IInv, TypeOK
<1>4. RunInv'
  BY <1>1 DEF RunInv
<1>5. ASSUME NEW f \in Files
      PROVE  /\ \A c : Fails(f, c)' <=> Fails(f, c)
             /\ (Misplaced(f)' <=> Misplaced(f)) /\ (Unsupported(f)' <=> Unsupported(f))
             /\ (Excepted(f)' <=> Excepted(f)) /\ (Unread(f)' <=> Unread(f))
  BY <1>2 DEF Fails, Misplaced, Unsupported, Excepted, Unread
<1>6. ASSUME NEW f \in Files PROVE Retval(f)' = Retval(f)
  BY <1>2, <1>5 DEF Retval, Checked
<1>7. ASSUME NEW f \in Files PROVE Collected(f)' = Collected(f)
  BY <1>2, <1>5 DEF Collected
<1>8. \A p \in Params : \A f, g \in Files : Agree(p, f, g)' <=> Agree(p, f, g)
  BY <1>2 DEF Agree
<1>9. Base \in Files /\ content'[Base].endpoints = content[Base].endpoints
  <2>1. Base \in Files /\ Base \notin envs
    BY FileAssumption DEF IInv, TypeOK
  <2> QED
    BY <1>2, <2>1
<1>10. NoTwins' => NoTwins
  BY <1>2, RightOnes, FileAssumption DEF NoTwins
<1>11. One => One'
  BY <1>2, <1>5 DEF One
<1>12. Two => Two'
  <2> SUFFICES ASSUME Two PROVE Two'
    OBVIOUS
  <2>1. ASSUME NEW f \in Files PROVE ~(content'[f].parses /\ Unsupported(f)')
    <3>1. content'[f].parses = content[f].parses /\ (Unsupported(f)' <=> Unsupported(f))
      BY <1>2, <1>5
    <3>2. ~(content[f].parses /\ Unsupported(f))
      BY DEF Two
    <3> QED
      BY <3>1, <3>2
  <2>2. \A f \in Envs \cup {Base} : Mapped(f)'
    BY <1>2, RightOnes, FileAssumption DEF Two, Mapped
  <2> QED
    BY <1>9, <2>1, <2>2 DEF Two
<1>13. Two /\ Three => Three'
  <2> SUFFICES ASSUME Two, Three PROVE Three'
    OBVIOUS
  <2>1. RightEndpoints = content[Base].endpoints
    BY FileAssumption DEF Two, Mapped, RightEndpoints
  <2>2. \A f \in Envs : ~Differs(f)'
    BY <1>2, <1>9, <2>1, FileAssumption DEF Three, Differs
  <2> QED
    BY <1>5, <1>6, <2>2 DEF Three
<1>14. Four => Four'
  BY <1>2, <1>5, <1>7, <1>8 DEF Four
<1>15. Five => Five'
  BY <1>6 DEF Five
<1>16. LevelInv'
  <2> SUFFICES ASSUME NoTwins' PROVE LevelInv'
    BY DEF LevelInv
  <2>1. /\ rounds >= 1 => One
        /\ rounds >= 2 => Two
        /\ rounds >= 3 => Three
        /\ rounds >= 4 => Four
        /\ rounds >= 5 => Five /\ rounds = 5
    BY <1>10 DEF IInv, LevelInv
  <2>2. rounds \in 0 .. 6
    BY DEF IInv, TypeOK, MaxRounds
  <2> QED
    BY <1>1, <1>11, <1>12, <1>13, <1>14, <1>15, <2>1, <2>2 DEF LevelInv
<1> QED
  BY <1>3, <1>4, <1>16 DEF IInv

\* Mending definitions: four lists have left none to mend.
LEMMA MendDefinitionsKeeps == IInv /\ MendDefinitions => IInv'
<1> SUFFICES ASSUME IInv, MendDefinitions PROVE IInv'
  OBVIOUS
<1>1. /\ UNCHANGED <<todo, map, base, envs, failed, exit, culprit, rounds>> /\ phase = "update" /\ phase' = "idle"
      /\ content' = [f \in Files |->
           [content[f] EXCEPT !.params =
              [p \in Params |-> IF Valueless(p, f) THEN Right[p] ELSE content[f].params[p]]]]
  BY DEF MendDefinitions
<1>2. ASSUME NEW f \in Files
      PROVE  /\ DOMAIN content'[f] = FileFields
             /\ content'[f].parses = content[f].parses /\ content'[f].heat = content[f].heat
             /\ content'[f].endpoints = content[f].endpoints /\ content'[f].fails = content[f].fails
  <2>1. DOMAIN content[f] = FileFields
    BY DEF IInv, TypeOK
  <2> DEFINE params == [p \in Params |-> IF Valueless(p, f) THEN Right[p] ELSE content[f].params[p]]
  <2>2. content'[f] = [content[f] EXCEPT !.params = params]
    BY <1>1
  <2> HIDE DEF params
  <2> QED
    BY <2>1, <2>2 DEF FileFields
<1>3. TypeOK'
  BY <1>1, <1>2 DEF IInv, TypeOK
<1>4. RunInv'
  BY <1>1 DEF RunInv
<1>5. ASSUME NEW f \in Files
      PROVE  /\ \A c : Fails(f, c)' <=> Fails(f, c)
             /\ (Misplaced(f)' <=> Misplaced(f)) /\ (Unsupported(f)' <=> Unsupported(f))
             /\ (Excepted(f)' <=> Excepted(f)) /\ (Unread(f)' <=> Unread(f))
  BY <1>2 DEF Fails, Misplaced, Unsupported, Excepted, Unread
<1>6. ASSUME NEW f \in Files PROVE Retval(f)' = Retval(f)
  BY <1>2, <1>5 DEF Retval, Checked
<1>7. ASSUME NEW f \in Files PROVE (Mapped(f)' <=> Mapped(f)) /\ (Differs(f)' <=> Differs(f))
  BY <1>2, FileAssumption DEF Mapped, Differs
<1>8. NoTwins' <=> NoTwins
  BY <1>2, FileAssumption DEF NoTwins
<1>9. One => One'
  BY <1>2, <1>5 DEF One
<1>10. Two => Two'
  <2> SUFFICES ASSUME Two PROVE Two'
    OBVIOUS
  <2>1. ASSUME NEW f \in Files PROVE ~(content'[f].parses /\ Unsupported(f)')
    <3>1. content'[f].parses = content[f].parses /\ (Unsupported(f)' <=> Unsupported(f))
      BY <1>2, <1>5
    <3>2. ~(content[f].parses /\ Unsupported(f))
      BY DEF Two
    <3> QED
      BY <3>1, <3>2
  <2>2. \A f \in Envs \cup {Base} : Mapped(f)'
    BY <1>7, FileAssumption DEF Two
  <2>3. content'[Base].endpoints # NullEndpoints
    BY <1>2, FileAssumption DEF Two
  <2> QED
    BY <2>1, <2>2, <2>3 DEF Two
<1>11. Three => Three'
  BY <1>5, <1>6, <1>7, FileAssumption DEF Three
<1>12. LevelInv'
  <2> SUFFICES ASSUME NoTwins' PROVE LevelInv'
    BY DEF LevelInv
  <2>1. /\ rounds >= 1 => One
        /\ rounds >= 2 => Two
        /\ rounds >= 3 => Three
        /\ ~(rounds >= 4)
    BY <1>1, <1>8 DEF IInv, LevelInv
  <2>2. rounds \in 0 .. 6
    BY DEF IInv, TypeOK, MaxRounds
  <2> QED
    BY <1>1, <1>9, <1>10, <1>11, <2>1, <2>2 DEF LevelInv
<1> QED
  BY <1>3, <1>4, <1>12 DEF IInv

(***************************************************************************)
(* The theorems                                                            *)
(***************************************************************************)
\* Nothing happens.
LEMMA NothingKeeps == IInv /\ UNCHANGED tvars => IInv'
<1> SUFFICES ASSUME IInv, UNCHANGED tvars PROVE IInv'
  OBVIOUS
<1>1. UNCHANGED content /\ UNCHANGED <<phase, todo, map, base, envs, failed, exit, rounds>> /\ TypeOK
  BY DEF tvars, IInv
<1>2. TypeOK'
  BY <1>1 DEF TypeOK
<1>3. /\ Wrong' = Wrong /\ (Comparable' <=> Comparable) /\ Disagreeing' = Disagreeing
      /\ (NullDefinition' <=> NullDefinition)
  BY <1>1, MapsStay
<1>4. RunInv'
  <2>1. CASE phase \in {"walk", "endpoints", "compare", "ended"}
    <3>1. /\ \A p \in Params : map[p] = {f \in Files \ todo : p \in Collected(f)}
          /\ base <=> Base \in Files \ todo /\ Mapped(Base) /\ content[Base].endpoints # NullEndpoints
          /\ envs = {f \in (Envs \cup Copies) \cap (Files \ todo) : Mapped(f)}
          /\ failed = {f \in Files \ todo : Found(f)} \cup (IF phase \in {"compare", "ended"} THEN Wrong ELSE {})
                      \cup (IF phase = "ended" THEN Disagreeing ELSE {})
          /\ exit = 1 <=> failed # {} \/ (phase \in {"compare", "ended"} /\ ~Comparable)
          /\ \A f \in Files \ todo : Breaks(f) => Fails(f, "resources")
          /\ phase \in {"endpoints", "compare", "ended"} => todo = {}
          /\ phase = "ended" => ~NullDefinition
      BY <2>1 DEF IInv, RunInv
    <3>2. \A p \in Params : map'[p] = {g \in Files \ todo' : p \in Collected(g)'}
      BY <1>1, <3>1, FilesStay
    <3>3. base' <=> Base \in Files \ todo' /\ Mapped(Base)' /\ content'[Base].endpoints # NullEndpoints
      BY <1>1, <3>1, FilesStay, FileAssumption
    <3>4. envs' = {g \in (Envs \cup Copies) \cap (Files \ todo') : Mapped(g)'}
      BY <1>1, <3>1, FilesStay
    <3>5. {g \in Files \ todo' : Found(g)'} = {g \in Files \ todo : Found(g)}
      BY <1>1, FilesStay DEF Found
    <3>6. failed' = {g \in Files \ todo' : Found(g)'} \cup (IF phase' \in {"compare", "ended"} THEN Wrong' ELSE {})
                    \cup (IF phase' = "ended" THEN Disagreeing' ELSE {})
      BY <1>1, <1>3, <3>1, <3>5
    <3>7. exit' = 1 <=> failed' # {} \/ (phase' \in {"compare", "ended"} /\ ~Comparable')
      BY <1>1, <1>3, <3>1
    <3>8. \A f \in Files \ todo' : Breaks(f)' => Fails(f, "resources")'
      BY <1>1, <3>1, FilesStay
    <3>9. (phase' \in {"endpoints", "compare", "ended"} => todo' = {}) /\ (phase' = "ended" => ~NullDefinition')
      BY <1>1, <1>3, <3>1
    <3> QED
      BY <3>2, <3>3, <3>4, <3>6, <3>7, <3>8, <3>9 DEF RunInv
  <2>2. CASE phase \notin {"walk", "endpoints", "compare", "ended"}
    BY <1>1, <2>2 DEF RunInv
  <2> QED
    BY <2>1, <2>2
<1>5. LevelInv'
  <2>1. phase = "update" => ~(rounds >= 4 /\ NoTwins)
    BY DEF IInv, LevelInv
  <2> QED
    BY <1>1, <2>1, LevelsStay DEF IInv
<1> QED
  BY <1>2, <1>4, <1>5 DEF IInv

\* Every step keeps the inductive invariant.
LEMMA NextInv == IInv /\ [Next]_tvars => IInv'
<1> SUFFICES ASSUME IInv, [Next]_tvars PROVE IInv'
  OBVIOUS
<1>1. CASE Begin
  BY <1>1, BeginKeeps
<1>2. CASE \E f \in Files : Visit(f)
  BY <1>2, VisitKeeps
<1>3. CASE \E f \in Files : Break(f)
  BY <1>3, BreakKeeps
<1>4. CASE Endpoints
  BY <1>4, EndpointsKeeps
<1>5. CASE EndpointsRaise
  BY <1>5, EndpointsRaiseKeeps
<1>6. CASE Compare
  BY <1>6, CompareKeeps
<1>7. CASE CompareRaise
  BY <1>7, CompareRaiseKeeps
<1>8. CASE Repair
  BY <1>8, RepairKeeps
<1>9. CASE MendTemplate
  BY <1>9, MendTemplateKeeps
<1>10. CASE MendMaps
  BY <1>10, MendMapsKeeps
<1>11. CASE MendDefinitions
  BY <1>11, MendDefinitionsKeeps
<1>12. CASE UNCHANGED tvars
  BY <1>12, NothingKeeps
<1> QED
  BY <1>1, <1>2, <1>3, <1>4, <1>5, <1>6, <1>7, <1>8, <1>9, <1>10, <1>11, <1>12, Zenon DEF Next, Validate, Developer

\* What a run knows is so of the files it has visited, and what a list has settled is so for good.
THEOREM Invariance == Spec => []IInv
BY InitInv, NextInv, PTL DEF Spec

\* For any tree: exit status 0 means that every file that can be loaded passes its checks, that no
\* two templates disagree on a parameter, and that the endpoint maps that were found, which without
\* copies are those of all environments, match the base's.
THEOREM ZeroClean == Spec => []ZeroIsClean
<1>1. IInv => ZeroIsClean
  <2> SUFFICES ASSUME IInv, phase = "ended", exit = 0 PROVE ZeroIsClean
    BY DEF ZeroIsClean
  <2>1. /\ failed = {} /\ Comparable
        /\ \A f \in Files : ~Misplaced(f) /\ Retval(f) = 0
        /\ Wrong = {} /\ Disagreeing = {}
        /\ \A p \in Params : map[p] = {f \in Files : p \in Collected(f)}
        /\ \A f \in Files : Breaks(f) => Fails(f, "resources")
        /\ envs = {f \in Envs \cup Copies : Mapped(f)}
    BY ListKnows
  <2>2. \A f \in Files : content[f].parses \/ f \in Ansible
    BY <2>1 DEF Retval, Unread, Excepted
  <2>3. ASSUME NEW f \in Files, Loaded(f)
        PROVE  /\ content[f].parses /\ ~Unread(f) /\ ~Fails(f, "exception") /\ ~(content[f].heat /\ Fails(f, "version"))
               /\ Checked(f) = 0 /\ ~(content[f].heat /\ Fails(f, "resources"))
    <3>1. content[f].parses /\ Retval(f) = 0
      BY <2>1, <2>3 DEF Loaded
    <3>2. ~Unread(f)
      BY <2>3, <3>1 DEF Loaded, Retval, Unread, Excepted
    <3> QED
      BY <3>1, <3>2 DEF Retval, Unread, Excepted, Unsupported
  <2>4. ASSUME NEW f \in Files, Loaded(f)
        PROVE  content[f].fails \cap (Checks(Place[f]) \cup {"exception", "services-docker"}) = {}
    <3>1. ~Fails(f, "exception") /\ ~Fails(f, "services-docker")
      BY <2>1, <2>3, <2>4 DEF Misplaced
    <3>2. \A c \in Checks(Place[f]) : ~Fails(f, c)
      BY <2>3, <2>4, NothingFails
    <3> QED
      BY <3>1, <3>2 DEF Fails
  <2>5. ASSUME NEW f \in Files, Heat(f)
        PROVE  content[f].fails \cap {"version", "nic config", "resources", "uncaught"} = {}
    <3>1. Loaded(f) /\ content[f].heat
      BY <2>5 DEF Heat
    <3>2. ~Unread(f) /\ ~Fails(f, "version") /\ Checked(f) = 0 /\ ~Fails(f, "resources")
      BY <2>3, <3>1
    <3>3. ~Fails(f, "nic config")
      BY <3>1, <3>2, NothingFails
    <3>4. ~Fails(f, "uncaught")
      BY <2>1, <3>1, <3>2 DEF Breaks
    <3> QED
      BY <3>2, <3>3, <3>4 DEF Fails
  <2>6. ASSUME NEW p \in Params, NEW f \in Files, NEW g \in Files, Defines(f, p), Defines(g, p)
        PROVE  Agree(p, f, g)
    <3>1. p \in Collected(f) /\ p \in Collected(g)
      BY <2>3, <2>6 DEF Defines, Heat, Collected
    <3>2. f \in map[p] /\ g \in map[p]
      BY <2>1, <3>1
    <3>3. ~Mismatched(p)
      BY <2>1, <3>2 DEF Disagreeing
    <3> QED
      BY <3>2, <3>3 DEF Mismatched
  <2>7. \A f \in envs : ~Differs(f)
    BY <2>1 DEF Wrong
  <2>8. NoTwins => \A f \in Envs : ~Differs(f)
    <3>1. NoTwins => envs = Envs
      BY <2>1, MapsCounted, FileAssumption DEF IInv
    <3> QED
      BY <2>7, <3>1
  <2> QED
    BY <2>2, <2>4, <2>5, <2>6, <2>7, <2>8 DEF ZeroIsClean
<1> QED
  BY <1>1, Invariance, PTL

\* For any tree without a second map of an environment: what unreadable files, raising checks and
\* missing maps hide has been in a list by the fifth, and no run ends with a sixth.
THEOREM FiveRounds == Spec => []FiveRoundsSuffice
<1>1. IInv => FiveRoundsSuffice
  BY DEF IInv, TypeOK, MaxRounds, LevelInv, FiveRoundsSuffice
<1> QED
  BY <1>1, Invariance, PTL

(***************************************************************************)
(* Sets of numbers                                                         *)
(***************************************************************************)
\* A set of numbers has a least.
LEMMA Least ==
  ASSUME NEW T \in SUBSET Nat, T # {}
  PROVE  \E n \in T : \A m \in T : n <= m
<1>1. IsWellFoundedOn(OpToRel(<, Nat), Nat)
  BY NatLessThanWellFounded
<1>2. PICK n \in T : \A m \in T : ~ (<<m, n>> \in OpToRel(<, Nat))
  BY <1>1, WFMin, Zenon
<1>3. \A m \in T : ~ (m < n)
  BY <1>2 DEF OpToRel
<1> QED
  BY <1>3

\* Numbers up to n have a greatest.
LEMMA Greatest ==
  ASSUME NEW n \in Nat, NEW T \in SUBSET (1..n), T # {}
  PROVE  \E m \in T : \A j \in T : j <= m
<1> DEFINE U == {n - j : j \in T}
<1>1. U \in SUBSET Nat
  OBVIOUS
<1>0. U # {}
  OBVIOUS
<1>2. PICK u \in U : \A w \in U : u <= w
  BY <1>0, <1>1, Least
<1>3. PICK m \in T : u = n - m
  BY <1>2
<1>4. ASSUME NEW j \in T PROVE j <= m
  <2>1. n - j \in U
    OBVIOUS
  <2>2. m \in Nat /\ j \in Nat
    OBVIOUS
  <2> HIDE DEF U
  <2>3. u <= n - j
    BY <1>2, <2>1
  <2>4. n - m <= n - j
    BY <1>3, <2>3
  <2> QED
    BY <2>2, <2>4
<1> QED
  BY <1>4

\* A name that ends in a word is determined by what is before it.
LEMMA AppendInjective ==
  ASSUME NEW S, NEW a \in Seq(S), NEW b \in Seq(S), NEW x \in S, NEW y \in S, a \o <<x>> = b \o <<y>>
  PROVE  a = b /\ x = y
<1>1. /\ Len(a \o <<x>>) = Len(a) + 1 /\ (a \o <<x>>)[Len(a) + 1] = x
      /\ \A i \in 1..Len(a) : (a \o <<x>>)[i] = a[i]
  OBVIOUS
<1>2. /\ Len(b \o <<y>>) = Len(b) + 1 /\ (b \o <<y>>)[Len(b) + 1] = y
      /\ \A i \in 1..Len(b) : (b \o <<y>>)[i] = b[i]
  OBVIOUS
<1>3. Len(a) = Len(b) /\ x = y
  BY <1>1, <1>2
<1>4. \A i \in 1..Len(a) : a[i] = b[i]
  BY <1>1, <1>2, <1>3
<1> QED
  BY <1>3, <1>4

\* That word is its last.
LEMMA AppendLast ==
  ASSUME NEW S, NEW a \in Seq(S), NEW x \in S
  PROVE  Last(a \o <<x>>) = x
<1>1. Len(a \o <<x>>) = Len(a) + 1 /\ (a \o <<x>>)[Len(a) + 1] = x
  OBVIOUS
<1> QED
  BY <1>1 DEF Last

\* So is what is behind a name by the whole.
LEMMA PrefixCancels ==
  ASSUME NEW S, NEW p \in Seq(S), NEW a \in Seq(S), NEW b \in Seq(S), p \o a = p \o b
  PROVE  a = b
<1>1. /\ Len(p \o a) = Len(p) + Len(a) /\ Len(p \o b) = Len(p) + Len(b)
      /\ \A i \in 1..Len(a) : (p \o a)[Len(p) + i] = a[i]
      /\ \A i \in 1..Len(b) : (p \o b)[Len(p) + i] = b[i]
  OBVIOUS
<1>2. Len(a) = Len(b)
  BY <1>1
<1>3. \A i \in 1..Len(a) : a[i] = b[i]
  BY <1>1, <1>2
<1> QED
  BY <1>2, <1>3

(***************************************************************************)
(* build_endpoint_map.py                                                   *)
(***************************************************************************)
Words == STRING \cup EndpointTypes

Ends(a, x) == a \o <<x>>
Joins(p, a) == p \o a

\* The same of names.
LEMMA NamesTell ==
  /\ \A a, b \in Seq(Words), x, y \in Words : Ends(a, x) = Ends(b, y) => a = b /\ x = y
  /\ \A a \in Seq(Words), x \in Words : Last(Ends(a, x)) = x
  /\ \A p, a, b \in Seq(Words) : Joins(p, a) \in Seq(Words) /\ (Joins(p, a) = Joins(p, b) => a = b)
<1>1. \A a, b \in Seq(Words), x, y \in Words : a \o <<x>> = b \o <<y>> => a = b /\ x = y
  BY AppendInjective
<1>2. \A a \in Seq(Words), x \in Words : Last(a \o <<x>>) = x
  BY AppendLast
<1>3. \A p, a, b \in Seq(Words) : p \o a = p \o b => a = b
  BY PrefixCancels
<1>4. \A p, a \in Seq(Words) : p \o a \in Seq(Words)
  OBVIOUS
<1> QED
  BY <1>1, <1>2, <1>3, <1>4, Zenon DEF Ends, Joins

\* What the assumption says of a service.
LEMMA Services ==
  ASSUME NEW config \in Configs, NEW s \in ToSet(config)
  PROVE  /\ s.name \in Seq(Words) /\ DOMAIN s.types \subseteq EndpointTypes /\ DOMAIN s.types \subseteq Words
         /\ \A t \in DOMAIN s.types : \A v \in DOMAIN s.types[t].suffixes : v \in Seq(Words)
         /\ \A t \in DOMAIN s.types : \A v \in DOMAIN s.types[t].names : Last(s.types[t].names[v]) \notin EndpointTypes
         /\ \A t, u \in DOMAIN s.types : \A v \in DOMAIN s.types[t].names : \A w \in DOMAIN s.types[u].names :
              s.types[t].names[v] = s.types[u].names[w] => <<t, v>> = <<u, w>>
<1> DEFINE Told(x) ==
         /\ x.name \in Seq(STRING) /\ DOMAIN x.types \subseteq EndpointTypes
         /\ \A t \in DOMAIN x.types :
              /\ \A v \in DOMAIN x.types[t].suffixes : v \in Seq(STRING)
              /\ \A v \in DOMAIN x.types[t].names :
                   /\ x.types[t].names[v] \in Seq(STRING) \ {<<>>}
                   /\ Last(x.types[t].names[v]) \notin EndpointTypes
                   /\ \A u \in DOMAIN x.types : \A w \in DOMAIN x.types[u].names :
                        x.types[t].names[v] = x.types[u].names[w] => <<t, v>> = <<u, w>>
<1>0. \A x \in ToSet(config) : Told(x)
  BY ConfigAssumption
<1>1. Told(s)
  BY <1>0
<1>2. \A S, T : S \subseteq T => \A list \in Seq(S) : list \in Seq(T)
  OBVIOUS
<1>3. STRING \subseteq Words /\ EndpointTypes \subseteq Words
  BY DEF Words
<1>4. \A list \in Seq(STRING) : list \in Seq(Words)
  BY <1>2, <1>3, Zenon
<1>5. s.name \in Seq(Words) /\ \A t \in DOMAIN s.types : \A v \in DOMAIN s.types[t].suffixes : v \in Seq(Words)
  BY <1>1, <1>4
<1>6. DOMAIN s.types \subseteq EndpointTypes /\ DOMAIN s.types \subseteq Words
  BY <1>1, <1>3
<1>7. \A t \in DOMAIN s.types : \A v \in DOMAIN s.types[t].names : Last(s.types[t].names[v]) \notin EndpointTypes
  BY <1>1
<1>8. ASSUME NEW t \in DOMAIN s.types, NEW u \in DOMAIN s.types, NEW v \in DOMAIN s.types[t].names,
             NEW w \in DOMAIN s.types[u].names, s.types[t].names[v] = s.types[u].names[w]
      PROVE  <<t, v>> = <<u, w>>
  BY <1>1, <1>8
<1> QED
  BY <1>5, <1>6, <1>7, <1>8

\* The key of an endpoint says whose it is.
LEMMA KeyTells ==
  ASSUME NEW config \in Configs, NEW p \in Pairs(config), NEW q \in Pairs(config), Key(p[1], p[2]) = Key(q[1], q[2])
  PROVE  p = q
<1>1. /\ p = <<p[1], p[2]>> /\ p[1] \in ToSet(config) /\ p[2] \in EndpointTypes
      /\ q = <<q[1], q[2]>> /\ q[1] \in ToSet(config) /\ q[2] \in EndpointTypes
  BY DEF Pairs
<1>2. p[1].name \in Seq(Words) /\ q[1].name \in Seq(Words)
  BY <1>1, Services, Zenon
<1>3. p[2] \in Words /\ q[2] \in Words
  BY <1>1 DEF Words
<1>4. p[1].name = q[1].name /\ p[2] = q[2]
  <2>1. Ends(p[1].name, p[2]) = Ends(q[1].name, q[2])
    BY DEF Key, Ends
  <2> QED
    BY <1>2, <1>3, <2>1, NamesTell
<1>5. \A i, j \in DOMAIN config : config[i].name = config[j].name => i = j
  BY ConfigAssumption, Zenon
<1>6. p[1] = q[1]
  BY <1>1, <1>4, <1>5, Zenon DEF ToSet
<1> QED
  BY <1>1, <1>4, <1>6

\* Every endpoint is in the default map.
LEMMA DefaultItem ==
  ASSUME NEW config \in Configs, NEW s \in ToSet(config), NEW t \in DOMAIN s.types
  PROVE  Key(s, t) \in DOMAIN Default(config) /\ Default(config)[Key(s, t)] = Item(s, t)
<1>1. PICK p : p = <<s, t>>
  OBVIOUS
<1>2. t \in EndpointTypes
  BY Services, Zenon
<1>3. p \in Pairs(config) /\ p[1] = s /\ p[2] = t
  BY <1>1, <1>2 DEF Pairs
<1>4. PICK key : key = Key(s, t)
  OBVIOUS
<1>5. key \in {Key(o[1], o[2]) : o \in Pairs(config)}
  BY <1>3, <1>4
<1>6. (CHOOSE q \in Pairs(config) : Key(q[1], q[2]) = key) = p
  <2>1. \A q \in Pairs(config) : Key(q[1], q[2]) = key => q = p
    BY <1>3, <1>4, KeyTells
  <2> QED
    BY <1>3, <1>4, <2>1
<1>7. key \in DOMAIN Default(config) /\ Default(config)[key] = Item(s, t)
  BY <1>3, <1>5, <1>6 DEF Default
<1> QED
  BY <1>4, <1>7

\* The name of an output says whose it is, within its service.
LEMMA OutputNameTells ==
  ASSUME NEW config \in Configs, NEW s \in ToSet(config), NEW a \in Variants(s), NEW b \in Variants(s),
         OutputName(s, a) = OutputName(s, b)
  PROVE  a = b
<1>1. /\ a = <<a[1], a[2]>> /\ a[1] \in DOMAIN s.types /\ a[2] \in DOMAIN s.types[a[1]].suffixes
      /\ b = <<b[1], b[2]>> /\ b[1] \in DOMAIN s.types /\ b[2] \in DOMAIN s.types[b[1]].suffixes
  BY DEF Variants
<1>2. /\ s.name \in Seq(Words) /\ a[2] \in Seq(Words) /\ b[2] \in Seq(Words)
      /\ a[1] \in Words /\ b[1] \in Words /\ a[1] \in EndpointTypes /\ b[1] \in EndpointTypes
  <2>1. /\ s.name \in Seq(Words) /\ DOMAIN s.types \subseteq EndpointTypes /\ DOMAIN s.types \subseteq Words
        /\ \A t \in DOMAIN s.types : \A v \in DOMAIN s.types[t].suffixes : v \in Seq(Words)
    BY Services, Zenon
  <2> QED
    BY <1>1, <2>1
<1>3. Joins(s.name, a[2]) \in Seq(Words) /\ Joins(s.name, b[2]) \in Seq(Words)
  BY <1>2, NamesTell
<1> DEFINE A == Ends(Joins(s.name, a[2]), a[1])
           B == Ends(Joins(s.name, b[2]), b[1])
<1>4. /\ Last(A) \in EndpointTypes /\ Last(B) \in EndpointTypes
      /\ A = B => Joins(s.name, a[2]) = Joins(s.name, b[2]) /\ a[1] = b[1]
  BY <1>2, <1>3, NamesTell
<1>5. A = B => a[2] = b[2] /\ a[1] = b[1]
  BY <1>2, <1>4, NamesTell
<1>6. /\ a[2] \in DOMAIN s.types[a[1]].names => OutputName(s, a) = s.types[a[1]].names[a[2]] /\ Last(s.types[a[1]].names[a[2]]) \notin EndpointTypes
      /\ a[2] \notin DOMAIN s.types[a[1]].names => OutputName(s, a) = A
      /\ b[2] \in DOMAIN s.types[b[1]].names => OutputName(s, b) = s.types[b[1]].names[b[2]] /\ Last(s.types[b[1]].names[b[2]]) \notin EndpointTypes
      /\ b[2] \notin DOMAIN s.types[b[1]].names => OutputName(s, b) = B
  BY <1>1, Services, Zenon DEF OutputName, Ends, Joins
<1>7. a[2] \in DOMAIN s.types[a[1]].names /\ b[2] \in DOMAIN s.types[b[1]].names /\
      s.types[a[1]].names[a[2]] = s.types[b[1]].names[b[2]] => <<a[1], a[2]>> = <<b[1], b[2]>>
  <2>1. \A t, u \in DOMAIN s.types : \A v \in DOMAIN s.types[t].names : \A w \in DOMAIN s.types[u].names :
              s.types[t].names[v] = s.types[u].names[w] => <<t, v>> = <<u, w>>
    BY Services, Zenon
  <2> QED
    BY <1>1, <2>1
<1> HIDE DEF A, B
<1>8. CASE a[2] \in DOMAIN s.types[a[1]].names /\ b[2] \in DOMAIN s.types[b[1]].names
  BY <1>1, <1>6, <1>7, <1>8, Zenon
<1>9. CASE a[2] \notin DOMAIN s.types[a[1]].names /\ b[2] \notin DOMAIN s.types[b[1]].names
  BY <1>1, <1>5, <1>6, <1>9, Zenon
<1> QED
  BY <1>4, <1>6, <1>8, <1>9, Zenon

\* The template leads from the name of an output to the last variant that has it.
LEMMA OutputOfLast ==
  ASSUME NEW config \in Configs, NEW i \in DOMAIN config, NEW tv \in Variants(config[i]),
         \A j \in DOMAIN config : OutputName(config[i], tv) \in OutputNames(config[j]) => j <= i
  PROVE  /\ OutputName(config[i], tv) \in DOMAIN Outputs(config)
         /\ Outputs(config)[OutputName(config[i], tv)] = Output(config[i], tv)
<1>0. PICK name : name = OutputName(config[i], tv)
  OBVIOUS
<1>1. config \in Seq(ToSet(config))
  BY ConfigAssumption, Zenon
<1>2. i \in 1..Len(config) /\ DOMAIN config = 1..Len(config) /\ Len(config) \in Nat /\ config[i] \in ToSet(config)
  BY <1>1 DEF ToSet
<1>3. name \in OutputNames(config[i])
  BY <1>0 DEF OutputNames
<1> DEFINE IsLast(k) == name \in OutputNames(config[k]) /\ \A j \in DOMAIN config : name \in OutputNames(config[j]) => j <= k
<1>4. IsLast(i)
  BY <1>0, <1>3
<1>5. \A k \in DOMAIN config : IsLast(k) => k = i
  BY <1>2, <1>3, <1>4
<1> HIDE DEF IsLast
<1>6. (CHOOSE k \in DOMAIN config : IsLast(k)) = i
  BY <1>4, <1>5
<1>7. (CHOOSE uw \in Variants(config[i]) : OutputName(config[i], uw) = name) = tv
  <2>1. \A uw \in Variants(config[i]) : OutputName(config[i], uw) = name => uw = tv
    BY <1>0, <1>2, OutputNameTells
  <2> QED
    BY <1>0, <2>1
<1>8. name \in UNION {OutputNames(s) : s \in ToSet(config)}
  BY <1>2, <1>3
<1> USE DEF IsLast
<1>9. name \in DOMAIN Outputs(config) /\ Outputs(config)[name] = Output(config[i], tv)
  BY <1>6, <1>7, <1>8 DEF Outputs
<1> QED
  BY <1>0, <1>9

\* Every output of the template is the last variant's that has its name.
LEMMA LastOfOutput ==
  ASSUME NEW config \in Configs, NEW name \in DOMAIN Outputs(config)
  PROVE  \E i \in DOMAIN config : \E tv \in Variants(config[i]) :
           name = OutputName(config[i], tv) /\ Outputs(config)[name] = Output(config[i], tv)
<1>1. config \in Seq(ToSet(config))
  BY ConfigAssumption, Zenon
<1>2. DOMAIN config = 1..Len(config) /\ Len(config) \in Nat
  BY <1>1
<1> DEFINE T == {j \in DOMAIN config : name \in OutputNames(config[j])}
<1>3. T # {}
  BY DEF Outputs, ToSet
<1>4. T \in SUBSET (1..Len(config))
  BY <1>2
<1>5. PICK i \in T : \A j \in T : j <= i
  BY <1>2, <1>3, <1>4, Greatest
<1>6. PICK tv \in Variants(config[i]) : name = OutputName(config[i], tv)
  BY <1>5 DEF OutputNames
<1>7. i \in DOMAIN config /\ \A j \in DOMAIN config : OutputName(config[i], tv) \in OutputNames(config[j]) => j <= i
  BY <1>5, <1>6
<1>8. Outputs(config)[name] = Output(config[i], tv)
  BY <1>6, <1>7, OutputOfLast
<1> QED
  BY <1>6, <1>7, <1>8

MapInv ==
  /\ data \in Configs
  /\ status = 0 => ~Raises(data) /\ template = Template(data)

\* Exit status 0 is given to the template of the data only, until they are edited.
LEMMA MapStep == MapInv /\ [MapNext]_<<data, template, status>> => MapInv'
<1> SUFFICES ASSUME MapInv, [MapNext]_<<data, template, status>> PROVE MapInv'
  OBVIOUS
<1>1. CASE EditData
  BY <1>1 DEF MapInv, EditData, NoStatus
<1>2. ASSUME data' = data PROVE Raises(data)' = Raises(data) /\ Template(data)' = Template(data)
  BY <1>2 DEF Raises, Template, Default, Outputs
<1>3. CASE Build
  <2>1. data' = data /\ (status' = 0 => ~Raises(data) /\ template' = Template(data))
    BY <1>3 DEF Build
  <2> QED
    BY <1>2, <2>1 DEF MapInv
<1>4. CASE BuildKilled
  <2>1. data' = data /\ status' # 0
    BY <1>4 DEF BuildKilled, NoStatus
  <2> QED
    BY <2>1 DEF MapInv
<1>5. CASE Check
  <2>1. data' = data /\ template' = template /\ (status' = 0 => ~Raises(data) /\ template = Template(data))
    BY <1>5 DEF Check
  <2> QED
    BY <1>2, <2>1 DEF MapInv
<1>6. CASE Refuse
  BY <1>6 DEF Refuse, MapInv
<1>7. CASE UNCHANGED <<data, template, status>>
  BY <1>2, <1>7 DEF MapInv
<1> QED
  BY <1>1, <1>3, <1>4, <1>5, <1>6, <1>7 DEF MapNext

\* In the template of the data, the outputs find what they read, and no endpoint is lost.
LEMMA MapRight == MapInv => EndpointsRight
<1> SUFFICES ASSUME MapInv, status = 0 PROVE OutputsResolve /\ NothingLost
  BY DEF EndpointsRight
<1>1. data \in Configs /\ ~Raises(data) /\ template.default = Default(data) /\ template.outputs = Outputs(data)
  BY DEF MapInv, Template
<1>2. data \in Seq(ToSet(data))
  BY <1>1, ConfigAssumption, Zenon
<1>3. DOMAIN data = 1..Len(data) /\ Len(data) \in Nat /\ \A i \in DOMAIN data : data[i] \in ToSet(data)
  BY <1>2 DEF ToSet
<1>4. ASSUME NEW s \in ToSet(data), NEW tv \in Variants(s)
      PROVE  tv[1] \in DOMAIN s.types /\ Output(s, tv).reads = Key(s, tv[1]) /\ Item(s, tv[1]).port # Absent
  <2>1. tv[1] \in DOMAIN s.types
    BY DEF Variants
  <2>2. s.port # Absent
    BY <1>1, <2>1 DEF Raises
  <2> QED
    BY <2>1, <2>2 DEF Output, Item, Or
<1>5. OutputsResolve
  <2> SUFFICES ASSUME NEW name \in DOMAIN template.outputs
               PROVE  /\ template.outputs[name].reads \in DOMAIN template.default
                      /\ template.default[template.outputs[name].reads].port # Absent
    BY DEF OutputsResolve
  <2>1. PICK i \in DOMAIN data : \E tv \in Variants(data[i]) :
           name = OutputName(data[i], tv) /\ Outputs(data)[name] = Output(data[i], tv)
    BY <1>1, LastOfOutput
  <2>2. PICK tv \in Variants(data[i]) : Outputs(data)[name] = Output(data[i], tv)
    BY <2>1
  <2>3. PICK s \in ToSet(data) : s = data[i]
    BY <1>3, <2>1
  <2>4. tv[1] \in DOMAIN s.types /\ Output(s, tv).reads = Key(s, tv[1]) /\ Item(s, tv[1]).port # Absent
    BY <1>4, <2>2, <2>3
  <2>5. Key(s, tv[1]) \in DOMAIN Default(data) /\ Default(data)[Key(s, tv[1])] = Item(s, tv[1])
    BY <1>1, <2>4, DefaultItem
  <2> QED
    BY <1>1, <2>2, <2>3, <2>4, <2>5
<1>6. NothingLost
  <2> SUFFICES ASSUME NEW i \in DOMAIN data, NEW tv \in Variants(data[i]),
                      ~ \E j \in DOMAIN data : j > i /\ OutputName(data[i], tv) \in OutputNames(data[j])
               PROVE  /\ OutputName(data[i], tv) \in DOMAIN template.outputs
                      /\ template.outputs[OutputName(data[i], tv)] = Output(data[i], tv)
                      /\ template.default[Key(data[i], tv[1])] = Item(data[i], tv[1])
    BY DEF NothingLost
  <2>1. \A j \in DOMAIN data : OutputName(data[i], tv) \in OutputNames(data[j]) => j <= i
    BY <1>3
  <2>2. /\ OutputName(data[i], tv) \in DOMAIN Outputs(data)
        /\ Outputs(data)[OutputName(data[i], tv)] = Output(data[i], tv)
    BY <1>1, <2>1, OutputOfLast
  <2>3. Default(data)[Key(data[i], tv[1])] = Item(data[i], tv[1])
    BY <1>1, <1>3, <1>4, DefaultItem
  <2> QED
    BY <1>1, <2>2, <2>3
<1> QED
  BY <1>5, <1>6

\* build_endpoint_map.py: when it has exited with 0, be it that it has built the template or
\* checked the one that was there, the outputs find what they read, and no endpoint is lost.
THEOREM EndpointsAreRight == MapSpec => []EndpointsRight
<1>1. MapInit => MapInv
  BY DEF MapInit, MapInv, NoStatus
<1> QED
  BY <1>1, MapStep, MapRight, PTL DEF MapSpec

(***************************************************************************)
(* environment_generator.py                                                *)
(***************************************************************************)
\* A path and the one below it.
LEMMA PathAppend ==
  ASSUME NEW S, NEW p \in Seq(S), NEW x \in S
  PROVE  /\ Append(p, x) \in Seq(S) /\ Append(p, x) # <<>> /\ Last(Append(p, x)) = x
         /\ Len(Append(p, x)) = Len(p) + 1 /\ Len(p) \in Nat
         /\ DOMAIN p = 1..Len(p) /\ DOMAIN Append(p, x) = 1..(Len(p) + 1)
         /\ Append(p, x)[Len(p) + 1] = x /\ \A i \in 1..Len(p) : Append(p, x)[i] = p[i]
<1>0. Append(p, x) \in Seq(S) /\ Len(Append(p, x)) = Len(p) + 1 /\ Len(p) \in Nat
  OBVIOUS
<1>4. Append(p, x)[Len(p) + 1] = x /\ \A i \in 1..Len(p) : Append(p, x)[i] = p[i]
  OBVIOUS
<1>5. DOMAIN p = 1..Len(p)
  <2>1. p \in Seq(S)
    OBVIOUS
  <2> QED
    BY <2>1
<1>6. DOMAIN Append(p, x) = 1..Len(Append(p, x))
  BY <1>0
<1>1. /\ Append(p, x) \in Seq(S) /\ Len(Append(p, x)) = Len(p) + 1 /\ Len(p) \in Nat
      /\ DOMAIN p = 1..Len(p) /\ DOMAIN Append(p, x) = 1..(Len(p) + 1)
      /\ Append(p, x)[Len(p) + 1] = x /\ \A i \in 1..Len(p) : Append(p, x)[i] = p[i]
  BY <1>0, <1>4, <1>5, <1>6, Zenon
<1>2. Append(p, x) # <<>>
  <2>1. Len(<<>>) = 0 /\ Len(p) + 1 # 0
    OBVIOUS
  <2> QED
    BY <1>1, <2>1, Zenon
<1>3. Last(Append(p, x)) = x
  BY <1>1 DEF Last
<1> QED
  BY <1>1, <1>2, <1>3

\* The calls below a call come instead of it.
LEMMA Queue ==
  ASSUME NEW S, NEW a \in Seq(S), NEW q \in Seq(S), q # <<>>
  PROVE  /\ a \o Tail(q) \in Seq(S) /\ Len(a) \in Nat /\ Len(q) \in Nat /\ Len(q) >= 1
         /\ Len(a \o Tail(q)) = Len(a) + Len(q) - 1
         /\ \A i \in 1..Len(a) : (a \o Tail(q))[i] = a[i]
         /\ \A i \in 2..Len(q) : (a \o Tail(q))[Len(a) + i - 1] = q[i]
<1>1. /\ Tail(q) \in Seq(S) /\ Len(Tail(q)) = Len(q) - 1 /\ Len(q) \in Nat /\ Len(q) >= 1 /\ Len(a) \in Nat
      /\ \A i \in 1..(Len(q) - 1) : Tail(q)[i] = q[i + 1]
  OBVIOUS
<1>2. PICK t \in Seq(S) : t = Tail(q)
  BY <1>1
<1>3. /\ a \o t \in Seq(S) /\ Len(a \o t) = Len(a) + Len(t)
      /\ \A i \in 1..Len(a) : (a \o t)[i] = a[i]
      /\ \A i \in 1..Len(t) : (a \o t)[Len(a) + i] = t[i]
  OBVIOUS
<1>4. ASSUME NEW i \in 2..Len(q) PROVE (a \o t)[Len(a) + i - 1] = q[i]
  <2>1. PICK k \in 1..Len(t) : k = i - 1
    BY <1>1, <1>2
  <2>2. (a \o t)[Len(a) + k] = t[k] /\ t[k] = q[k + 1]
    BY <1>1, <1>2, <1>3
  <2>3. Len(a) + k = Len(a) + i - 1 /\ k + 1 = i
    BY <1>1, <2>1
  <2> QED
    BY <2>2, <2>3
<1> QED
  BY <1>1, <1>2, <1>3, <1>4

\* Its places are those of the calls below, and of those that waited.
LEMMA Places ==
  ASSUME NEW n \in Nat, NEW l \in Nat, l >= 1, NEW i \in 1..(n + l - 1)
  PROVE  i \in 1..n \/ \E k \in 2..l : i = n + k - 1
<1>1. CASE i > n
  <2>1. i - n + 1 \in 2..l /\ i = n + (i - n + 1) - 1
    BY <1>1
  <2> QED
    BY <2>1
<1> QED
  BY <1>1

Nodes == [n : Nat, input : Environments]

\* Where two paths part.
Parts(p, q) == \E k \in DOMAIN p \cap DOMAIN q : p[k].n < q[k].n /\ \A i \in 1..(k - 1) : p[i].n = q[i].n

\* The earlier of two siblings' paths comes before the other.
LEMMA PartsBefore == \A p, q : Parts(p, q) => Before(p, q)
BY Zenon DEF Parts, Before

\* Paths that part have parted further below.
LEMMA PartsBelow ==
  ASSUME NEW p \in Seq(Nodes), NEW q \in Seq(Nodes), NEW x \in Nodes, Parts(p, q)
  PROVE  Parts(Append(p, x), q) /\ Parts(p, Append(q, x))
<1>1. PICK k \in DOMAIN p \cap DOMAIN q : p[k].n < q[k].n /\ \A i \in 1..(k - 1) : p[i].n = q[i].n
  BY DEF Parts
<1>2. /\ DOMAIN p = 1..Len(p) /\ DOMAIN q = 1..Len(q) /\ Len(p) \in Nat /\ Len(q) \in Nat
      /\ DOMAIN Append(p, x) = 1..(Len(p) + 1) /\ DOMAIN Append(q, x) = 1..(Len(q) + 1)
      /\ \A i \in 1..Len(p) : Append(p, x)[i] = p[i]
      /\ \A i \in 1..Len(q) : Append(q, x)[i] = q[i]
  BY PathAppend
<1>3. k \in 1..(Len(p) + 1) /\ k \in 1..(Len(q) + 1) /\ k \in 1..Len(p) /\ k \in 1..Len(q)
  BY <1>2
<1>4. \A i \in 1..(k - 1) : i \in 1..Len(p) /\ i \in 1..Len(q)
  BY <1>2, <1>3
<1>5. Parts(Append(p, x), q)
  <2>1. k \in DOMAIN Append(p, x) \cap DOMAIN q /\ Append(p, x)[k].n < q[k].n
    BY <1>1, <1>2, <1>3
  <2>2. \A i \in 1..(k - 1) : Append(p, x)[i].n = q[i].n
    BY <1>1, <1>2, <1>4
  <2> QED
    BY <2>1, <2>2, Zenon DEF Parts
<1>6. Parts(p, Append(q, x))
  <2>1. k \in DOMAIN p \cap DOMAIN Append(q, x) /\ p[k].n < Append(q, x)[k].n
    BY <1>1, <1>2, <1>3
  <2>2. \A i \in 1..(k - 1) : p[i].n = Append(q, x)[i].n
    BY <1>1, <1>2, <1>4
  <2> QED
    BY <2>1, <2>2, Zenon DEF Parts
<1> QED
  BY <1>5, <1>6

\* A path comes before those below, also below a later one.
LEMMA BeforeBelow ==
  ASSUME NEW p \in Seq(Nodes), NEW q \in Seq(Nodes), NEW x \in Nodes
  PROVE  Before(p, Append(p, x)) /\ (Before(p, q) => Before(p, Append(q, x)))
<1>1. /\ DOMAIN p = 1..Len(p) /\ DOMAIN q = 1..Len(q) /\ Len(p) \in Nat /\ Len(q) \in Nat
      /\ Len(Append(p, x)) = Len(p) + 1 /\ Len(Append(q, x)) = Len(q) + 1
      /\ \A i \in 1..Len(p) : Append(p, x)[i] = p[i]
      /\ \A i \in 1..Len(q) : Append(q, x)[i] = q[i]
  BY PathAppend
<1>2. Before(p, Append(p, x))
  BY <1>1 DEF Before
<1>3. ASSUME Before(p, q) PROVE Before(p, Append(q, x))
  <2>1. CASE Parts(p, q)
    BY <2>1, PartsBelow, PartsBefore
  <2>2. CASE Len(p) < Len(q) /\ \A i \in DOMAIN p : p[i].n = q[i].n
    <3>1. \A i \in DOMAIN p : i \in 1..Len(q)
      BY <1>1, <2>2
    <3>2. Len(p) < Len(Append(q, x)) /\ \A i \in DOMAIN p : p[i].n = Append(q, x)[i].n
      BY <1>1, <2>2, <3>1
    <3> QED
      BY <3>2 DEF Before
  <2> QED
    BY <1>3, <2>1, <2>2 DEF Before, Parts
<1> QED
  BY <1>2, <1>3

\* Siblings part at the end.
LEMMA PartsSiblings ==
  ASSUME NEW p \in Seq(Nodes), NEW x \in Nodes, NEW y \in Nodes, x.n < y.n
  PROVE  Parts(Append(p, x), Append(p, y))
<1>1. /\ Len(p) \in Nat
      /\ DOMAIN Append(p, x) = 1..(Len(p) + 1) /\ DOMAIN Append(p, y) = 1..(Len(p) + 1)
      /\ Append(p, x)[Len(p) + 1] = x /\ Append(p, y)[Len(p) + 1] = y
      /\ \A i \in 1..Len(p) : Append(p, x)[i] = p[i] /\ Append(p, y)[i] = p[i]
  BY PathAppend
<1>2. PICK k \in Nat : k = Len(p) + 1
  BY <1>1
<1>3. k \in DOMAIN Append(p, x) \cap DOMAIN Append(p, y) /\ Append(p, x)[k].n < Append(p, y)[k].n
  BY <1>1, <1>2
<1>4. \A i \in 1..(k - 1) : Append(p, x)[i].n = Append(p, y)[i].n
  <2>1. k - 1 = Len(p)
    BY <1>1, <1>2
  <2> QED
    BY <1>1, <2>1
<1> QED
  BY <1>3, <1>4, Zenon DEF Parts

\* What a call inherits is what its path gives.
LEMMA Inherited ==
  ASSUME NEW p \in Seq(Nodes), NEW node \in Nodes, NEW parent,
         DOMAIN parent = Keys(p), \A key \in Keys(p) : parent[key] = Nearest(p, key)
  PROVE  Inherit(parent, node.input) = Effective(Append(p, node))
<1> DEFINE q == Append(p, node)
           n == Len(p)
<1>1. /\ n \in Nat /\ DOMAIN p = 1..n /\ DOMAIN q = 1..(n + 1) /\ q[n + 1] = node /\ Last(q) = node
      /\ \A i \in 1..n : q[i] = p[i]
  BY PathAppend
<1> HIDE DEF q, n
<1>2. 1..(n + 1) = (1..n) \cup {n + 1} /\ n + 1 \notin 1..n
  BY <1>1
<1>3. ASSUME NEW key PROVE key \in UNION {DOMAIN q[i].input : i \in DOMAIN q} <=>
                           key \in DOMAIN node.input \/ key \in UNION {DOMAIN p[i].input : i \in DOMAIN p}
  BY <1>1, <1>2
<1>4. \A key : key \in Keys(q) <=> key \in (DOMAIN parent \ {"children"}) \cup DOMAIN node.input
  BY <1>1, <1>3 DEF Keys
<1>5. ASSUME NEW key \in Keys(q)
      PROVE  Nearest(q, key) = IF key \in DOMAIN node.input THEN node.input[key] ELSE parent[key]
  <2>1. CASE key \in DOMAIN node.input
    <3>1. n + 1 \in Having(q, key) /\ \A j \in Having(q, key) : j <= n + 1
      BY <1>1, <1>2, <2>1 DEF Having
    <3>2. \A i \in Having(q, key) : (\A j \in Having(q, key) : j <= i) => i = n + 1
      BY <1>1, <3>1 DEF Having
    <3>3. (CHOOSE i \in Having(q, key) : \A j \in Having(q, key) : j <= i) = n + 1
      BY <3>1, <3>2
    <3>4. Nearest(q, key) = q[n + 1].input[key]
      BY <3>3, Zenon DEF Nearest
    <3> QED
      BY <1>1, <2>1, <3>4
  <2>2. CASE key \notin DOMAIN node.input
    <3>1. key \in Keys(p)
      BY <1>4, <2>2
    <3>2. Having(q, key) = Having(p, key)
      BY <1>1, <1>2, <2>2 DEF Having
    <3>3. Having(p, key) \in SUBSET (1..n) /\ Having(p, key) # {}
      <4>1. PICK i \in DOMAIN p : key \in DOMAIN p[i].input
        BY <3>1 DEF Keys
      <4>2. i \in Having(p, key)
        BY <4>1 DEF Having
      <4>3. Having(p, key) \subseteq 1..n
        BY <1>1 DEF Having
      <4> QED
        BY <4>2, <4>3
    <3>4. PICK m \in Having(p, key) : \A j \in Having(p, key) : j <= m
      BY <1>1, <3>3, Greatest
    <3>5. (CHOOSE i \in Having(p, key) : \A j \in Having(p, key) : j <= i) \in Having(p, key)
      BY <3>4
    <3>6. Nearest(q, key) = Nearest(p, key)
      <4>1. PICK m1 \in 1..n : m1 = CHOOSE i \in Having(p, key) : \A j \in Having(p, key) : j <= i
        BY <3>3, <3>5
      <4>2. Nearest(p, key) = p[m1].input[key]
        BY <4>1, Zenon DEF Nearest
      <4>3. Nearest(q, key) = q[m1].input[key]
        BY <3>2, <4>1, Zenon DEF Nearest
      <4> QED
        BY <1>1, <4>2, <4>3
    <3> QED
      BY <2>2, <3>1, <3>6
  <2> QED
    BY <2>1, <2>2
<1>6. (DOMAIN parent \ {"children"}) \cup DOMAIN node.input = Keys(q)
  BY <1>4
<1>7. Inherit(parent, node.input) = [key \in Keys(q) |-> IF key \in DOMAIN node.input THEN node.input[key] ELSE parent[key]]
  BY <1>6 DEF Inherit
<1>8. Effective(q) = [key \in Keys(q) |-> Nearest(q, key)]
  BY DEF Effective
<1> QED
  BY <1>5, <1>7, <1>8 DEF q

\* What the calls for a list of environments below p are.
AreCalls(kids, p, inputs) ==
  /\ kids \in Seq(ToSet(kids)) /\ DOMAIN kids = 1..Len(kids) /\ Len(kids) \in Nat /\ DOMAIN kids = DOMAIN inputs
  /\ \A i \in DOMAIN kids :
       /\ kids[i].path = Append(p, Node(i, inputs[i])) /\ Node(i, inputs[i]) \in Nodes
       /\ kids[i].path \in Seq(Nodes) /\ Last(kids[i].path) \in Nodes
       /\ Inherit(kids[i].parent, Last(kids[i].path).input) = Effective(kids[i].path)
  /\ \A i, j \in DOMAIN kids : i < j => Parts(kids[i].path, kids[j].path)

\* The calls that are made are that, with the environment of p as parent.
LEMMA CallsRight ==
  ASSUME NEW p \in Seq(Nodes), NEW inputs \in Seq(Environments), NEW parent,
         DOMAIN parent = Keys(p), \A key \in Keys(p) : parent[key] = Nearest(p, key)
  PROVE  AreCalls(Calls(p, parent, inputs), p, inputs)
<1> DEFINE kids == Calls(p, parent, inputs)
<1>1. DOMAIN inputs = 1..Len(inputs) /\ Len(inputs) \in Nat /\ \A i \in 1..Len(inputs) : inputs[i] \in Environments
  OBVIOUS
<1>2. /\ DOMAIN kids = 1..Len(inputs)
      /\ \A i \in DOMAIN kids : kids[i].path = Append(p, Node(i, inputs[i])) /\ kids[i].parent = parent
  BY <1>1 DEF Calls
<1>3. kids \in [1..Len(inputs) -> ToSet(kids)]
  BY <1>1, <1>2 DEF Calls, ToSet
<1> HIDE DEF kids
<1>4. kids \in Seq(ToSet(kids))
  BY <1>1, <1>3
<1>5. Len(kids) = Len(inputs)
  BY <1>1, <1>2, <1>4
<1>6. \A i \in DOMAIN kids : Node(i, inputs[i]) \in Nodes /\ Node(i, inputs[i]).n = i
  BY <1>1, <1>2 DEF Node, Nodes
<1>7. ASSUME NEW i \in DOMAIN kids
      PROVE  /\ kids[i].path \in Seq(Nodes) /\ Last(kids[i].path) \in Nodes
             /\ Inherit(kids[i].parent, Last(kids[i].path).input) = Effective(kids[i].path)
  <2>1. PICK node \in Nodes : node = Node(i, inputs[i])
    BY <1>6
  <2>2. kids[i].path = Append(p, node) /\ kids[i].parent = parent
    BY <1>2, <2>1
  <2>3. Append(p, node) \in Seq(Nodes) /\ Last(Append(p, node)) = node
    BY PathAppend
  <2>4. Inherit(parent, node.input) = Effective(Append(p, node))
    BY Inherited
  <2> QED
    BY <2>2, <2>3, <2>4
<1>8. ASSUME NEW i \in DOMAIN kids, NEW j \in DOMAIN kids, i < j PROVE Parts(kids[i].path, kids[j].path)
  <2>1. PICK x \in Nodes : x = Node(i, inputs[i]) /\ x.n = i
    BY <1>6
  <2>2. PICK y \in Nodes : y = Node(j, inputs[j]) /\ y.n = j
    BY <1>6
  <2>3. Parts(Append(p, x), Append(p, y))
    BY <1>8, <2>1, <2>2, PartsSiblings
  <2> QED
    BY <1>2, <2>1, <2>2, <2>3
<1> QED
  BY <1>1, <1>2, <1>4, <1>5, <1>6, <1>7, <1>8 DEF kids, AreCalls

(***************************************************************************)
(* The inductive invariant: as the properties have it of the files, and    *)
(* the calls that wait are in their order behind those done, and will each *)
(* inherit what its path gives.                                            *)
(***************************************************************************)
Waiting ==
  /\ definition \in Definitions /\ pending \in Seq(ToSet(pending)) /\ done \in Seq(Seq(Nodes))
  /\ \A i \in DOMAIN pending :
       /\ pending[i].path \in Seq(Nodes) /\ Last(pending[i].path) \in Nodes
       /\ Inherit(pending[i].parent, Last(pending[i].path).input) = Effective(pending[i].path)

InTurn ==
  /\ \A i, j \in DOMAIN done : i < j => Before(done[i], done[j])
  /\ \A i \in DOMAIN done, j \in DOMAIN pending : Before(done[i], pending[j].path)
  /\ \A i, j \in DOMAIN pending : i < j => Parts(pending[i].path, pending[j].path)

Filed ==
  /\ \A i \in DOMAIN done : Effective(done[i]).name \in DOMAIN written
  /\ \A file \in DOMAIN written : \E i \in DOMAIN done : Effective(done[i]).name = file /\ written[file] = Written(Effective(done[i]))
  /\ \A i \in DOMAIN done :
       (\A j \in DOMAIN done : j > i => Effective(done[j]).name # Effective(done[i]).name)
         => written[Effective(done[i]).name] = Written(Effective(done[i]))

Reached ==
  /\ \A n \in DOMAIN definition : <<Node(n, definition[n])>> \in Paths
  /\ \A p \in ToSet(done) : \A n \in DOMAIN Children(Last(p).input) : Append(p, Node(n, Children(Last(p).input)[n])) \in Paths

Stopped == raised => pending # <<>> /\ Missing(Effective(Head(pending).path))

GenInv == Waiting /\ InTurn /\ Filed /\ Reached /\ Stopped

\* The calls for the environments of the file are the first.
LEMMA GenerateStart == GenerateInit => GenInv
<1> SUFFICES ASSUME GenerateInit PROVE GenInv
  OBVIOUS
<1>1. definition \in Definitions /\ pending = Calls(<<>>, <<>>, definition) /\ written = <<>> /\ done = <<>> /\ raised = FALSE
  BY DEF GenerateInit
<1>2. definition \in Seq(Environments)
  BY <1>1, DefinitionAssumption
<1>3. PICK none : none = <<>>
  OBVIOUS
<1>4. none \in Seq(Nodes) /\ DOMAIN none = {} /\ Keys(none) = {} /\ ToSet(none) = {}
  <2>1. none \in Seq(Nodes) /\ DOMAIN none = {}
    BY <1>3
  <2> QED
    BY <2>1 DEF Keys, ToSet
<1>5. DOMAIN none = Keys(none) /\ \A key \in Keys(none) : none[key] = Nearest(none, key)
  BY <1>4
<1>6. /\ pending \in Seq(ToSet(pending)) /\ DOMAIN pending = DOMAIN definition
      /\ \A i \in DOMAIN pending :
           /\ pending[i].path = Append(none, Node(i, definition[i]))
           /\ pending[i].path \in Seq(Nodes) /\ Last(pending[i].path) \in Nodes
           /\ Inherit(pending[i].parent, Last(pending[i].path).input) = Effective(pending[i].path)
      /\ \A i, j \in DOMAIN pending : i < j => Parts(pending[i].path, pending[j].path)
  <2>1. PICK kids : kids = Calls(none, none, definition)
    OBVIOUS
  <2>2. AreCalls(kids, none, definition)
    BY <1>2, <1>4, <1>5, <2>1, CallsRight
  <2> QED
    BY <1>1, <1>3, <2>1, <2>2 DEF AreCalls
<1>7. done = none /\ written = none
  BY <1>1, <1>3
<1>8. Waiting
  BY <1>1, <1>3, <1>6 DEF Waiting
<1>9. InTurn
  BY <1>4, <1>6, <1>7 DEF InTurn
<1>10. Filed
  BY <1>4, <1>7 DEF Filed
<1>11. Reached
  <2>1. \A x : <<x>> = Append(none, x)
    BY <1>3
  <2>2. ASSUME NEW n \in DOMAIN definition PROVE <<Node(n, definition[n])>> \in Paths
    <3>1. pending[n].path = <<Node(n, definition[n])>> /\ pending[n] \in ToSet(pending)
      BY <1>6, <2>1 DEF ToSet
    <3> QED
      BY <3>1 DEF Paths
  <2> QED
    BY <1>4, <1>7, <2>2 DEF Reached
<1> QED
  BY <1>1, <1>8, <1>9, <1>10, <1>11 DEF GenInv, Stopped

\* What a call of path p that writes does, where l calls are left and kids is those below it.
Shape(p, l, kids) ==
  /\ p \in Seq(Nodes) /\ l \in Nat /\ l >= 1
  /\ p = pending[1].path /\ DOMAIN pending = 1..l
  /\ definition' = definition /\ raised' = raised /\ ~raised
  /\ done' = Append(done, p)
  /\ written' = [file \in DOMAIN written \cup {Effective(p).name} |->
                   IF file = Effective(p).name THEN Written(Effective(p)) ELSE written[file]]
  /\ AreCalls(kids, p, Children(Last(p).input))
  /\ pending' \in Seq(ToSet(pending')) /\ DOMAIN pending' = 1..(Len(kids) + l - 1)
  /\ \A i \in 1..Len(kids) : pending'[i] = kids[i]
  /\ \A i \in 2..l : pending'[Len(kids) + i - 1] = pending[i]

\* Every call that writes has these.
LEMMA WriteShape == GenInv /\ Write => \E p, l, kids : Shape(p, l, kids)
<1> SUFFICES ASSUME GenInv, Write PROVE \E p, l, kids : Shape(p, l, kids)
  OBVIOUS
<1>1. pending \in Seq(ToSet(pending)) /\ pending # <<>> /\ ~raised
  BY DEF GenInv, Waiting, Write
<1>2. PICK l \in Nat : l = Len(pending)
  BY <1>1
<1>3. DOMAIN pending = 1..l /\ l >= 1 /\ Head(pending) = pending[1] /\ 1 \in DOMAIN pending
  BY <1>1, <1>2
<1>4. PICK p \in Seq(Nodes) : /\ p = pending[1].path /\ Last(p) \in Nodes
                              /\ Inherit(pending[1].parent, Last(p).input) = Effective(p)
  BY <1>3 DEF GenInv, Waiting
<1>5. Env = Effective(p) /\ Head(pending).path = p
  BY <1>3, <1>4 DEF Env
<1>6. PICK inputs \in Seq(Environments) : inputs = Children(Last(p).input)
  BY <1>4, DefinitionAssumption DEF Nodes
<1>7. PICK kids : kids = Calls(p, Effective(p), inputs)
  OBVIOUS
<1>8. DOMAIN Effective(p) = Keys(p) /\ \A key \in Keys(p) : Effective(p)[key] = Nearest(p, key)
  BY DEF Effective
<1>9. AreCalls(kids, p, inputs)
  BY <1>7, <1>8, CallsRight
<1>10. pending' = kids \o Tail(pending) /\ done' = Append(done, p) /\ definition' = definition /\ raised' = raised
  BY <1>5, <1>6, <1>7 DEF Write
<1>11. written' = [file \in DOMAIN written \cup {Effective(p).name} |->
                     IF file = Effective(p).name THEN Written(Effective(p)) ELSE written[file]]
  BY <1>5 DEF Write
<1>12. PICK S : S = ToSet(kids) \cup ToSet(pending)
  OBVIOUS
<1>13. kids \in Seq(S) /\ pending \in Seq(S)
  <2>1. \A A, B : A \subseteq B => \A list \in Seq(A) : list \in Seq(B)
    OBVIOUS
  <2>2. kids \in Seq(ToSet(kids))
    BY <1>9 DEF AreCalls
  <2> QED
    BY <1>1, <1>12, <2>1, <2>2
<1>14. /\ pending' \in Seq(S) /\ Len(pending') = Len(kids) + l - 1 /\ Len(kids) \in Nat
       /\ \A i \in 1..Len(kids) : pending'[i] = kids[i]
       /\ \A i \in 2..l : pending'[Len(kids) + i - 1] = pending[i]
  <2>1. PICK q \in Seq(S) : q = pending
    BY <1>13
  <2>2. PICK a \in Seq(S) : a = kids
    BY <1>13
  <2>3. /\ a \o Tail(q) \in Seq(S) /\ Len(a) \in Nat
        /\ Len(a \o Tail(q)) = Len(a) + Len(q) - 1
        /\ \A i \in 1..Len(a) : (a \o Tail(q))[i] = a[i]
        /\ \A i \in 2..Len(q) : (a \o Tail(q))[Len(a) + i - 1] = q[i]
    BY <1>1, <2>1, Queue
  <2>4. pending' = a \o Tail(q) /\ Len(q) = l
    BY <1>2, <1>10, <2>1, <2>2
  <2> QED
    BY <2>1, <2>2, <2>3, <2>4
<1>15. DOMAIN pending' = 1..(Len(kids) + l - 1) /\ pending' \in Seq(ToSet(pending'))
  <2>1. PICK q \in Seq(S) : q = pending'
    BY <1>14
  <2>2. DOMAIN q = 1..Len(q) /\ q \in [1..Len(q) -> ToSet(q)] /\ Len(q) \in Nat
    BY DEF ToSet
  <2>3. q \in Seq(ToSet(q))
    BY <2>2
  <2> QED
    BY <1>14, <2>1, <2>2, <2>3
<1>16. Shape(p, l, kids)
  BY <1>1, <1>3, <1>4, <1>6, <1>9, <1>10, <1>11, <1>14, <1>15 DEF Shape
<1> QED
  BY <1>16

\* Where the calls that wait then come from, and those done.
LEMMA WritePlaces ==
  ASSUME GenInv, NEW p, NEW l, NEW kids, Shape(p, l, kids)
  PROVE  /\ Len(kids) \in Nat /\ l \in Nat /\ l >= 1 /\ p \in Seq(Nodes)
         /\ \A i \in DOMAIN pending' :
              \/ i \in DOMAIN kids /\ i \in 1..Len(kids) /\ pending'[i] = kids[i]
              \/ \E m \in 2..l : i = Len(kids) + m - 1 /\ m \in DOMAIN pending /\ pending'[i] = pending[m]
         /\ \A i \in DOMAIN kids : i \in DOMAIN pending' /\ pending'[i] = kids[i]
         /\ \A m \in DOMAIN pending : m # 1 => Len(kids) + m - 1 \in DOMAIN pending' /\ pending'[Len(kids) + m - 1] = pending[m]
         /\ 1 \in DOMAIN pending /\ pending[1].path = p
         /\ \A i \in DOMAIN done' : (i \in DOMAIN done /\ done'[i] = done[i]) \/ (i = Len(done) + 1 /\ done'[i] = p)
         /\ \A i \in DOMAIN done : i \in DOMAIN done' /\ done'[i] = done[i] /\ i < Len(done) + 1 /\ i \in Nat
         /\ Len(done) + 1 \in DOMAIN done' /\ done'[Len(done) + 1] = p
         /\ done' \in Seq(Seq(Nodes)) /\ Len(done) + 1 \in Nat
<1>1. /\ p \in Seq(Nodes) /\ l \in Nat /\ l >= 1 /\ p = pending[1].path /\ DOMAIN pending = 1..l
      /\ done' = Append(done, p) /\ DOMAIN pending' = 1..(Len(kids) + l - 1)
      /\ \A i \in 1..Len(kids) : pending'[i] = kids[i]
      /\ \A i \in 2..l : pending'[Len(kids) + i - 1] = pending[i]
      /\ DOMAIN kids = 1..Len(kids) /\ Len(kids) \in Nat
  BY DEF Shape, AreCalls
<1>2. ASSUME NEW i \in DOMAIN pending'
      PROVE  \/ i \in DOMAIN kids /\ i \in 1..Len(kids) /\ pending'[i] = kids[i]
             \/ \E m \in 2..l : i = Len(kids) + m - 1 /\ m \in DOMAIN pending /\ pending'[i] = pending[m]
  <2>1. CASE i \in 1..Len(kids)
    BY <1>1, <2>1
  <2>2. ASSUME NEW m \in 2..l, i = Len(kids) + m - 1
        PROVE  m \in DOMAIN pending /\ pending'[i] = pending[m]
    BY <1>1, <2>2
  <2> QED
    BY <1>1, <2>1, <2>2, Places
<1>3. \A i \in DOMAIN kids : i \in DOMAIN pending' /\ pending'[i] = kids[i]
  BY <1>1
<1>4. ASSUME NEW m \in DOMAIN pending, m # 1
      PROVE  Len(kids) + m - 1 \in DOMAIN pending' /\ pending'[Len(kids) + m - 1] = pending[m]
  <2>1. m \in 2..l
    BY <1>1, <1>4
  <2> QED
    BY <1>1, <2>1
<1>5. done \in Seq(Seq(Nodes))
  BY DEF GenInv, Waiting
<1>6. PICK n \in Nat : n = Len(done)
  BY <1>5
<1>7. /\ done' \in Seq(Seq(Nodes)) /\ DOMAIN done = 1..n /\ DOMAIN done' = 1..(n + 1)
      /\ done'[n + 1] = p /\ \A i \in 1..n : done'[i] = done[i]
  <2>1. PICK list \in Seq(Seq(Nodes)) : list = done
    BY <1>5
  <2>2. /\ Append(list, p) \in Seq(Seq(Nodes)) /\ DOMAIN list = 1..n /\ DOMAIN Append(list, p) = 1..(n + 1)
        /\ Append(list, p)[n + 1] = p /\ \A i \in 1..n : Append(list, p)[i] = list[i]
    BY <1>1, <1>6, <2>1, PathAppend
  <2> QED
    BY <1>1, <2>1, <2>2
<1>8. /\ \A i \in DOMAIN done' : (i \in DOMAIN done /\ done'[i] = done[i]) \/ (i = n + 1 /\ done'[i] = p)
      /\ \A i \in DOMAIN done : i \in DOMAIN done' /\ done'[i] = done[i] /\ i < n + 1 /\ i \in Nat
      /\ n + 1 \in DOMAIN done' /\ done'[n + 1] = p /\ n + 1 \in Nat
  BY <1>7
<1>9. 1 \in DOMAIN pending /\ pending[1].path = p
  BY <1>1
<1> QED
  BY <1>1, <1>2, <1>3, <1>4, <1>6, <1>7, <1>8, <1>9

\* What waits after a call.
LEMMA WriteWaiting ==
  ASSUME GenInv, NEW p, NEW l, NEW kids, Shape(p, l, kids)
  PROVE  Waiting'
<1>1. definition' \in Definitions /\ pending' \in Seq(ToSet(pending'))
  BY DEF GenInv, Waiting, Shape
<1>2. ASSUME NEW i \in DOMAIN pending'
      PROVE  /\ pending'[i].path \in Seq(Nodes) /\ Last(pending'[i].path) \in Nodes
             /\ Inherit(pending'[i].parent, Last(pending'[i].path).input) = Effective(pending'[i].path)
  <2>1. CASE i \in DOMAIN kids /\ pending'[i] = kids[i]
    BY <2>1 DEF Shape, AreCalls
  <2>2. ASSUME NEW m \in DOMAIN pending, pending'[i] = pending[m]
        PROVE  /\ pending'[i].path \in Seq(Nodes) /\ Last(pending'[i].path) \in Nodes
               /\ Inherit(pending'[i].parent, Last(pending'[i].path).input) = Effective(pending'[i].path)
    BY <2>2 DEF GenInv, Waiting
  <2> QED
    BY <2>1, <2>2, WritePlaces
<1> QED
  BY <1>1, <1>2, WritePlaces DEF Waiting

\* The order of the calls.
LEMMA WriteInTurn ==
  ASSUME GenInv, NEW p, NEW l, NEW kids, Shape(p, l, kids)
  PROVE  InTurn'
<1>0. Len(kids) \in Nat /\ l \in Nat /\ p \in Seq(Nodes)
  BY WritePlaces
<1>1. /\ \A i, j \in DOMAIN done : i < j => Before(done[i], done[j])
      /\ \A i \in DOMAIN done, j \in DOMAIN pending : Before(done[i], pending[j].path)
      /\ \A i, j \in DOMAIN pending : i < j => Parts(pending[i].path, pending[j].path)
      /\ \A i \in DOMAIN pending : pending[i].path \in Seq(Nodes)
      /\ \A i \in DOMAIN done : done[i] \in Seq(Nodes)
  <2>1. done \in Seq(Seq(Nodes))
    BY DEF GenInv, Waiting
  <2>2. \A i \in DOMAIN done : done[i] \in Seq(Nodes)
    BY <2>1
  <2> QED
    BY <2>2 DEF GenInv, InTurn, Waiting
<1>2. ASSUME NEW i \in DOMAIN kids PROVE \E x \in Nodes : kids[i].path = Append(p, x)
  BY DEF Shape, AreCalls
<1>3. \A m \in 2..l : m \in DOMAIN pending => Parts(p, pending[m].path) /\ pending[m].path \in Seq(Nodes)
  <2> SUFFICES ASSUME NEW m \in 2..l, m \in DOMAIN pending
               PROVE  Parts(p, pending[m].path) /\ pending[m].path \in Seq(Nodes)
    OBVIOUS
  <2>1. 1 < m /\ 1 \in DOMAIN pending /\ pending[1].path = p
    BY <1>0, WritePlaces
  <2>2. Parts(pending[1].path, pending[m].path)
    BY <1>1, <2>1
  <2> QED
    BY <1>1, <2>1, <2>2
<1>4. ASSUME NEW i \in DOMAIN done', NEW j \in DOMAIN done', i < j PROVE Before(done'[i], done'[j])
  <2>1. i \in DOMAIN done /\ done'[i] = done[i]
    <3>1. CASE i = Len(done) + 1
      BY <1>4, <3>1, WritePlaces
    <3> QED
      BY <3>1, WritePlaces
  <2>2. CASE j \in DOMAIN done /\ done'[j] = done[j]
    BY <1>1, <1>4, <2>1, <2>2
  <2>3. CASE done'[j] = p
    BY <1>1, <2>1, <2>3, WritePlaces
  <2> QED
    BY <2>2, <2>3, WritePlaces
<1>5. ASSUME NEW i \in DOMAIN done', NEW j \in DOMAIN pending' PROVE Before(done'[i], pending'[j].path)
  <2>0. \A k \in DOMAIN done : Before(done[k], p)
    BY <1>1, WritePlaces
  <2>1. PICK d \in Seq(Nodes) : d = done'[i] /\ (d = p \/ (Before(d, p) /\ i \in DOMAIN done /\ d = done[i]))
    BY <1>0, <1>1, <2>0, WritePlaces
  <2>2. CASE j \in DOMAIN kids /\ pending'[j] = kids[j]
    <3>1. PICK x \in Nodes : kids[j].path = Append(p, x)
      BY <1>2, <2>2
    <3>2. Before(d, Append(p, x))
      BY <1>0, <2>1, BeforeBelow
    <3> QED
      BY <2>1, <2>2, <3>1, <3>2
  <2>3. ASSUME NEW m \in 2..l, m \in DOMAIN pending, pending'[j] = pending[m] PROVE Before(d, pending'[j].path)
    <3>1. CASE d = p
      BY <1>3, <2>3, <3>1, PartsBefore
    <3>2. CASE i \in DOMAIN done /\ d = done[i]
      BY <1>1, <2>3, <3>2
    <3> QED
      BY <2>1, <3>1, <3>2
  <2> QED
    BY <2>1, <2>2, <2>3, WritePlaces
<1>6. ASSUME NEW i \in DOMAIN pending', NEW j \in DOMAIN pending', i < j PROVE Parts(pending'[i].path, pending'[j].path)
  <2>1. CASE j \in DOMAIN kids /\ j \in 1..Len(kids) /\ pending'[j] = kids[j]
    <3>1. i \in DOMAIN kids /\ pending'[i] = kids[i]
      <4>1. ASSUME NEW m \in 2..l, i = Len(kids) + m - 1 PROVE FALSE
        BY <1>0, <1>6, <2>1, <4>1
      <4> QED
        BY <4>1, WritePlaces
    <3> QED
      BY <1>6, <2>1, <3>1 DEF Shape, AreCalls
  <2>2. ASSUME NEW m \in 2..l, j = Len(kids) + m - 1, m \in DOMAIN pending, pending'[j] = pending[m]
        PROVE  Parts(pending'[i].path, pending'[j].path)
    <3>1. ASSUME i \in DOMAIN kids, pending'[i] = kids[i] PROVE Parts(pending'[i].path, pending'[j].path)
      <4>1. PICK x \in Nodes : kids[i].path = Append(p, x)
        BY <1>2, <3>1
      <4>2. PICK q \in Seq(Nodes) : q = pending[m].path /\ Parts(p, q)
        BY <1>3, <2>2
      <4>3. Parts(Append(p, x), q)
        BY <1>0, <4>2, PartsBelow
      <4> QED
        BY <2>2, <3>1, <4>1, <4>2, <4>3
    <3>2. ASSUME NEW n \in 2..l, i = Len(kids) + n - 1, n \in DOMAIN pending, pending'[i] = pending[n]
          PROVE  Parts(pending'[i].path, pending'[j].path)
      <4>1. n < m
        BY <1>0, <1>6, <2>2, <3>2
      <4> QED
        BY <1>1, <2>2, <3>2, <4>1
    <3>3. \/ i \in DOMAIN kids /\ pending'[i] = kids[i]
          \/ \E n \in 2..l : i = Len(kids) + n - 1 /\ n \in DOMAIN pending /\ pending'[i] = pending[n]
      BY WritePlaces
    <3> QED
      BY <3>1, <3>2, <3>3
  <2>3. \/ j \in DOMAIN kids /\ j \in 1..Len(kids) /\ pending'[j] = kids[j]
        \/ \E m \in 2..l : j = Len(kids) + m - 1 /\ m \in DOMAIN pending /\ pending'[j] = pending[m]
    BY WritePlaces
  <2> QED
    BY <2>1, <2>2, <2>3
<1> QED
  BY <1>4, <1>5, <1>6 DEF InTurn

\* The file that is written.
LEMMA WriteFiled ==
  ASSUME GenInv, NEW p, NEW l, NEW kids, Shape(p, l, kids)
  PROVE  Filed'
<1>1. PICK name : name = Effective(p).name
  OBVIOUS
<1>2. /\ DOMAIN written' = DOMAIN written \cup {name} /\ written'[name] = Written(Effective(p))
      /\ \A file \in DOMAIN written : file # name => written'[file] = written[file]
  BY <1>1 DEF Shape
<1>3. /\ \A i \in DOMAIN done : Effective(done[i]).name \in DOMAIN written
      /\ \A file \in DOMAIN written : \E i \in DOMAIN done : Effective(done[i]).name = file /\ written[file] = Written(Effective(done[i]))
      /\ \A i \in DOMAIN done :
           (\A j \in DOMAIN done : j > i => Effective(done[j]).name # Effective(done[i]).name)
             => written[Effective(done[i]).name] = Written(Effective(done[i]))
  BY DEF GenInv, Filed
<1>4. PICK n : n = Len(done) + 1 /\ n \in DOMAIN done' /\ done'[n] = p /\ n \in Nat /\
               (\A i \in DOMAIN done : i \in DOMAIN done' /\ done'[i] = done[i] /\ i < n /\ i \in Nat) /\
               (\A i \in DOMAIN done' : (i \in DOMAIN done /\ done'[i] = done[i]) \/ (i = n /\ done'[i] = p))
  BY WritePlaces
<1>5. \A i \in DOMAIN done' : Effective(done'[i]).name \in DOMAIN written'
  BY <1>1, <1>2, <1>3, <1>4
<1>6. ASSUME NEW file \in DOMAIN written'
      PROVE  \E i \in DOMAIN done' : Effective(done'[i]).name = file /\ written'[file] = Written(Effective(done'[i]))
  <2>1. CASE file = name
    BY <1>1, <1>2, <1>4, <2>1
  <2>2. CASE file # name
    <3>1. PICK i \in DOMAIN done : Effective(done[i]).name = file /\ written[file] = Written(Effective(done[i]))
      BY <1>2, <1>3, <2>2
    <3> QED
      BY <1>2, <1>4, <2>2, <3>1
  <2> QED
    BY <2>1, <2>2
<1>7. ASSUME NEW i \in DOMAIN done', \A j \in DOMAIN done' : j > i => Effective(done'[j]).name # Effective(done'[i]).name
      PROVE  written'[Effective(done'[i]).name] = Written(Effective(done'[i]))
  <2>1. CASE i = n
    BY <1>1, <1>2, <1>4, <2>1
  <2>2. CASE i \in DOMAIN done
    <3>1. done'[i] = done[i] /\ n > i
      BY <1>4, <2>2
    <3>2. Effective(done[i]).name # name
      BY <1>1, <1>4, <1>7, <3>1
    <3>3. \A j \in DOMAIN done : j > i => Effective(done[j]).name # Effective(done[i]).name
      BY <1>4, <1>7, <3>1
    <3> QED
      BY <1>2, <1>3, <2>2, <3>1, <3>2, <3>3
  <2> QED
    BY <1>4, <2>1, <2>2
<1> QED
  BY <1>5, <1>6, <1>7 DEF Filed

\* The calls below it.
LEMMA WriteReached ==
  ASSUME GenInv, NEW p, NEW l, NEW kids, Shape(p, l, kids)
  PROVE  Reached'
<1>1. ToSet(done') = ToSet(done) \cup {p}
  <2>1. ToSet(done') \subseteq ToSet(done) \cup {p}
    BY WritePlaces DEF ToSet
  <2>2. ToSet(done) \subseteq ToSet(done')
    BY WritePlaces DEF ToSet
  <2>3. p \in ToSet(done')
    BY WritePlaces DEF ToSet
  <2> QED
    BY <2>1, <2>2, <2>3
<1>2. ASSUME NEW q \in Paths PROVE q \in Paths'
  <2>1. CASE q \in ToSet(done)
    BY <1>1, <2>1 DEF Paths
  <2>2. ASSUME NEW m \in DOMAIN pending, q = pending[m].path PROVE q \in Paths'
    <3>1. CASE m = 1
      BY <1>1, <2>2, <3>1, WritePlaces DEF Paths
    <3>2. CASE m # 1
      <4>1. PICK i \in DOMAIN pending' : pending'[i] = pending[m]
        BY <3>2, WritePlaces
      <4> QED
        BY <2>2, <4>1 DEF Paths, ToSet
    <3> QED
      BY <3>1, <3>2
  <2> QED
    BY <2>1, <2>2 DEF Paths, ToSet
<1>3. PICK inputs : inputs = Children(Last(p).input)
  OBVIOUS
<1>4. ASSUME NEW n \in DOMAIN inputs PROVE Append(p, Node(n, inputs[n])) \in Paths'
  <2>1. n \in DOMAIN kids /\ kids[n].path = Append(p, Node(n, inputs[n]))
    BY <1>3 DEF Shape, AreCalls
  <2>2. n \in DOMAIN pending' /\ pending'[n].path = Append(p, Node(n, inputs[n]))
    BY <2>1, WritePlaces
  <2> QED
    BY <2>2 DEF Paths, ToSet
<1>5. definition' = definition
  BY DEF Shape
<1>6. \A n \in DOMAIN definition' : <<Node(n, definition'[n])>> \in Paths'
  BY <1>2, <1>5 DEF GenInv, Reached
<1>7. ASSUME NEW q \in ToSet(done'), NEW n \in DOMAIN Children(Last(q).input)
      PROVE  Append(q, Node(n, Children(Last(q).input)[n])) \in Paths'
  <2>1. CASE q = p
    BY <1>3, <1>4, <2>1
  <2>2. CASE q \in ToSet(done)
    BY <1>2, <2>2 DEF GenInv, Reached
  <2> QED
    BY <1>1, <2>1, <2>2
<1> QED
  BY <1>6, <1>7 DEF Reached

\* Every call keeps the invariant.
LEMMA GenerateStep == GenInv /\ [GenerateNext]_generateVars => GenInv'
<1> SUFFICES ASSUME GenInv, [GenerateNext]_generateVars PROVE GenInv'
  OBVIOUS
<1>1. CASE Write
  <2>1. PICK p, l, kids : Shape(p, l, kids)
    BY <1>1, WriteShape
  <2>2. Stopped'
    BY <2>1 DEF Shape, Stopped
  <2> QED
    BY <2>1, <2>2, WriteWaiting, WriteInTurn, WriteFiled, WriteReached DEF GenInv
<1>2. ASSUME UNCHANGED <<definition, pending, written, done>> PROVE Waiting' /\ InTurn' /\ Filed' /\ Reached'
  <2>1. Waiting' /\ InTurn'
    BY <1>2 DEF GenInv, Waiting, InTurn
  <2>2. Filed'
    BY <1>2 DEF GenInv, Filed
  <2>3. Reached'
    BY <1>2 DEF GenInv, Reached, Paths
  <2> QED
    BY <2>1, <2>2, <2>3
<1>3. CASE Raise
  <2>1. UNCHANGED <<definition, pending, written, done>> /\ pending # <<>> /\ Missing(Env)
    BY <1>3 DEF Raise
  <2>2. Env = Effective(Head(pending).path)
    <3>1. pending \in Seq(ToSet(pending))
      BY DEF GenInv, Waiting
    <3>2. 1 \in DOMAIN pending /\ Head(pending) = pending[1]
      BY <2>1, <3>1
    <3> QED
      BY <3>2 DEF Env, GenInv, Waiting
  <2>3. Stopped'
    BY <2>1, <2>2 DEF Stopped
  <2> QED
    BY <1>2, <2>1, <2>3 DEF GenInv
<1>4. CASE UNCHANGED generateVars
  <2>1. UNCHANGED <<definition, pending, written, done>> /\ raised' = raised
    BY <1>4 DEF generateVars
  <2>2. Stopped'
    BY <2>1 DEF Stopped, GenInv
  <2> QED
    BY <1>2, <2>1, <2>2 DEF GenInv
<1> QED
  BY <1>1, <1>3, <1>4 DEF GenerateNext

\* A file offers no more than its environment asks for.
LEMMA WrittenShows ==
  ASSUME NEW env
  PROVE  \A r \in DOMAIN Written(env).ordinary :
           /\ Hidden \cap (DOMAIN Written(env).ordinary[r] \cup DOMAIN Written(env).static[r]) \subseteq Requested(env)
           /\ DOMAIN Written(env).ordinary[r] \cap (Private \cup Static(env)) = {}
<1>1. ASSUME NEW f \in ToSet(FilesOf(env)), NEW r \in DOMAIN f.sections
      PROVE  Hidden \cap NewNames(env, f.file, f.sections[r]) \subseteq Requested(env)
  <2>1. ToSet(f.sections[r]) \subseteq Requested(env)
    BY DEF Requested
  <2>2. Static(env) \cup DOMAIN Samples(env) \subseteq Requested(env)
    BY DEF Requested
  <2> QED
    BY <2>1, <2>2 DEF NewNames
<1>2. \A r : Hidden \cap ParamNames(env, r) \subseteq Requested(env)
  BY <1>1 DEF ParamNames
<1>3. /\ DOMAIN Written(env).ordinary = Sections(env)
      /\ \A r \in Sections(env) :
           /\ DOMAIN Written(env).ordinary[r] = ParamNames(env, r) \ (Private \cup Static(env))
           /\ DOMAIN Written(env).static[r] = ParamNames(env, r) \cap Static(env)
  BY DEF Written
<1> QED
  BY <1>2, <1>3

\* The properties follow from the invariant.
LEMMA GenerateRight == GenInv => EnvironmentsRight
<1> SUFFICES ASSUME GenInv PROVE EnvironmentsRight
  OBVIOUS
<1>1. /\ \A i \in DOMAIN done : Effective(done[i]).name \in DOMAIN written
      /\ \A file \in DOMAIN written : \E i \in DOMAIN done : Effective(done[i]).name = file /\ written[file] = Written(Effective(done[i]))
  BY DEF GenInv, Filed
<1>2. FilesFollowDefinitions
  <2>1. DOMAIN written = {Effective(p).name : p \in ToSet(done)}
    <3>1. \A p \in ToSet(done) : \E i \in DOMAIN done : p = done[i]
      BY DEF ToSet
    <3>2. \A i \in DOMAIN done : done[i] \in ToSet(done)
      BY DEF ToSet
    <3>3. \A p \in ToSet(done) : Effective(p).name \in DOMAIN written
      BY <1>1, <3>1
    <3>4. \A file \in DOMAIN written : \E p \in ToSet(done) : file = Effective(p).name
      BY <1>1, <3>2
    <3> QED
      BY <3>3, <3>4
  <2>2. \A i \in DOMAIN done :
          LET name == Effective(done[i]).name IN
          (\A j \in DOMAIN done : j > i => Effective(done[j]).name # name) => written[name] = Written(Effective(done[i]))
    BY DEF GenInv, Filed
  <2> QED
    BY <2>1, <2>2 DEF FilesFollowDefinitions, GenInv, InTurn, Reached, Stopped
<1>3. ASSUME NEW file \in DOMAIN written
      PROVE  \E p \in ToSet(done) : Effective(p).name = file /\ written[file] = Written(Effective(p))
  BY <1>1 DEF ToSet
<1>4. HiddenOnRequest
  BY <1>3, WrittenShows DEF HiddenOnRequest
<1>5. NotForUsers
  BY <1>3, WrittenShows DEF NotForUsers
<1> QED
  BY <1>2, <1>4, <1>5 DEF EnvironmentsRight

\* environment_generator.py: the files are those defined, hidden parameters are in them only
\* on request, and what a user may not change is not offered.
THEOREM EnvironmentsAreRight == GenerateSpec => []EnvironmentsRight
BY GenerateStart, GenerateStep, GenerateRight, PTL DEF GenerateSpec

(***************************************************************************)
(* The checks that compute                                                 *)
(***************************************************************************)
\* The comparison of roles.
LEMMA RoleRight ==
  ASSUME check = "role", input \in RoleCases,
         retval = CompareRole(input.services, input.extras, input.appended, input.reference)
  PROVE  RolesAgree
<1>1. {input.services, input.extras, input.appended, input.reference} \subseteq Bag
  BY RoleAssumption
<1>2. PICK services \in Bag : services = input.services
  BY <1>1
<1>3. PICK extras \in Bag : extras = input.extras
  BY <1>1
<1>4. PICK appended \in Bag : appended = input.appended
  BY <1>1
<1>5. PICK reference \in Bag : reference = input.reference
  BY <1>1
<1>6. \A s \in ServiceNames : services[s] \in Nat /\ extras[s] \in Nat /\ appended[s] \in Nat /\ reference[s] \in Nat
  BY DEF Bag
<1>7. DOMAIN reference = ServiceNames /\ reference = [s \in ServiceNames |-> reference[s]]
  BY DEF Bag
<1>8. retval = 0 <=> ~Lacking(services, extras) /\ [s \in ServiceNames |-> services[s] - extras[s] + appended[s]] = reference
  BY <1>2, <1>3, <1>4, <1>5 DEF CompareRole, Error
<1>9. ~Lacking(services, extras) <=> \A s \in ServiceNames : extras[s] <= services[s]
  BY <1>6 DEF Lacking
<1>10. [s \in ServiceNames |-> services[s] - extras[s] + appended[s]] = reference
         <=> \A s \in ServiceNames : services[s] - extras[s] + appended[s] = reference[s]
  BY <1>7
<1>11. ASSUME NEW s \in ServiceNames, extras[s] <= services[s]
       PROVE  services[s] - extras[s] + appended[s] = reference[s] <=> services[s] + appended[s] = reference[s] + extras[s]
  BY <1>6, <1>11
<1> QED
  BY <1>2, <1>3, <1>4, <1>5, <1>8, <1>9, <1>10, <1>11 DEF RolesAgree

\* The search follows nothing that is not included.
LEMMA FollowedIncluded ==
  ASSUME NEW templates, NEW v, NEW S, templates[v].includes \in Seq(S)
  PROVE  /\ Followed(templates, v) \subseteq ToSet(templates[v].includes) \ {"class"}
         /\ Len(templates[v].includes) <= 1 => ToSet(templates[v].includes) \ {"class"} = Followed(templates, v)
<1>1. PICK list \in Seq(S) : list = templates[v].includes
  OBVIOUS
<1>2. list # <<>> => Len(list) >= 1 /\ 1 \in DOMAIN list /\ Head(list) = list[1]
  OBVIOUS
<1>3. Followed(templates, v) \subseteq ToSet(list) \ {"class"}
  BY <1>1, <1>2 DEF Followed, ToSet
<1>4. ASSUME Len(list) <= 1 PROVE ToSet(list) \ {"class"} \subseteq Followed(templates, v)
  <2>1. DOMAIN list \subseteq {1} /\ (list = <<>> => DOMAIN list = {})
    BY <1>4
  <2> QED
    BY <1>1, <1>2, <2>1 DEF Followed, ToSet
<1> QED
  BY <1>1, <1>3, <1>4

\* The search for uses of mysql.
LEMMA MysqlRight ==
  ASSUME check = "mysql", input \in ServiceCases, retval = MysqlUsage(input.templates, input.service)
  PROVE  MysqlFound
<1>1. PICK templates : templates = input.templates
  OBVIOUS
<1>2. PICK t \in DOMAIN templates : t = input.service
  BY <1>1, ServiceCaseAssumption
<1> DEFINE Included(v) == ToSet(templates[v].includes) \ {"class"}
           reachable == Reachable(templates, t)
           read == ReadAll(templates, t)
           wrong == (\E u \in reachable : templates[u].mysql) /\ (~templates[t].client \/ ~templates[t].puppet)
<1>3. ASSUME NEW v \in DOMAIN templates
      PROVE  /\ Followed(templates, v) \subseteq Included(v)
             /\ Len(templates[v].includes) <= 1 => Included(v) = Followed(templates, v)
             /\ Included(v) \subseteq DOMAIN templates
  <2>1. templates[v].includes \in Seq(DOMAIN templates \cup {"class"})
    BY <1>1, ServiceCaseAssumption
  <2>2. Included(v) \subseteq DOMAIN templates
    BY <2>1 DEF ToSet
  <2> QED
    BY <2>1, <2>2, FollowedIncluded
<1> HIDE DEF Included
<1>4. \A u : u \in reachable <=> u \in DOMAIN templates /\ \A S \in SUBSET DOMAIN templates :
                                   t \in S /\ (\A v \in S : Included(v) \subseteq S) => u \in S
  BY DEF Reachable, Included
<1>5. \A u : u \in read <=> u \in DOMAIN templates /\ \A S \in SUBSET DOMAIN templates :
                              t \in S /\ (\A v \in S : Followed(templates, v) \subseteq S) => u \in S
  BY DEF ReadAll
<1> HIDE DEF reachable, read
<1>6. read \subseteq reachable
  <2> SUFFICES ASSUME NEW u \in read, NEW S \in SUBSET DOMAIN templates, t \in S, \A v \in S : Included(v) \subseteq S
               PROVE  u \in S
    BY <1>4, <1>5
  <2>1. \A v \in S : Followed(templates, v) \subseteq S
    BY <1>3
  <2> QED
    BY <1>5, <2>1
<1>7. ASSUME NEW v \in reachable PROVE Included(v) \subseteq reachable
  <2> SUFFICES ASSUME NEW w \in Included(v), NEW S \in SUBSET DOMAIN templates, t \in S, \A x \in S : Included(x) \subseteq S
               PROVE  w \in S
    BY <1>3, <1>4
  <2> QED
    BY <1>4
<1>8. ASSUME \A u \in reachable : Len(templates[u].includes) <= 1 PROVE reachable \subseteq read
  <2> SUFFICES ASSUME NEW u \in reachable, NEW S \in SUBSET DOMAIN templates, t \in S,
                      \A v \in S : Followed(templates, v) \subseteq S
               PROVE  u \in S
    BY <1>4, <1>5
  <2> DEFINE U == S \cap reachable
  <2>1. \A v \in U : Included(v) \subseteq U
    BY <1>3, <1>7, <1>8
  <2>2. t \in U /\ U \in SUBSET DOMAIN templates
    BY <1>4
  <2> HIDE DEF U
  <2>3. u \in U
    BY <1>4, <2>1, <2>2
  <2> QED
    BY <2>3 DEF U
<1>9. retval = 1 <=> (\E u \in read : templates[u].mysql) /\ (~templates[t].client \/ ~templates[t].puppet)
  BY <1>1, <1>2 DEF MysqlUsage, Error, read
<1>10. /\ retval = 1 => wrong
       /\ wrong /\ (\A u \in reachable : Len(templates[u].includes) <= 1) => retval = 1
  BY <1>6, <1>8, <1>9
<1> QED
  BY <1>1, <1>2, <1>10 DEF MysqlFound, reachable

\* The conditions of upgrade tasks.
LEMMA TasksRight ==
  ASSUME check = "tasks", input \in TaskCases, retval = UpgradeTasks(input)
  PROVE  NothingTooEarly
<1> SUFFICES ASSUME retval = 0, input.form = "tasks", NEW task \in ToSet(CheckedList(input)), NEW step \in 0..5,
                    task.form = "list",
                    {task.when[i].n : i \in {j \in DOMAIN task.when : task.when[j].on = "step"}} # {},
                    step \notin {task.when[i].n : i \in {j \in DOMAIN task.when : task.when[j].on = "step"}}
             PROVE  Evaluated(task.when, step) = {1}
  BY DEF NothingTooEarly
<1> DEFINE when == task.when
<1>1. /\ input.lists \in Seq(ToSet(input.lists)) /\ Len(input.lists) > 0
      /\ \A k \in DOMAIN input.lists : \A t \in ToSet(input.lists[k]) : t.when \in Seq(ToSet(t.when))
  BY TaskAssumption
<1>2. StepFirst(when)
  BY DEF UpgradeTasks, Error
<1>3. \E k \in DOMAIN input.lists : CheckedList(input) = input.lists[k]
  <2>1. PICK lists \in Seq(ToSet(input.lists)) : lists = input.lists
    BY <1>1
  <2>2. DOMAIN lists = 1..Len(lists) /\ Len(lists) \in Nat
    OBVIOUS
  <2>3. Len(input.lists) \in DOMAIN input.lists
    BY <1>1, <2>1, <2>2
  <2> QED
    BY <2>3 DEF CheckedList
<1>4. when \in Seq(ToSet(when))
  BY <1>1, <1>3
<1>5. PICK i \in DOMAIN when : when[i].on = "step"
  OBVIOUS
<1>6. DOMAIN when = 1..Len(when) /\ Len(when) \in Nat /\ 1 \in DOMAIN when
  BY <1>4, <1>5
<1>7. when[1].on = "step"
  BY <1>2, <1>5 DEF StepFirst, OnStep
<1>8. when[1].n # step
  BY <1>6, <1>7
<1>9. ASSUME NEW j \in DOMAIN when, j # 1 PROVE j \notin Evaluated(when, step)
  <2>1. 1 \in 1..(j - 1)
    BY <1>6, <1>9
  <2> QED
    BY <1>7, <1>8, <2>1 DEF Evaluated
<1>10. 1 \in Evaluated(when, step)
  BY <1>6 DEF Evaluated
<1>11. Evaluated(when, step) \subseteq DOMAIN when
  BY DEF Evaluated
<1> QED
  BY <1>9, <1>10, <1>11

(***************************************************************************)
(* The scan: how many conditions there are since the last dash             *)
(***************************************************************************)
Clear(i, j) == \A k \in i..j : input[k].kind # "dash"

\* Two conditions without a dash between them are in the first n lines.
Twice(n) ==
  \E i, j \in 1..n : i < j /\ input[i].kind = "when" /\ input[j].kind = "when" /\ Clear(i, j)

Scanned ==
  /\ line \in 0..Len(input) /\ retval \in {0, 1, Running}
  /\ retval = Running => /\ count \in {0, 1} /\ ~Twice(line)
                         /\ count = 1 <=> \E i \in 1..line : input[i].kind = "when" /\ Clear(i, line)
  /\ retval = 1 => Twice(Len(input))
  /\ retval = 0 => ~Twice(Len(input))

\* Lines without a dash between them are of one task.
LEMMA SameTask ==
  ASSUME input \in LineCases, NEW i \in DOMAIN input, NEW j \in DOMAIN input, i < j, Clear(i, j)
  PROVE  input[i].task = input[j].task
<1>1. /\ input \in Seq(ToSet(input))
      /\ \A k \in DOMAIN input : k + 1 \in DOMAIN input /\ input[k + 1].kind # "dash" => input[k + 1].task = input[k].task
  BY LineAssumption
<1>2. DOMAIN input = 1..Len(input) /\ Len(input) \in Nat
  BY <1>1
<1> DEFINE T == {k \in i..j : input[k].task # input[i].task}
<1>3. T \in SUBSET Nat
  BY <1>2
<1>4. ASSUME T # {} PROVE FALSE
  <2>1. PICK m \in T : \A k \in T : m <= k
    BY <1>3, <1>4, Least
  <2>2. m \in i..j /\ input[m].task # input[i].task
    BY <2>1
  <2> HIDE DEF T
  <2>3. PICK k \in Nat : k + 1 = m /\ k \in i..j /\ k < m
    <3>1. m # i
      BY <2>2
    <3>2. m - 1 \in Nat /\ m - 1 \in i..j /\ m - 1 < m /\ (m - 1) + 1 = m
      BY <1>2, <2>2, <3>1
    <3> QED
      BY <3>2
  <2>4. k \notin T
    BY <1>3, <2>1, <2>3
  <2>5. input[k].task = input[i].task
    BY <2>3, <2>4 DEF T
  <2>6. k \in DOMAIN input /\ k + 1 \in DOMAIN input
    BY <1>2, <2>2, <2>3
  <2>7. input[k + 1].kind # "dash"
    BY <2>2, <2>3 DEF Clear
  <2> QED
    BY <1>1, <2>2, <2>3, <2>5, <2>6, <2>7
<1>5. j \in i..j
  BY <1>2
<1> QED
  BY <1>4, <1>5

\* A line more.
LEMMA ScanKeeps ==
  ASSUME check = "whens", input \in LineCases, Scanned, ScanLine
  PROVE  Scanned'
<1>1. input \in Seq(ToSet(input)) /\ \A l \in ToSet(input) : l.kind \in {"when", "dash", "other"}
  BY LineAssumption
<1>2. Len(input) \in Nat /\ DOMAIN input = 1..Len(input)
  BY <1>1
<1>3. line \in Nat /\ line < Len(input) /\ line' = line + 1 /\ input' = input /\ retval = Running
      /\ line' \in 0..Len(input')
  BY <1>2 DEF Scanned, ScanLine
<1>4. PICK n \in Nat : n = line /\ line' = n + 1 /\ n + 1 \in DOMAIN input
  BY <1>2, <1>3
<1>5. PICK kind \in {"when", "dash", "other"} : kind = input[n + 1].kind
  BY <1>1, <1>4 DEF ToSet
<1>6. /\ count \in {0, 1} /\ ~Twice(n)
      /\ count = 1 <=> \E i \in 1..n : input[i].kind = "when" /\ Clear(i, n)
  BY <1>3, <1>4 DEF Scanned
<1>7. count' = Counted(count, kind) /\ retval' = IF count' > 1 THEN 1 ELSE Running
  BY <1>4, <1>5 DEF ScanLine
<1>8. \A i \in 1..n : Clear(i, n + 1) <=> Clear(i, n) /\ kind # "dash"
  <2> SUFFICES ASSUME NEW i \in 1..n PROVE Clear(i, n + 1) <=> Clear(i, n) /\ kind # "dash"
    OBVIOUS
  <2>1. i..(n + 1) = (i..n) \cup {n + 1}
    OBVIOUS
  <2> QED
    BY <1>5, <2>1 DEF Clear
<1>9. Clear(n + 1, n + 1) <=> kind # "dash"
  <2>1. (n + 1)..(n + 1) = {n + 1}
    OBVIOUS
  <2> QED
    BY <1>5, <2>1 DEF Clear
<1>10. 1..(n + 1) = (1..n) \cup {n + 1}
  OBVIOUS
<1>11. (\E i \in 1..(n + 1) : input[i].kind = "when" /\ Clear(i, n + 1))
         <=> kind = "when" \/ (kind # "dash" /\ count = 1)
  BY <1>5, <1>6, <1>8, <1>9, <1>10
<1>12. Twice(n + 1) <=> kind = "when" /\ count = 1
  <2>1. ASSUME kind = "when", count = 1 PROVE Twice(n + 1)
    <3>1. PICK i \in 1..n : input[i].kind = "when" /\ Clear(i, n)
      BY <1>6, <2>1
    <3>2. i \in 1..(n + 1) /\ n + 1 \in 1..(n + 1) /\ i < n + 1 /\ Clear(i, n + 1)
      BY <1>8, <2>1, <3>1
    <3> QED
      BY <1>5, <2>1, <3>1, <3>2 DEF Twice
  <2>2. ASSUME Twice(n + 1) PROVE kind = "when" /\ count = 1
    <3>1. PICK i \in 1..(n + 1), j \in 1..(n + 1) : i < j /\ input[i].kind = "when" /\ input[j].kind = "when" /\ Clear(i, j)
      BY <2>2 DEF Twice
    <3>2. j = n + 1
      <4>1. ASSUME j # n + 1 PROVE Twice(n)
        <5>1. i \in 1..n /\ j \in 1..n
          BY <3>1, <4>1
        <5> QED
          BY <3>1, <5>1 DEF Twice
      <4> QED
        BY <1>6, <4>1
    <3>3. i \in 1..n
      BY <3>1, <3>2
    <3> QED
      BY <1>5, <1>6, <1>8, <3>1, <3>2, <3>3
  <2> QED
    BY <2>1, <2>2
<1>13. count' = IF kind = "when" THEN count + 1 ELSE IF kind = "dash" THEN 0 ELSE count
  BY <1>5, <1>7 DEF Counted
<1>14. Twice(n + 1) => Twice(Len(input))
  <2>1. 1..(n + 1) \subseteq 1..Len(input)
    BY <1>2, <1>4
  <2> QED
    BY <2>1 DEF Twice
<1>17. retval' \in {1, Running} /\ (retval' = 1 <=> kind = "when" /\ count = 1)
  BY <1>6, <1>7, <1>13 DEF Running
<1>18. retval' = 1 => Twice(Len(input))
  BY <1>12, <1>14, <1>17
<1>19. retval' = Running => /\ count' \in {0, 1} /\ ~Twice(n + 1)
                            /\ count' = 1 <=> \E i \in 1..(n + 1) : input[i].kind = "when" /\ Clear(i, n + 1)
  BY <1>6, <1>11, <1>12, <1>13, <1>17 DEF Running
<1>20. (\E i \in 1..line : input[i].kind = "when" /\ Clear(i, line))'
         <=> \E i \in 1..(n + 1) : input[i].kind = "when" /\ Clear(i, n + 1)
  BY <1>3, <1>4 DEF Clear
<1>21. (Twice(line)' <=> Twice(n + 1)) /\ (Twice(Len(input))' <=> Twice(Len(input)))
  BY <1>3, <1>4 DEF Twice, Clear
<1> QED
  BY <1>3, <1>17, <1>18, <1>19, <1>20, <1>21 DEF Scanned, Running

\* A scan has found exactly the conditions that are twice in a task.
LEMMA WhensRight ==
  ASSUME check = "whens", input \in LineCases, Scanned, retval # Running
  PROVE  WhensFound
<1>1. input \in Seq(ToSet(input))
  BY LineAssumption
<1>2. DOMAIN input = 1..Len(input)
  BY <1>1
<1>3. retval = 1 <=> Twice(Len(input))
  BY DEF Scanned
<1>4. \A i, j \in DOMAIN input : i < j /\ Clear(i, j) => input[i].task = input[j].task
  BY SameTask
<1>5. Twice(Len(input)) <=> \E i, j \in DOMAIN input :
        i < j /\ input[i].kind = "when" /\ input[j].kind = "when" /\ Clear(i, j)
  BY <1>2 DEF Twice
<1>6. WhensFound <=> (retval = 1 <=> \E i, j \in DOMAIN input :
        i < j /\ input[i].kind = "when" /\ input[j].kind = "when" /\ input[i].task = input[j].task /\ Clear(i, j))
  BY DEF WhensFound, Clear
<1> QED
  BY <1>3, <1>4, <1>5, <1>6

(***************************************************************************)
(* The inductive invariant: a check has returned what it computes of what  *)
(* it was given.                                                           *)
(***************************************************************************)
RoleInv == input \in RoleCases /\ retval \in {Running, CompareRole(input.services, input.extras, input.appended, input.reference)}
MysqlInv == input \in ServiceCases /\ retval \in {Running, MysqlUsage(input.templates, input.service)}
TasksInv == input \in TaskCases /\ retval \in {Running, UpgradeTasks(input)}
WhensInv == input \in LineCases /\ Scanned

CheckInv ==
  /\ check = "role" => RoleInv
  /\ check = "mysql" => MysqlInv
  /\ check = "tasks" => TasksInv
  /\ check = "whens" => WhensInv

\* Nothing has returned at first.
LEMMA CheckStart == CheckInit => CheckInv
<1> SUFFICES ASSUME CheckInit PROVE CheckInv
  OBVIOUS
<1>1. line = 0 /\ count = 0 /\ retval = Running
  BY DEF CheckInit
<1>2. ASSUME check = "whens" PROVE WhensInv
  <2>1. input \in LineCases
    BY <1>2 DEF CheckInit
  <2>2. input \in Seq(ToSet(input))
    BY <2>1, LineAssumption
  <2>3. Len(input) \in Nat /\ 1..0 = {}
    BY <2>2
  <2>4. ~Twice(0)
    BY <2>3 DEF Twice
  <2> QED
    BY <1>1, <2>1, <2>3, <2>4 DEF WhensInv, Scanned, Running
<1>3. (check = "role" => RoleInv) /\ (check = "mysql" => MysqlInv) /\ (check = "tasks" => TasksInv)
  BY <1>1 DEF CheckInit, RoleInv, MysqlInv, TasksInv
<1> QED
  BY <1>2, <1>3 DEF CheckInv

\* A check returns what it computes, a scan keeps its count.
LEMMA CheckStep == CheckInv /\ [CheckNext]_checkVars => CheckInv'
<1> SUFFICES ASSUME CheckInv, [CheckNext]_checkVars PROVE CheckInv'
  OBVIOUS
<1>1. CASE CheckRole
  BY <1>1 DEF CheckRole, Return, CheckInv, RoleInv
<1>2. CASE CheckMysql
  BY <1>2 DEF CheckMysql, Return, CheckInv, MysqlInv
<1>3. CASE CheckTasks
  BY <1>3 DEF CheckTasks, Return, CheckInv, TasksInv
<1>4. CASE ScanLine
  <2>1. check = "whens" /\ check' = check /\ input' = input /\ WhensInv
    BY <1>4 DEF ScanLine, CheckInv
  <2>2. Scanned'
    BY <1>4, <2>1, ScanKeeps DEF WhensInv
  <2> QED
    BY <2>1, <2>2 DEF CheckInv, WhensInv
<1>5. CASE ScanEnds
  <2>1. check = "whens" /\ check' = check /\ input' = input /\ line' = line /\ line = Len(input) /\ retval = Running /\ retval' = 0 /\ WhensInv
    BY <1>5 DEF ScanEnds, Return, CheckInv
  <2>2. ~Twice(Len(input)) /\ line \in 0..Len(input)
    BY <2>1 DEF WhensInv, Scanned
  <2>3. ~Twice(Len(input))'
    BY <2>1, <2>2 DEF Twice, Clear
  <2>4. Scanned'
    BY <2>1, <2>2, <2>3 DEF Scanned, Running
  <2> QED
    BY <2>1, <2>4 DEF CheckInv, WhensInv
<1>6. CASE UNCHANGED checkVars
  <2>1. UNCHANGED <<check, input, line, count, retval>>
    BY <1>6 DEF checkVars
  <2>2. Scanned' <=> Scanned
    BY <2>1 DEF Scanned, Twice, Clear
  <2> QED
    BY <2>1, <2>2 DEF CheckInv, RoleInv, MysqlInv, TasksInv, WhensInv
<1> QED
  BY <1>1, <1>2, <1>3, <1>4, <1>5, <1>6 DEF CheckNext

\* The properties follow from what the checks compute.
LEMMA CheckRight == CheckInv => ChecksRight
<1> SUFFICES ASSUME CheckInv, retval # Running
             PROVE  /\ check = "role" => RolesAgree
                    /\ check = "mysql" => MysqlFound
                    /\ check = "tasks" => NothingTooEarly
                    /\ check = "whens" => WhensFound
  BY DEF ChecksRight
<1>1. check = "role" => RolesAgree
  BY RoleRight DEF CheckInv, RoleInv
<1>2. check = "mysql" => MysqlFound
  BY MysqlRight DEF CheckInv, MysqlInv
<1>3. check = "tasks" => NothingTooEarly
  BY TasksRight DEF CheckInv, TasksInv
<1>4. check = "whens" => WhensFound
  BY WhensRight DEF CheckInv, WhensInv
<1> QED
  BY <1>1, <1>2, <1>3, <1>4

\* yaml-validate.py: the comparison of roles, the search for uses of mysql, the duplicate
\* conditions of upgrade tasks and the order in which conditions are tested.
THEOREM ChecksAreRight == CheckSpec => []ChecksRight
BY CheckStart, CheckStep, CheckRight, PTL DEF CheckSpec
=============================================================================
