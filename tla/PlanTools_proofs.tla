--------------------------- MODULE PlanTools_proofs --------------------------
(***************************************************************************)
(* The tools for a copy of the templates, for any tree, roles, networks    *)
(* and NIC configurations: what is rendered is current and cleaned, and    *)
(* the operator's files are saved, whatever is run, killed and repeated.   *)
(***************************************************************************)
EXTENDS PlanTools, TLAPS

(***************************************************************************)
(* The NIC configuration tools: the inductive invariant                    *)
(***************************************************************************)
NicPcs == {"idle", "style", "backup", "comment", "convert", "reference", "merge", "normal"}

NicTypes ==
  /\ file \in [Files -> Nic!Content] /\ original \in [Files -> Nic!Content]
  /\ pc \in NicPcs /\ todo \subseteq Files
  /\ pc # "idle" => at \in Files

\* Which tool is at which step.
ToolInv ==
  /\ pc # "idle" => tool \in {"convert", "merge"}
  /\ pc \in {"idle", "normal"} => ~discard
  /\ discard \in BOOLEAN /\ (discard => tool = "merge")
  /\ pc \in {"style", "convert"} => tool = "convert"
  /\ pc \in {"reference", "merge"} => tool = "merge"

Saved(f) == \E b \in backups : b.of = f /\ b.content = original[f]

\* Past the backup the original is in one, of this run or of an earlier one.
SavedInv ==
  /\ \A f \in Files : file[f] = original[f] \/ Saved(f)
  /\ pc \in {"comment", "convert", "reference", "merge", "normal"} => Saved(at)

\* The parameters of f are there, or were when the file was saved that a kill has cut.
Safe(f) ==
  \/ original[f].params \subseteq file[f].params
  \/ f \in kills.cut /\ \E b \in backups : b.of = f /\ original[f].params \subseteq b.content.params

\* What a backup of f has of parameters and of comments at S is in the file, the comments in
\* one of the states K, and so are the parameters P.
Holds(f, second, S, K, P) ==
  \E b \in backups :
    /\ b.of = f /\ b.second = second /\ b.content \in Nic!Content
    /\ b.content.params \cup P \subseteq file[f].params
    /\ \A s \in S : b.content.comments[s] # "none" => file[f].comments[s] \in K

\* How far a merge that keeps the comments has got with those of its backup.
MergingInv ==
  tool = "merge" /\ ~discard =>
    /\ pc = "comment" => Holds(at, stamp, Nic!Sites, {"comment", "key", "dumped"}, {})
    /\ pc \in {"reference", "merge"} => Holds(at, stamp, Nic!Sites, {"key", "dumped"}, {})
    /\ pc = "normal" => Holds(at, stamp, Nic!Sites, {"dumped"}, Reference)

MergedInv ==
  merged.of # Nic!None =>
    pc = "idle" /\ merged.of \in Files /\ Holds(merged.of, merged.second, {"among", "plain"}, {"comment"}, Reference)

NicInv == NicTypes /\ ToolInv /\ SavedInv /\ (\A f \in Files : Safe(f)) /\ MergingInv /\ MergedInv

\* What the steps make of a file is a file, with the parameters that it had.
LEMMA Contents ==
  ASSUME NEW c \in Nic!Content
  PROVE  /\ Nic!Commented(c) \in Nic!Content /\ Nic!Commented(c).params = c.params
         /\ Nic!Converted(c) \in Nic!Content /\ Nic!Converted(c).params = c.params
         /\ Nic!Normal(c) \in Nic!Content /\ Nic!Normal(c).params = c.params
         /\ Nic!Extended(c) \in Nic!Content /\ Nic!Extended(c).params = c.params \cup Reference
<1>1. Nic!Commented(c) \in Nic!Content /\ Nic!Commented(c).params = c.params
  BY DEF Nic!Content, Nic!Commented, Nic!States
<1>2. Nic!Converted(c) \in Nic!Content /\ Nic!Converted(c).params = c.params
  BY DEF Nic!Content, Nic!Converted, Nic!States
<1>3. Nic!Normal(c) \in Nic!Content /\ Nic!Normal(c).params = c.params
  BY DEF Nic!Content, Nic!Normal, Nic!States, Nic!Restored
<1>4. Nic!Extended(c) \in Nic!Content /\ Nic!Extended(c).params = c.params \cup Reference
  BY NicAssumption DEF Nic!Content, Nic!Extended, Nic!States
<1> QED
  BY <1>1, <1>2, <1>3, <1>4

\* What is left of a file that is cut is a file.
LEMMA CutContents ==
  ASSUME NEW c \in Nic!Content, NEW d \in Nic!Cuts(c)
  PROVE  d \in Nic!Content
<1>1. Nic!Torn \in Nic!Content
  BY DEF Nic!Content, Nic!Torn, Nic!States
<1>2. \A n : Nic!Beginning(c, n) \in Nic!Content
  BY DEF Nic!Content, Nic!Beginning, Nic!States
<1>3. ASSUME NEW P \in SUBSET c.params, NEW b \in Nic!Content PROVE [b EXCEPT !.params = P] \in Nic!Content
  <2>1. P \subseteq Params
    BY DEF Nic!Content
  <2> QED
    BY <1>3, <2>1 DEF Nic!Content
<1> QED
  BY <1>1, <1>2, <1>3 DEF Nic!Cuts

\* What is not lost among the comments becomes keys, ...
LEMMA CommentedSteps ==
  ASSUME NEW b \in Nic!Content, NEW c \in Nic!Content,
         \A s \in Nic!Sites : b.comments[s] # "none" => c.comments[s] \in {"comment", "key", "dumped"}
  PROVE  \A s \in Nic!Sites : b.comments[s] # "none" => Nic!Commented(c).comments[s] \in {"key", "dumped"}
BY DEF Nic!Commented, Nic!Content

\* ... the keys are dumped by the merge, ...
LEMMA ExtendedSteps ==
  ASSUME NEW b \in Nic!Content, NEW c \in Nic!Content,
         \A s \in Nic!Sites : b.comments[s] # "none" => c.comments[s] \in {"key", "dumped"}
  PROVE  \A s \in Nic!Sites : b.comments[s] # "none" => Nic!Extended(c).comments[s] \in {"dumped"}
BY DEF Nic!Extended, Nic!Content, Nic!Key

\* ... and those written in quotes on a line are made comments.
LEMMA NormalSteps ==
  ASSUME NEW b \in Nic!Content, NEW c \in Nic!Content,
         \A s \in Nic!Sites : b.comments[s] # "none" => c.comments[s] \in {"dumped"}
  PROVE  \A s \in {"among", "plain"} : b.comments[s] # "none" => Nic!Normal(c).comments[s] \in {"comment"}
BY DEF Nic!Normal, Nic!Content, Nic!Restored, Nic!Sites

\* What is known of the files after a step of a run.
Files1 ==
  /\ file \in [Files -> Nic!Content] /\ original \in [Files -> Nic!Content]
  /\ \A f \in Files : (file[f] = original[f] \/ Saved(f)) /\ Safe(f)

\* A step past the backup that writes the file at work keeps what is saved and the parameters,
\* or it is a kill that cuts the file.
LEMMA WriteKeeps ==
  ASSUME NicInv, pc \in {"comment", "convert", "merge", "normal"}, UNCHANGED <<original, backups>>,
         NEW c \in Nic!Content, file' = [file EXCEPT ![at] = c],
         kills.cut \subseteq kills'.cut,
         file[at].params \subseteq c.params \/ at \in kills'.cut
  PROVE  at \in Files /\ Files1' /\ (\A f \in Files : Saved(f) => Saved(f)')
<1>1. at \in Files /\ file \in [Files -> Nic!Content] /\ original \in [Files -> Nic!Content] /\ Saved(at)
  BY DEF NicInv, NicTypes, SavedInv
<1>2. file' \in [Files -> Nic!Content] /\ file'[at] = c /\ \A f \in Files \ {at} : file'[f] = file[f]
  BY <1>1
<1>3. \A f \in Files : Saved(f) => Saved(f)'
  BY DEF Saved
<1>4. \A f \in Files : (file[f] = original[f] \/ Saved(f))'
  BY <1>1, <1>2, <1>3 DEF NicInv, SavedInv
<1>5. ASSUME NEW f \in Files PROVE Safe(f)'
  <2>1. Safe(f)
    BY DEF NicInv
  <2>2. CASE f # at
    BY <1>2, <2>1, <2>2 DEF Safe
  <2>3. CASE f = at /\ file[at].params \subseteq c.params
    BY <1>2, <2>1, <2>3 DEF Safe
  <2>4. CASE f = at /\ at \in kills'.cut
    <3>1. \E b \in backups : b.of = f /\ original[f].params \subseteq b.content.params
      BY <1>1, <2>4 DEF Saved
    <3> QED
      BY <2>4, <3>1 DEF Safe
  <2> QED
    BY <2>2, <2>3, <2>4
<1> QED
  BY <1>1, <1>2, <1>3, <1>4, <1>5 DEF Files1

\* A step that leaves files and backups alone, or adds a backup.
LEMMA FilesKept ==
  ASSUME NicInv, UNCHANGED <<file, original>>, backups \subseteq backups', kills.cut \subseteq kills'.cut
  PROVE  Files1' /\ (\A f \in Files : Saved(f) => Saved(f)')
<1>1. \A f \in Files : Saved(f) => Saved(f)'
  BY DEF Saved
<1>2. \A f \in Files : (file[f] = original[f] \/ Saved(f))'
  BY <1>1 DEF NicInv, SavedInv
<1>3. ASSUME NEW f \in Files PROVE Safe(f)'
  <2>1. Safe(f)
    BY DEF NicInv
  <2> QED
    BY <2>1 DEF Safe
<1> QED
  BY <1>1, <1>2, <1>3 DEF NicInv, NicTypes, Files1

\* The end of a run, with what is known of the files.
LEMMA EndKeeps ==
  ASSUME NicInv, Nic!End, pc # "idle", Files1',
         \/ merged' = merged
         \/ merged'.of \in Files /\ Holds(merged.of, merged.second, {"among", "plain"}, {"comment"}, Reference)'
  PROVE  NicInv'
<1>1. pc' = "idle" /\ todo' = {} /\ discard' = FALSE
  BY DEF Nic!End
<1>2. merged.of = Nic!None
  BY DEF NicInv, MergedInv
<1>3. NicTypes'
  BY <1>1 DEF NicTypes, NicPcs, Files1
<1>4. ToolInv'
  BY <1>1 DEF ToolInv
<1>5. SavedInv'
  BY <1>1 DEF SavedInv, Files1
<1>6. MergedInv' /\ MergingInv'
  BY <1>1, <1>2 DEF MergedInv, MergingInv
<1> QED
  BY <1>3, <1>4, <1>5, <1>6 DEF NicInv, Files1

\* The next file of a conversion, or its end.
LEMMA NextFileKeeps ==
  ASSUME NicInv, Nic!NextFile, pc # "idle", tool = "convert", merged' = merged, Files1'
  PROVE  NicInv'
<1>1. CASE Nic!End
  BY <1>1, EndKeeps
<1>2. CASE ~Nic!End
  <2>1. pc' = "style" /\ UNCHANGED <<tool, discard>> /\ \E f \in todo : at' = f /\ todo' = todo \ {f}
    BY <1>2 DEF Nic!NextFile
  <2>2. todo \subseteq Files /\ merged.of = Nic!None
    BY DEF NicInv, NicTypes, MergedInv
  <2>3. NicTypes'
    <3>1. at' \in Files /\ todo' \subseteq Files
      BY <2>1, <2>2
    <3> QED
      BY <2>1, <3>1 DEF NicTypes, NicPcs, Files1
  <2>4. ToolInv'
    <3>1. discard \in BOOLEAN /\ (discard => tool = "merge")
      BY DEF NicInv, ToolInv
    <3>2. discard' \in BOOLEAN /\ (discard' => tool' = "merge")
      BY <2>1, <3>1, Zenon
    <3> QED
      BY <2>1, <3>2 DEF ToolInv
  <2>5. SavedInv'
    BY <2>1 DEF SavedInv, Files1
  <2>6. MergedInv' /\ MergingInv'
    BY <2>1, <2>2 DEF MergedInv, MergingInv
  <2> QED
    BY <2>3, <2>4, <2>5, <2>6 DEF NicInv, Files1
<1> QED
  BY <1>1, <1>2

\* A step of a run that goes on, with what is known of the files: the step that follows is one
\* that the tool has.
LEMMA StepKeeps ==
  ASSUME NicInv, pc # "idle", UNCHANGED <<tool, at, todo, discard, merged>>,
         pc' \in NicPcs \ {"idle", "style"},
         pc' = "convert" => tool = "convert", pc' \in {"reference", "merge"} => tool = "merge",
         pc' = "normal" => ~discard,
         pc' = "backup" \/ Saved(at)',
         Files1', MergingInv'
  PROVE  NicInv'
<1>1. at \in Files /\ todo \subseteq Files /\ tool \in {"convert", "merge"} /\ discard \in BOOLEAN
      /\ (discard => tool = "merge") /\ merged.of = Nic!None
  BY DEF NicInv, NicTypes, ToolInv, MergedInv
<1>2. NicTypes'
  BY <1>1 DEF NicTypes, NicPcs, Files1
<1>3. ToolInv'
  BY <1>1 DEF ToolInv, NicPcs
<1>4. SavedInv'
  <2>1. at' = at
    OBVIOUS
  <2>2. pc' \in {"comment", "convert", "reference", "merge", "normal"} => Saved(at)'
    OBVIOUS
  <2> QED
    BY <2>1, <2>2 DEF SavedInv, Files1
<1>5. MergedInv'
  BY <1>1 DEF MergedInv
<1> QED
  BY <1>2, <1>3, <1>4, <1>5 DEF NicInv, Files1

(***************************************************************************)
(* The steps                                                               *)
(***************************************************************************)
\* The steps between runs, and those that change none of what the invariant speaks of.
LEMMA IdleSteps ==
  ASSUME NicInv, Nic!Tick \/ Nic!BeginConvert \/ Nic!BeginMerge \/ UNCHANGED nicVars
  PROVE  NicInv'
<1>1. CASE Nic!Tick \/ UNCHANGED nicVars
  <2>1. UNCHANGED <<file, original, backups, tool, pc, at, todo, stamp, discard, merged, kills>>
    BY <1>1 DEF Nic!Tick, Nic!run, nicVars
  <2> QED
    BY <2>1 DEF NicInv, NicTypes, ToolInv, SavedInv, MergedInv, MergingInv, Saved, Safe, Holds
<1>2. CASE Nic!BeginConvert \/ Nic!BeginMerge
  <2>1. UNCHANGED <<file, original, backups, kills>> /\ pc = "idle" /\ merged' = Nic!NoMerge
    BY <1>2 DEF Nic!BeginConvert, Nic!BeginMerge
  <2>2. at' \in Files /\ todo' \subseteq Files
    <3>1. CASE Nic!BeginConvert
      <4>1. PICK F \in SUBSET Files : \E f \in F : at' = f /\ todo' = F \ {f}
        BY <3>1 DEF Nic!BeginConvert
      <4> QED
        BY <4>1
    <3>2. CASE Nic!BeginMerge
      BY <3>2 DEF Nic!BeginMerge, NicInv, NicTypes
    <3> QED
      BY <1>2, <3>1, <3>2
  <2>3. \/ tool' = "convert" /\ pc' = "style" /\ discard' = FALSE
        \/ tool' = "merge" /\ pc' = "backup" /\ discard' \in BOOLEAN
    <3>1. discard = FALSE
      BY <2>1 DEF NicInv, ToolInv
    <3> QED
      BY <1>2, <3>1 DEF Nic!BeginConvert, Nic!BeginMerge
  <2>4. Files1'
    BY <2>1, FilesKept
  <2>5. NicTypes'
    BY <2>2, <2>3, <2>4 DEF NicTypes, NicPcs, Files1
  <2>6. ToolInv'
    BY <2>3 DEF ToolInv
  <2>7. SavedInv'
    BY <2>3, <2>4 DEF SavedInv, Files1
  <2>8. MergedInv' /\ MergingInv'
    BY <2>1, <2>3 DEF MergedInv, MergingInv, Nic!NoMerge
  <2> QED
    BY <2>4, <2>5, <2>6, <2>7, <2>8 DEF NicInv, Files1
<1> QED
  BY <1>1, <1>2

\* The steps that change no file.
LEMMA LookingSteps ==
  ASSUME NicInv, Nic!CheckStyle \/ Nic!GetReference
  PROVE  NicInv'
<1>1. UNCHANGED <<file, original, backups, merged, kills>> /\ pc # "idle"
  BY DEF Nic!CheckStyle, Nic!GetReference
<1>2. Files1'
  BY <1>1, FilesKept
<1>3. CASE Nic!End
  BY <1>1, <1>2, <1>3, EndKeeps
<1>4. CASE Nic!CheckStyle /\ Nic!NextFile
  <2>1. tool = "convert"
    BY <1>4 DEF NicInv, ToolInv, Nic!CheckStyle
  <2> QED
    BY <1>1, <1>2, <1>4, <2>1, NextFileKeeps
<1>5. CASE ~Nic!End /\ ~(Nic!CheckStyle /\ Nic!NextFile)
  <2>1. UNCHANGED <<tool, at, todo, discard, merged>>
        /\ (pc' = "backup" \/ (pc = "reference" /\ pc' = "merge" /\ stamp' = stamp))
    BY <1>5 DEF Nic!CheckStyle, Nic!GetReference
  <2>2. pc = "reference" => tool = "merge" /\ Saved(at) /\ at \in Files
    BY DEF NicInv, NicTypes, ToolInv, SavedInv
  <2>3. pc = "reference" => Saved(at)'
    <3>1. Saved(at) /\ at' = at => Saved(at)'
      BY <1>1 DEF Saved
    <3> QED
      BY <2>1, <2>2, <3>1
  <2>4. MergingInv'
    BY <1>1, <2>1 DEF NicInv, MergingInv, Holds
  <2> QED
    BY <1>1, <1>2, <2>1, <2>2, <2>3, <2>4, StepKeeps DEF NicPcs
<1> QED
  BY <1>3, <1>4, <1>5 DEF Nic!CheckStyle, Nic!GetReference

\* The original is saved before anything is done to the file.
LEMMA SaveOriginalKeeps ==
  ASSUME NicInv, Nic!SaveOriginal
  PROVE  NicInv'
<1>1. UNCHANGED <<file, original, merged, kills>> /\ pc = "backup" /\ backups \subseteq backups'
  BY DEF Nic!SaveOriginal
<1>2. Files1'
  BY <1>1, FilesKept
<1>3. CASE Nic!Taken
  <2>1. IF tool = "merge" THEN Nic!End ELSE Nic!NextFile
    BY <1>3 DEF Nic!SaveOriginal
  <2>2. tool \in {"convert", "merge"}
    BY <1>1 DEF NicInv, ToolInv
  <2>3. CASE tool = "merge"
    BY <1>1, <1>2, <2>1, <2>3, EndKeeps
  <2>4. CASE tool = "convert"
    BY <1>1, <1>2, <2>1, <2>4, NextFileKeeps
  <2> QED
    BY <2>2, <2>3, <2>4
<1>4. CASE ~Nic!Taken
  <2>1. /\ backups' = backups \cup {Nic!Backup(at, file[at])}
        /\ pc' = IF discard THEN "reference" ELSE "comment"
        /\ UNCHANGED <<tool, at, todo, discard, stamp>>
    BY <1>4 DEF Nic!SaveOriginal
  <2>2. at \in Files /\ (discard => tool = "merge") /\ file[at] \in Nic!Content
    BY <1>1 DEF NicInv, NicTypes, ToolInv
  <2>3. PICK b : b = Nic!Backup(at, file[at])
    OBVIOUS
  <2>4. b.of = at /\ b.second = stamp /\ b.content = file[at] /\ b \in backups'
    BY <2>1, <2>3 DEF Nic!Backup
  <2>5. Saved(at)'
    <3>1. CASE file[at] = original[at]
      BY <1>1, <2>1, <2>4, <3>1 DEF Saved
    <3>2. CASE Saved(at)
      BY <1>1, <2>1, <3>2 DEF Saved
    <3> QED
      BY <2>2, <3>1, <3>2 DEF NicInv, SavedInv
  <2>6. pc' \in {"reference", "comment"} /\ (pc' = "reference" => tool = "merge" /\ discard)
    BY <2>1, <2>2
  <2>7. Holds(at, stamp, Nic!Sites, {"comment", "key", "dumped"}, {})'
    <3>1. \A s \in Nic!Sites : b.content.comments[s] # "none" => file'[at'].comments[s] \in {"comment", "key", "dumped"}
      BY <1>1, <2>1, <2>2, <2>4 DEF Nic!Content, Nic!States
    <3>2. b.content \in Nic!Content /\ b.content.params \cup {} \subseteq file'[at'].params
      BY <1>1, <2>1, <2>2, <2>4
    <3> QED
      BY <2>1, <2>4, <3>1, <3>2 DEF Holds
  <2>8. MergingInv'
    BY <2>1, <2>6, <2>7 DEF MergingInv
  <2> QED
    BY <1>1, <1>2, <2>1, <2>5, <2>6, <2>8, StepKeeps DEF NicPcs
<1> QED
  BY <1>3, <1>4

\* The comments become keys.
LEMMA ToCommentedKeeps ==
  ASSUME NicInv, Nic!ToCommented
  PROVE  NicInv'
<1>1. /\ pc = "comment" /\ file' = [file EXCEPT ![at] = Nic!Commented(file[at])]
      /\ pc' = IF tool = "merge" THEN "reference" ELSE "convert"
      /\ UNCHANGED <<original, backups, tool, at, todo, discard, merged, stamp, kills>>
  BY DEF Nic!ToCommented, Nic!run
<1>2. at \in Files /\ file \in [Files -> Nic!Content] /\ Saved(at) /\ tool \in {"convert", "merge"}
  BY <1>1 DEF NicInv, NicTypes, ToolInv, SavedInv
<1>3. /\ Nic!Commented(file[at]) \in Nic!Content /\ Nic!Commented(file[at]).params = file[at].params
      /\ file[at] \in Nic!Content
  BY <1>2, Contents
<1>4. Files1'
  BY <1>1, <1>3, WriteKeeps
<1>5. Saved(at)'
  <2>1. Saved(at) /\ at' = at => Saved(at)'
    BY <1>1 DEF Saved
  <2> QED
    BY <1>1, <1>2, <2>1
<1>6. pc' \in {"reference", "convert"} /\ (pc' = "reference" => tool = "merge") /\ (pc' = "convert" => tool = "convert")
  BY <1>1, <1>2
<1>7. MergingInv'
  <2> SUFFICES ASSUME tool = "merge", ~discard PROVE Holds(at, stamp, Nic!Sites, {"key", "dumped"}, {})'
    BY <1>1, <1>6 DEF MergingInv
  <2>1. Holds(at, stamp, Nic!Sites, {"comment", "key", "dumped"}, {})
    BY <1>1 DEF NicInv, MergingInv
  <2>2. PICK b \in backups :
          /\ b.of = at /\ b.second = stamp /\ b.content \in Nic!Content
          /\ b.content.params \subseteq file[at].params
          /\ \A s \in Nic!Sites : b.content.comments[s] # "none" => file[at].comments[s] \in {"comment", "key", "dumped"}
    BY <2>1 DEF Holds
  <2>3. \A s \in Nic!Sites : b.content.comments[s] # "none" => Nic!Commented(file[at]).comments[s] \in {"key", "dumped"}
    BY <1>3, <2>2, CommentedSteps
  <2>4. file'[at] = Nic!Commented(file[at])
    BY <1>1, <1>2
  <2>5. b.content.params \cup {} \subseteq file'[at].params
    BY <1>3, <2>2, <2>4
  <2> QED
    BY <1>1, <2>2, <2>3, <2>4, <2>5 DEF Holds
<1> QED
  BY <1>1, <1>4, <1>5, <1>6, <1>7, StepKeeps DEF NicPcs

\* The conversion, which may give up or raise.
LEMMA ConvertKeeps ==
  ASSUME NicInv, Nic!Convert
  PROVE  NicInv'
<1>1. pc = "convert" /\ UNCHANGED <<original, backups, merged, kills>>
  BY DEF Nic!Convert
<1>2. at \in Files /\ file[at] \in Nic!Content /\ Saved(at) /\ tool = "convert" /\ ~discard
  BY <1>1 DEF NicInv, NicTypes, ToolInv, SavedInv
<1>3. Saved(at) /\ at' = at => Saved(at)'
  BY <1>1 DEF Saved
<1>4. CASE /\ file' = [file EXCEPT ![at] = Nic!Converted(file[at])] /\ pc' = "normal"
           /\ UNCHANGED <<tool, at, todo, discard>>
  <2>1. Nic!Converted(file[at]) \in Nic!Content /\ Nic!Converted(file[at]).params = file[at].params
    BY <1>2, Contents
  <2>2. Files1'
    BY <1>1, <1>4, <2>1, WriteKeeps
  <2>3. Saved(at)' /\ MergingInv'
    BY <1>2, <1>3, <1>4 DEF MergingInv
  <2> QED
    BY <1>1, <1>2, <1>4, <2>2, <2>3, StepKeeps DEF NicPcs
<1>5. CASE UNCHANGED file
  <2>1. Files1'
    BY <1>1, <1>5, FilesKept
  <2>2. CASE Nic!End
    BY <1>1, <2>1, <2>2, EndKeeps
  <2>3. CASE pc' = "normal" /\ UNCHANGED <<tool, at, todo, discard>>
    <3>1. Saved(at)' /\ MergingInv'
      BY <1>2, <1>3, <2>3 DEF MergingInv
    <3> QED
      BY <1>1, <1>2, <2>1, <2>3, <3>1, StepKeeps DEF NicPcs
  <2>4. CASE ~Nic!End /\ ~(pc' = "normal" /\ UNCHANGED <<tool, at, todo, discard>>)
    BY <1>4, <2>4 DEF Nic!Convert
  <2> QED
    BY <2>2, <2>3, <2>4
<1> QED
  BY <1>4, <1>5 DEF Nic!Convert

\* The merge, which may raise.
LEMMA MergeKeeps ==
  ASSUME NicInv, Nic!Merge
  PROVE  NicInv'
<1>1. pc = "merge" /\ UNCHANGED <<original, backups, merged, kills>>
  BY DEF Nic!Merge
<1>2. at \in Files /\ file \in [Files -> Nic!Content] /\ file[at] \in Nic!Content /\ Saved(at) /\ tool = "merge"
  BY <1>1 DEF NicInv, NicTypes, ToolInv, SavedInv
<1>3. CASE file' = [file EXCEPT ![at] = Nic!Extended(file[at])]
  <2>1. Nic!Extended(file[at]) \in Nic!Content /\ Nic!Extended(file[at]).params = file[at].params \cup Reference
    BY <1>2, Contents
  <2>2. file[at].params \subseteq Nic!Extended(file[at]).params
    BY <2>1
  <2>3. Files1'
    BY <1>1, <1>3, <2>1, <2>2, WriteKeeps
  <2>4. CASE Nic!End
    BY <1>1, <2>3, <2>4, EndKeeps
  <2>5. CASE ~Nic!End /\ Nic!Mergeable(file[at])
    <3>1. pc' = "normal" /\ ~discard /\ UNCHANGED <<tool, at, todo, discard, stamp>>
      BY <2>5 DEF Nic!Merge
    <3>2. Saved(at)'
      <4>1. Saved(at) /\ at' = at => Saved(at)'
        BY <1>1 DEF Saved
      <4> QED
        BY <1>2, <3>1, <4>1
    <3>3. file'[at] = Nic!Extended(file[at])
      BY <1>2, <1>3
    <3>4. Holds(at, stamp, Nic!Sites, {"key", "dumped"}, {})
      BY <1>1, <1>2, <3>1 DEF NicInv, MergingInv
    <3>5. PICK b \in backups :
            /\ b.of = at /\ b.second = stamp /\ b.content \in Nic!Content
            /\ b.content.params \subseteq file[at].params
            /\ \A s \in Nic!Sites : b.content.comments[s] # "none" => file[at].comments[s] \in {"key", "dumped"}
      BY <3>4 DEF Holds
    <3>6. \A s \in Nic!Sites : b.content.comments[s] # "none" => Nic!Extended(file[at]).comments[s] \in {"dumped"}
      BY <1>2, <3>5, ExtendedSteps
    <3>7. b.content.params \cup Reference \subseteq file'[at].params
      BY <2>1, <3>3, <3>5
    <3>8. Holds(at, stamp, Nic!Sites, {"dumped"}, Reference)'
      BY <1>1, <3>1, <3>3, <3>5, <3>6, <3>7 DEF Holds
    <3>9. MergingInv'
      BY <3>1, <3>8 DEF MergingInv
    <3> QED
      BY <1>1, <1>2, <2>3, <3>1, <3>2, <3>9, StepKeeps DEF NicPcs
  <2>6. CASE ~Nic!End /\ ~Nic!Mergeable(file[at])
    BY <2>6 DEF Nic!Merge
  <2> QED
    BY <2>4, <2>5, <2>6
<1>4. CASE Nic!End /\ UNCHANGED file
  <2>1. Files1'
    BY <1>1, <1>4, FilesKept
  <2> QED
    BY <1>1, <1>4, <2>1, EndKeeps
<1> QED
  BY <1>3, <1>4 DEF Nic!Merge

\* The keys become comments, those that YAML has written and those that a run before left.
LEMMA ToNormalKeeps ==
  ASSUME NicInv, Nic!ToNormal
  PROVE  NicInv'
<1>1. /\ pc = "normal" /\ file' = [file EXCEPT ![at] = Nic!Normal(file[at])]
      /\ UNCHANGED <<original, backups, kills>>
      /\ IF tool = "merge" THEN Nic!End /\ merged' = [of |-> at, second |-> stamp] ELSE Nic!NextFile /\ UNCHANGED merged
  BY DEF Nic!ToNormal
<1>2. at \in Files /\ file \in [Files -> Nic!Content] /\ file[at] \in Nic!Content /\ tool \in {"convert", "merge"}
      /\ ~discard
  BY <1>1 DEF NicInv, NicTypes, ToolInv
<1>3. Nic!Normal(file[at]) \in Nic!Content /\ Nic!Normal(file[at]).params = file[at].params
  BY <1>2, Contents
<1>4. Files1'
  BY <1>1, <1>3, WriteKeeps
<1>5. CASE tool = "convert"
  <2>1. Nic!NextFile /\ merged' = merged
    BY <1>1, <1>5
  <2> QED
    BY <1>1, <1>4, <1>5, <2>1, NextFileKeeps
<1>6. CASE tool = "merge"
  <2>1. Holds(at, stamp, Nic!Sites, {"dumped"}, Reference)
    BY <1>1, <1>2, <1>6 DEF NicInv, MergingInv
  <2>2. PICK b \in backups :
          /\ b.of = at /\ b.second = stamp /\ b.content \in Nic!Content
          /\ b.content.params \cup Reference \subseteq file[at].params
          /\ \A s \in Nic!Sites : b.content.comments[s] # "none" => file[at].comments[s] \in {"dumped"}
    BY <2>1 DEF Holds
  <2>3. \A s \in {"among", "plain"} : b.content.comments[s] # "none" => Nic!Normal(file[at]).comments[s] \in {"comment"}
    BY <1>2, <2>2, NormalSteps
  <2>4. merged'.of = at /\ merged'.second = stamp /\ Nic!End
    BY <1>1, <1>6
  <2>5. file'[at] = Nic!Normal(file[at])
    BY <1>1, <1>2
  <2>6. b.content.params \cup Reference \subseteq file'[merged'.of].params
    BY <1>3, <2>2, <2>4, <2>5
  <2>7. Holds(merged.of, merged.second, {"among", "plain"}, {"comment"}, Reference)'
    BY <1>1, <2>2, <2>3, <2>4, <2>5, <2>6 DEF Holds
  <2> QED
    BY <1>1, <1>2, <1>4, <2>4, <2>7, EndKeeps
<1> QED
  BY <1>2, <1>5, <1>6

\* A kill, also in a write.
LEMMA KillKeeps ==
  ASSUME NicInv, Nic!Kill
  PROVE  NicInv'
<1>1. pc # "idle" /\ Nic!End /\ UNCHANGED <<original, merged>>
  BY DEF Nic!Kill
<1>2. CASE UNCHANGED file /\ backups \subseteq backups' /\ kills' = [kills EXCEPT !.count = @ + 1]
  <2>1. kills.cut \subseteq kills'.cut
    BY <1>2
  <2> QED
    BY <1>1, <1>2, <2>1, FilesKept, EndKeeps
<1>3. CASE /\ \E c \in UNION {Nic!Cuts(w) : w \in Nic!Written(file[at])} : file' = [file EXCEPT ![at] = c]
           /\ kills' = [count |-> kills.count + 1, cut |-> kills.cut \cup {at}] /\ UNCHANGED backups
  <2>1. at \in Files /\ file[at] \in Nic!Content
    BY <1>1 DEF NicInv, NicTypes
  <2>2. PICK w : w \in Nic!Written(file[at]) /\ \E c \in Nic!Cuts(w) : file' = [file EXCEPT ![at] = c]
    BY <1>3
  <2>3. pc \in {"comment", "convert", "merge", "normal"} /\ w \in Nic!Content
    <3>1. CASE pc = "comment"
      BY <2>1, <2>2, <3>1, Contents DEF Nic!Written
    <3>2. CASE pc = "convert" /\ Nic!Convertible(file[at])
      BY <2>1, <2>2, <3>2, Contents DEF Nic!Written
    <3>3. CASE pc = "merge" /\ Nic!Mergeable(file[at])
      BY <2>1, <2>2, <3>3, Contents DEF Nic!Written
    <3>4. CASE pc = "normal"
      BY <2>1, <2>2, <3>4, Contents DEF Nic!Written
    <3> QED
      BY <2>2, <3>1, <3>2, <3>3, <3>4 DEF Nic!Written
  <2>4. PICK c \in Nic!Cuts(w) : file' = [file EXCEPT ![at] = c]
    BY <2>2
  <2>7. c \in Nic!Content
    BY <2>3, CutContents
  <2>5. kills.cut \subseteq kills'.cut /\ at \in kills'.cut
    BY <1>3
  <2>6. Files1'
    BY <1>1, <1>3, <2>3, <2>4, <2>5, <2>7, WriteKeeps
  <2> QED
    BY <1>1, <2>6, EndKeeps
<1> QED
  BY <1>2, <1>3 DEF Nic!Kill

(***************************************************************************)
(* The theorems about the NIC configuration tools                          *)
(***************************************************************************)
\* The invariant of the conversion and extension of NIC configurations is one of the tools.
THEOREM NicInvariance == Spec => []NicInv
<1>1. Init => NicInv
  <2> SUFFICES ASSUME Nic!Init PROVE NicInv
    BY DEF Init
  <2>1. original \in [Files -> Nic!Content] /\ file = original
    BY NicAssumption DEF Nic!Init
  <2>2. pc = "idle" /\ todo = {} /\ tool = Nic!None /\ discard = FALSE /\ merged.of = Nic!None /\ at = Nic!None
    BY DEF Nic!Init, Nic!NoMerge
  <2>3. NicTypes
    BY <2>1, <2>2 DEF NicTypes, NicPcs
  <2>4. ToolInv
    BY <2>2 DEF ToolInv
  <2>5. SavedInv
    BY <2>1, <2>2 DEF SavedInv
  <2>6. MergedInv /\ MergingInv
    BY <2>2 DEF MergedInv, MergingInv, Nic!None
  <2>7. \A f \in Files : Safe(f)
    BY <2>1 DEF Safe
  <2> QED
    BY <2>3, <2>4, <2>5, <2>6, <2>7 DEF NicInv
<1>2. NicInv /\ [Next]_<<script, planVars, nicVars>> => NicInv'
  <2> SUFFICES ASSUME NicInv, RunNic \/ UNCHANGED nicVars PROVE NicInv'
    BY DEF Next, RunPlan
  <2>1. CASE UNCHANGED nicVars
    BY <2>1, IdleSteps
  <2>2. CASE RunNic
    <3>1. Nic!Next
      BY <2>2 DEF RunNic
    <3> QED
      BY <3>1, IdleSteps, LookingSteps, SaveOriginalKeeps, ToCommentedKeeps, ConvertKeeps, MergeKeeps, ToNormalKeeps,
         KillKeeps DEF Nic!Next
  <2> QED
    BY <2>1, <2>2
<1> QED
  BY <1>1, <1>2, PTL DEF Spec

\* For any files, templates and orders of runs and kills: what an operator's NIC configuration
\* was before the first run is in the file or in a backup of it.
THEOREM OriginalStays == Spec => []OriginalSaved
<1>1. NicInv => OriginalSaved
  BY DEF NicInv, SavedInv, Saved, OriginalSaved, Nic!OriginalSaved
<1> QED
  BY <1>1, NicInvariance, PTL

\* For any files and any number of kills, whatever they leave of a file in a write: a
\* parameter of the operator's is lost only from a file that a kill has cut, and which has
\* been saved before with all of them.
THEOREM ParametersStay == Spec => []ParametersKept
<1>1. NicInv => ParametersKept
  BY DEF NicInv, Safe, ParametersKept, Nic!ParametersKept
<1> QED
  BY <1>1, NicInvariance, PTL

\* A merge that goes through has the parameters that it found and the reference's in the file,
\* and every comment above the first resource or in quotes on a line that it found, as one or
\* as a key that a killed run had left, as a comment.
THEOREM MergesRepair == Spec => []MergeRepairs
<1>1. NicInv => MergeRepairs
  BY DEF NicInv, MergedInv, Holds, MergeRepairs, Nic!MergeRepairs
<1> QED
  BY <1>1, NicInvariance, PTL

(***************************************************************************)
(* The rendering and cleaning of the tree: the inductive invariant         *)
(***************************************************************************)
\* What is made of the entries of the tree, and what is cleaned of.
Made == UNION {Plan!ToSet(Plan!Jobs(data, t)) : t \in Plan!Entries}
Things == Plan!ToSet(data.networks) \cup Plan!ToSet(data.roles)

PlanTypes ==
  /\ walk \in Walks /\ data \in Datas /\ rev \in Nat \ {0}
  /\ planPc \in {"idle", "render", "clean", "done", "failed"}
  /\ disk \in [Plan!Trees -> [Plan!Paths -> Int]]
  /\ planPc = "render" => /\ cmd \in Plan!Commands
                          /\ planTodo \in Seq(Plan!Entries) /\ jobs \in Seq(Made)
  /\ planPc = "clean" => cmd.op = "clean" /\ planTodo \in Seq(Things)

\* In the tree itself a source file is one that it has had from the start.
BaseInv == \A p \in Plan!Paths : disk["base"][p] >= Plan!Source /\ (disk["base"][p] = Plan!Source => p \in Sources)

\* A rendering that the property is about.
Counts ==
  /\ cmd.op = "render" /\ ~cmd.dry
  /\ cmd.tree = "out" => \A p \in Plan!Paths : disk["base"][p] <= 0

\* There is an output of path p that is still to be rendered.
Pending(p) ==
  /\ planPc = "render"
  /\ \/ \E i \in DOMAIN jobs : jobs[i].kind # "file" /\ jobs[i].path = p /\ ~Plan!Skipped(jobs[i])
     \/ \E i \in DOMAIN planTodo :
          /\ planTodo[i].kind # "file"
          /\ \E j \in Plan!ToSet(Plan!Jobs(data, planTodo[i])) : j.path = p /\ ~Plan!Skipped(j)

\* What a rendering is to make is current already, or still to be made.
RenderInv ==
  planPc \in {"render", "done"} /\ Counts =>
    \A p \in Plan!Wanted : p \in Sources \/ disk[cmd.tree][p] = rev \/ Pending(p)

FilesOf(x) == IF x.of = "network" THEN Plan!NetworkFiles(x) ELSE Plan!RoleFiles(x)

\* What is rendered from the data is gone, or one of the files of a network or role to follow.
CleanInv ==
  planPc \in {"clean", "done"} /\ cmd.op = "clean" =>
    \A p \in Plan!Rendered :
      \/ disk["base"][p] <= 0 \/ p.name[2] = "external_resource_v6"
      \/ planPc = "clean" /\ \E i \in DOMAIN planTodo : p \in FilesOf(planTodo[i])

PlanInv == PlanTypes /\ BaseInv /\ RenderInv /\ CleanInv

(***************************************************************************)
(* Lemmas about entries, outputs and paths                                 *)
(***************************************************************************)
\* Head and tail of a sequence that is not empty.
LEMMA SequenceParts ==
  ASSUME NEW S, NEW q \in Seq(S), q # <<>>
  PROVE  /\ Head(q) \in S /\ Head(q) = q[1] /\ Tail(q) \in Seq(S)
         /\ 1 \in DOMAIN q
         /\ \A i \in DOMAIN q : i = 1 \/ (i - 1 \in DOMAIN Tail(q) /\ Tail(q)[i - 1] = q[i])
OBVIOUS

\* The elements of one sequence after another are those of both.
LEMMA Concatenated ==
  ASSUME NEW S, NEW q \in Seq(S), NEW r \in Seq(S)
  PROVE  /\ \A i \in DOMAIN q : i \in DOMAIN (q \o r) /\ (q \o r)[i] = q[i]
         /\ \A i \in DOMAIN r : Len(q) + i \in DOMAIN (q \o r) /\ (q \o r)[Len(q) + i] = r[i]
OBVIOUS

\* What a template or file is made to: a sequence of outputs, of the kinds that it has.
LEMMA JobsOf ==
  ASSUME NEW d \in Datas, NEW w \in Walks, NEW t \in Plan!ToSet(w)
  PROVE  /\ Plan!Jobs(d, t) \in Seq(Plan!ToSet(Plan!Jobs(d, t)))
         /\ \A j \in Plan!ToSet(Plan!Jobs(d, t)) :
              \/ t.kind = "file" /\ j.kind = "file" /\ j.path = Plan!Path(t)
              \/ t.kind = "plain" /\ j.kind = "plain" /\ j.path = Plan!Path(t)
              \/ /\ t.kind = "role" /\ j.kind = "role"
                 /\ \E i \in DOMAIN d.roles : j.path = Plan!RoleOutput(t, d.roles[i])
              \/ /\ t.kind = "network" /\ j.kind \in {"network", "disabled"}
                 /\ \E i \in DOMAIN d.networks : j.path = Plan!NetworkOutput(t, d.networks[i])
<1>1. t.kind \in {"role", "network", "plain", "file"}
  BY WalkAssumption
<1>2. CASE t.kind = "role"
  <2>1. Plan!Jobs(d, t) = [i \in DOMAIN d.roles |-> Plan!Job("role", Plan!RoleOutput(t, d.roles[i]))]
    BY <1>2 DEF Plan!Jobs
  <2>2. PICK n \in Nat : DOMAIN d.roles = 1..n
    BY DataAssumption
  <2>3. Plan!Jobs(d, t) \in Seq(Plan!ToSet(Plan!Jobs(d, t)))
    BY <2>1, <2>2 DEF Plan!ToSet
  <2> QED
    BY <1>2, <2>1, <2>3 DEF Plan!ToSet, Plan!Job
<1>3. CASE t.kind = "network"
  <2>1. Plan!Jobs(d, t) =
          [i \in DOMAIN d.networks |->
             Plan!Job(IF d.networks[i].enabled THEN "network" ELSE "disabled", Plan!NetworkOutput(t, d.networks[i]))]
    BY <1>3 DEF Plan!Jobs
  <2>2. PICK n \in Nat : DOMAIN d.networks = 1..n
    BY DataAssumption
  <2>3. Plan!Jobs(d, t) \in Seq(Plan!ToSet(Plan!Jobs(d, t)))
    BY <2>1, <2>2 DEF Plan!ToSet
  <2> QED
    BY <1>3, <2>1, <2>3 DEF Plan!ToSet, Plan!Job
<1>4. CASE t.kind \in {"plain", "file"}
  <2>1. Plan!Jobs(d, t) = <<Plan!Job(t.kind, Plan!Path(t))>>
    BY <1>4 DEF Plan!Jobs
  <2> QED
    BY <1>4, <2>1 DEF Plan!ToSet, Plan!Job
<1> QED
  BY <1>1, <1>2, <1>3, <1>4

\* What is made has a path there may be; what is made of a template is an output.
LEMMA MadePaths ==
  ASSUME PlanTypes
  PROVE  /\ \A t \in Plan!Entries :
              /\ Plan!Jobs(data, t) \in Seq(Made)
              /\ t.kind # "file" => \A j \in Plan!ToSet(Plan!Jobs(data, t)) : j.kind # "file"
         /\ \A j \in Made : j.path \in Plan!Paths /\ (j.kind # "file" => j \in Plan!AllJobs(data, walk))
         /\ \A j \in Plan!AllJobs(data, walk) : j.path \in Plan!Paths
         /\ \A t \in Plan!Entries : t.kind = "plain" => \E j \in Plan!AllJobs(data, walk) : j.kind = "plain" /\ j.path = Plan!Path(t)
<1>1. walk \in Walks /\ data \in Datas
  BY DEF PlanTypes
<1>2. \A t \in Plan!Entries : Plan!ToSet(Plan!Jobs(data, t)) \subseteq Made
  BY DEF Made
<1>3. \A t \in Plan!Entries : Plan!Jobs(data, t) \in Seq(Made)
  <2> TAKE t \in Plan!Entries
  <2>1. Plan!Jobs(data, t) \in Seq(Plan!ToSet(Plan!Jobs(data, t)))
    BY <1>1, JobsOf DEF Plan!Entries
  <2> QED
    BY <1>2, <2>1
<1>4. \A t \in Plan!Entries : t.kind # "file" => \A j \in Plan!ToSet(Plan!Jobs(data, t)) : j.kind # "file"
  BY <1>1, JobsOf DEF Plan!Entries
<1>5. \A j \in Plan!AllJobs(data, walk) : j.path \in Plan!Paths
  BY <1>1 DEF Plan!Paths
<1>6. \A j \in Made : j.path \in Plan!Paths /\ (j.kind # "file" => j \in Plan!AllJobs(data, walk))
  <2> TAKE j \in Made
  <2>1. PICK t \in Plan!Entries : j \in Plan!ToSet(Plan!Jobs(data, t))
    BY DEF Made
  <2>2. CASE t.kind = "file"
    <3>1. j.kind = "file" /\ j.path = Plan!Path(t)
      BY <1>1, <2>1, <2>2, JobsOf DEF Plan!Entries
    <3> QED
      BY <2>1, <3>1 DEF Plan!Paths
  <2>3. CASE t.kind # "file"
    <3>1. j \in Plan!AllJobs(data, walk)
      BY <2>1, <2>3 DEF Plan!AllJobs, Plan!Entries, Plan!IsTemplate
    <3> QED
      BY <1>5, <3>1
  <2> QED
    BY <2>2, <2>3
<1>7. \A t \in Plan!Entries : t.kind = "plain" => \E j \in Plan!AllJobs(data, walk) : j.kind = "plain" /\ j.path = Plan!Path(t)
  <2> SUFFICES ASSUME NEW t \in Plan!Entries, t.kind = "plain"
               PROVE  \E j \in Plan!AllJobs(data, walk) : j.kind = "plain" /\ j.path = Plan!Path(t)
    OBVIOUS
  <2>1. Plan!Jobs(data, t) = <<Plan!Job("plain", Plan!Path(t))>>
    BY DEF Plan!Jobs
  <2>2. Plan!Job("plain", Plan!Path(t)) \in Plan!ToSet(Plan!Jobs(data, t))
    BY <2>1 DEF Plan!ToSet
  <2>3. Plan!Job("plain", Plan!Path(t)) \in Plan!AllJobs(data, walk)
    BY <2>2 DEF Plan!AllJobs, Plan!Entries, Plan!IsTemplate
  <2> QED
    BY <2>3 DEF Plan!Job
<1> QED
  BY <1>3, <1>4, <1>5, <1>6, <1>7

(***************************************************************************)
(* The steps of the rendering                                              *)
(***************************************************************************)
\* What the paths and outputs are does not change within a command.
LEMMA SameNames ==
  ASSUME UNCHANGED <<walk, data>>
  PROVE  /\ Plan!Entries' = Plan!Entries /\ Plan!Paths' = Plan!Paths /\ Made' = Made /\ Things' = Things
         /\ Plan!Rendered' = Plan!Rendered
         /\ UNCHANGED cmd => Plan!Wanted' = Plan!Wanted
<1>1. Plan!Entries' = Plan!Entries
  BY DEF Plan!Entries
<1>2. Plan!Paths' = Plan!Paths
  BY DEF Plan!Paths, Plan!Entries
<1>3. Made' = Made
  BY DEF Made, Plan!Entries
<1>4. Things' = Things
  BY DEF Things
<1>5. Plan!Rendered' = Plan!Rendered
  BY DEF Plan!Rendered
<1>6. UNCHANGED cmd => Plan!Wanted' = Plan!Wanted
  BY DEF Plan!Wanted, Plan!Skipped
<1> QED
  BY <1>1, <1>2, <1>3, <1>4, <1>5, <1>6

\* Nothing happens, or the operator changes the data between two commands.
LEMMA PlanIdles ==
  ASSUME PlanInv, Plan!Reconfigure \/ UNCHANGED planVars
  PROVE  PlanInv'
<1>1. CASE UNCHANGED planVars
  <2>1. UNCHANGED <<walk, data, rev, disk, cmd, planPc, planTodo, jobs>>
    BY <1>1 DEF planVars
  <2>2. PlanTypes'
    BY <2>1, SameNames DEF PlanInv, PlanTypes
  <2>3. BaseInv'
    BY <2>1, SameNames DEF PlanInv, BaseInv
  <2>4. RenderInv'
    <3>1. Counts' = Counts /\ Plan!Wanted' = Plan!Wanted
      BY <2>1, SameNames DEF Counts
    <3>2. \A p : Pending(p)' = Pending(p)
      BY <2>1 DEF Pending, Plan!Skipped
    <3> QED
      BY <2>1, <3>1, <3>2 DEF PlanInv, RenderInv
  <2>5. CleanInv'
    BY <2>1, SameNames DEF PlanInv, CleanInv
  <2> QED
    BY <2>2, <2>3, <2>4, <2>5 DEF PlanInv
<1>2. CASE Plan!Reconfigure
  <2>1. /\ planPc' = "idle" /\ rev' = rev + 1 /\ data' \in Datas
        /\ UNCHANGED <<walk, disk>>
    BY <1>2 DEF Plan!Reconfigure
  <2>2. Plan!Paths' = Plan!Paths
    BY <2>1 DEF Plan!Paths, Plan!Entries
  <2>3. PlanTypes'
    BY <2>1, <2>2 DEF PlanInv, PlanTypes
  <2>4. BaseInv'
    BY <2>1, <2>2 DEF PlanInv, BaseInv
  <2>5. RenderInv' /\ CleanInv'
    BY <2>1 DEF RenderInv, CleanInv
  <2> QED
    BY <2>3, <2>4, <2>5 DEF PlanInv
<1> QED
  BY <1>1, <1>2

\* At the start everything that is wanted is still to be made.
LEMMA BeginRenderKeeps ==
  ASSUME PlanInv, Plan!BeginRender
  PROVE  PlanInv'
<1>1. /\ cmd' \in Plan!Commands /\ planPc' = "render" /\ planTodo' = walk /\ jobs' = <<>>
      /\ UNCHANGED <<walk, data, rev, disk>>
  BY DEF Plan!BeginRender
<1>2. walk \in Walks /\ walk \in Seq(Plan!Entries)
  BY WalkAssumption DEF PlanInv, PlanTypes, Plan!Entries
<1>3. PlanTypes'
  BY <1>1, <1>2, SameNames DEF PlanInv, PlanTypes
<1>4. BaseInv'
  BY <1>1, SameNames DEF PlanInv, BaseInv
<1>5. RenderInv'
  <2> SUFFICES ASSUME NEW p \in Plan!Wanted' PROVE Pending(p)'
    BY DEF RenderInv
  <2>1. PICK j \in Plan!AllJobs(data, walk) : j.path = p /\ ~Plan!Skipped(j)'
    BY <1>1 DEF Plan!Wanted
  <2>2. PICK t \in Plan!ToSet(walk) : Plan!IsTemplate(t) /\ j \in Plan!ToSet(Plan!Jobs(data, t))
    BY DEF Plan!AllJobs
  <2>3. PICK i \in DOMAIN walk : walk[i] = t
    BY DEF Plan!ToSet
  <2>4. i \in DOMAIN planTodo' /\ planTodo'[i] = t /\ t.kind # "file"
    BY <1>1, <2>2, <2>3 DEF Plan!IsTemplate
  <2>5. j \in Plan!ToSet(Plan!Jobs(data, planTodo'[i]))
    BY <2>2, <2>4
  <2> QED
    BY <1>1, <2>1, <2>4, <2>5 DEF Pending
<1>6. CleanInv'
  BY <1>1 DEF CleanInv, Plan!Commands
<1> QED
  BY <1>3, <1>4, <1>5, <1>6 DEF PlanInv

\* What an entry was to be made to is now a file by file.
LEMMA NextEntryKeeps ==
  ASSUME PlanInv, Plan!NextEntry
  PROVE  PlanInv'
<1>1. /\ planPc = "render" /\ jobs = <<>> /\ planTodo # <<>>
      /\ planTodo' = Tail(planTodo) /\ jobs' = Plan!Jobs(data, Head(planTodo))
      /\ UNCHANGED <<walk, data, rev, disk, cmd, planPc>>
  BY DEF Plan!NextEntry
<1>2. planTodo \in Seq(Plan!Entries) /\ cmd \in Plan!Commands
  BY <1>1 DEF PlanInv, PlanTypes
<1>3. /\ Head(planTodo) \in Plan!Entries /\ Head(planTodo) = planTodo[1] /\ planTodo' \in Seq(Plan!Entries)
      /\ \A i \in DOMAIN planTodo : i = 1 \/ (i - 1 \in DOMAIN planTodo' /\ planTodo'[i - 1] = planTodo[i])
  BY <1>1, <1>2, SequenceParts
<1>4. /\ jobs' \in Seq(Made)
      /\ Head(planTodo).kind # "file" => \A j \in Plan!ToSet(jobs') : j.kind # "file"
  BY <1>1, <1>3, MadePaths DEF PlanInv
<1>5. PlanTypes'
  BY <1>1, <1>2, <1>3, <1>4, SameNames DEF PlanInv, PlanTypes
<1>6. BaseInv'
  BY <1>1, SameNames DEF PlanInv, BaseInv
<1>7. \A p : Pending(p) => Pending(p)'
  <2> SUFFICES ASSUME NEW p, Pending(p) PROVE Pending(p)'
    OBVIOUS
  <2>1. PICK i \in DOMAIN planTodo :
          /\ planTodo[i].kind # "file"
          /\ \E j \in Plan!ToSet(Plan!Jobs(data, planTodo[i])) : j.path = p /\ ~Plan!Skipped(j)
    BY <1>1 DEF Pending
  <2>2. PICK j \in Plan!ToSet(Plan!Jobs(data, planTodo[i])) : j.path = p /\ ~Plan!Skipped(j)
    BY <2>1
  <2>3. ~Plan!Skipped(j)'
    BY <1>1, <2>2 DEF Plan!Skipped
  <2>4. CASE i = 1
    <3>1. j \in Plan!ToSet(jobs') /\ j.kind # "file"
      BY <1>1, <1>3, <1>4, <2>1, <2>2, <2>4
    <3>2. PICK k \in DOMAIN jobs' : jobs'[k] = j
      BY <3>1 DEF Plan!ToSet
    <3> QED
      BY <1>1, <2>2, <2>3, <3>1, <3>2 DEF Pending
  <2>5. CASE i # 1
    <3>1. i - 1 \in DOMAIN planTodo' /\ planTodo'[i - 1] = planTodo[i]
      BY <1>3, <2>5
    <3>2. planTodo'[i - 1].kind # "file" /\ j \in Plan!ToSet(Plan!Jobs(data', planTodo'[i - 1]))
      BY <1>1, <2>1, <2>2, <3>1
    <3> QED
      BY <1>1, <2>2, <2>3, <3>1, <3>2 DEF Pending
  <2> QED
    BY <2>4, <2>5
<1>8. RenderInv'
  <2>1. Counts' = Counts /\ Plan!Wanted' = Plan!Wanted
    BY <1>1, SameNames DEF Counts
  <2> QED
    BY <1>1, <1>7, <2>1 DEF PlanInv, RenderInv
<1>9. CleanInv'
  BY <1>1, <1>2 DEF CleanInv, Plan!Commands
<1> QED
  BY <1>5, <1>6, <1>8, <1>9 DEF PlanInv

\* What a visit does to the tree: nothing, a copy of what the tree has, or the current rendering
\* of an output that is not skipped, and that safe mode lets be written.
LEMMA VisitWrites ==
  ASSUME PlanInv, Plan!Visit
  PROVE  /\ planPc = "render" /\ jobs \in Seq(Made) /\ jobs # <<>> /\ jobs' = Tail(jobs)
         /\ cmd \in Plan!Commands /\ cmd.tree \in Plan!Trees
         /\ UNCHANGED <<walk, data, rev, cmd, planPc, planTodo>>
         /\ Head(jobs) \in Made /\ Head(jobs).path \in Plan!Paths
         /\ \/ /\ UNCHANGED disk
               /\ Head(jobs).kind = "file" \/ cmd.dry \/ Plan!Skipped(Head(jobs))
            \/ /\ cmd.tree = "out" /\ Head(jobs).kind = "file"
               /\ disk["base"][Head(jobs).path] # 0
               /\ Plan!Put(Head(jobs).path, disk["base"][Head(jobs).path])
            \/ /\ Head(jobs).kind # "file" /\ ~cmd.dry /\ ~Plan!Skipped(Head(jobs))
               /\ ~(cmd.safe /\ Plan!Present(Head(jobs).path))
               /\ Plan!Put(Head(jobs).path, rev)
<1>1. /\ planPc = "render" /\ jobs # <<>> /\ jobs' = Tail(jobs)
      /\ UNCHANGED <<walk, data, rev, cmd, planPc, planTodo>>
      /\ Plan!CopyFile(Head(jobs)) \/ Plan!RenderFile(Head(jobs))
  BY DEF Plan!Visit
<1>2. jobs \in Seq(Made) /\ cmd \in Plan!Commands
  BY <1>1 DEF PlanInv, PlanTypes
<1>3. cmd.tree \in Plan!Trees
  BY <1>2 DEF Plan!Commands
<1>4. Head(jobs) \in Made
  BY <1>1, <1>2, SequenceParts
<1>5. Head(jobs).path \in Plan!Paths
  BY <1>4, MadePaths DEF PlanInv
<1>6. \/ /\ UNCHANGED disk
         /\ Head(jobs).kind = "file" \/ cmd.dry \/ Plan!Skipped(Head(jobs))
      \/ /\ cmd.tree = "out" /\ Head(jobs).kind = "file"
         /\ disk["base"][Head(jobs).path] # 0
         /\ Plan!Put(Head(jobs).path, disk["base"][Head(jobs).path])
      \/ /\ Head(jobs).kind # "file" /\ ~cmd.dry /\ ~Plan!Skipped(Head(jobs))
         /\ ~(cmd.safe /\ Plan!Present(Head(jobs).path))
         /\ Plan!Put(Head(jobs).path, rev)
  BY <1>1 DEF Plan!CopyFile, Plan!RenderFile, Plan!Stops, Plan!Overwrite, Plan!Nothing
<1> QED
  BY <1>1, <1>2, <1>3, <1>4, <1>5, <1>6

\* The tree after one file of it has been written.
LEMMA PutOne ==
  ASSUME PlanTypes, cmd.tree \in Plan!Trees, NEW path \in Plan!Paths, NEW v \in Int, Plan!Put(path, v)
  PROVE  /\ disk' \in [Plan!Trees -> [Plan!Paths -> Int]]
         /\ disk'[cmd.tree][path] = v
         /\ \A tree \in Plan!Trees : \A p \in Plan!Paths :
              tree # cmd.tree \/ p # path => disk'[tree][p] = disk[tree][p]
<1>1. disk \in [Plan!Trees -> [Plan!Paths -> Int]] /\ disk' = [disk EXCEPT ![cmd.tree][path] = v]
  BY DEF PlanTypes, Plan!Put
<1> QED
  BY <1>1

\* A visit makes current what it takes off the list, or what it takes off is not wanted.
LEMMA VisitKeeps ==
  ASSUME PlanInv, Plan!Visit
  PROVE  PlanInv'
<1> DEFINE j == Head(jobs)
<1>1. /\ planPc = "render" /\ jobs \in Seq(Made) /\ jobs # <<>> /\ jobs' = Tail(jobs)
      /\ cmd \in Plan!Commands /\ cmd.tree \in Plan!Trees
      /\ UNCHANGED <<walk, data, rev, cmd, planPc, planTodo>>
      /\ j.path \in Plan!Paths
  BY VisitWrites
<1>2. \/ /\ UNCHANGED disk
         /\ j.kind = "file" \/ cmd.dry \/ Plan!Skipped(j)
      \/ /\ cmd.tree = "out" /\ j.kind = "file"
         /\ disk["base"][j.path] # 0
         /\ Plan!Put(j.path, disk["base"][j.path])
      \/ /\ j.kind # "file" /\ ~cmd.dry /\ ~Plan!Skipped(j)
         /\ Plan!Put(j.path, rev)
  BY VisitWrites
<1>3. /\ disk \in [Plan!Trees -> [Plan!Paths -> Int]] /\ rev \in Nat \ {0}
      /\ planTodo \in Seq(Plan!Entries) /\ disk["base"][j.path] \in Int
  BY <1>1 DEF PlanInv, PlanTypes, Plan!Trees
<1>4. /\ jobs' \in Seq(Made)
      /\ \A i \in DOMAIN jobs : jobs[i] = j \/ (i - 1 \in DOMAIN jobs' /\ jobs'[i - 1] = jobs[i])
  BY <1>1, SequenceParts
<1>5. /\ disk' \in [Plan!Trees -> [Plan!Paths -> Int]]
      /\ cmd.tree = "out" => \A p \in Plan!Paths : disk'["base"][p] = disk["base"][p]
      /\ \A p \in Plan!Paths : disk'["base"][p] = disk["base"][p] \/ disk'["base"][p] = rev
      /\ \A p \in Plan!Paths : p # j.path => disk'[cmd.tree][p] = disk[cmd.tree][p]
      /\ ~(cmd.dry \/ Plan!Skipped(j)) /\ j.kind # "file" => disk'[cmd.tree][j.path] = rev
      /\ j.kind = "file" => disk'[cmd.tree][j.path] \in {disk[cmd.tree][j.path], disk["base"][j.path]}
      /\ j.kind = "file" /\ disk'[cmd.tree][j.path] # disk[cmd.tree][j.path] =>
           cmd.tree = "out" /\ disk["base"][j.path] # 0
      /\ j.kind # "file" => disk'[cmd.tree][j.path] \in {disk[cmd.tree][j.path], rev}
  <2>1. CASE UNCHANGED disk /\ (j.kind = "file" \/ cmd.dry \/ Plan!Skipped(j))
    BY <1>3, <2>1
  <2>2. CASE /\ cmd.tree = "out" /\ j.kind = "file" /\ disk["base"][j.path] # 0
             /\ Plan!Put(j.path, disk["base"][j.path])
    <3>1. /\ disk' \in [Plan!Trees -> [Plan!Paths -> Int]] /\ disk'[cmd.tree][j.path] = disk["base"][j.path]
          /\ \A tree \in Plan!Trees : \A p \in Plan!Paths : tree # cmd.tree \/ p # j.path => disk'[tree][p] = disk[tree][p]
      BY <1>1, <1>3, <2>2, PutOne DEF PlanInv
    <3> QED
      BY <1>1, <2>2, <3>1 DEF Plan!Trees
  <2>3. CASE j.kind # "file" /\ ~cmd.dry /\ ~Plan!Skipped(j) /\ Plan!Put(j.path, rev)
    <3>1. /\ disk' \in [Plan!Trees -> [Plan!Paths -> Int]] /\ disk'[cmd.tree][j.path] = rev
          /\ \A tree \in Plan!Trees : \A p \in Plan!Paths : tree # cmd.tree \/ p # j.path => disk'[tree][p] = disk[tree][p]
      BY <1>1, <1>3, <2>3, PutOne DEF PlanInv
    <3> QED
      BY <1>1, <2>3, <3>1 DEF Plan!Trees
  <2> QED
    BY <1>2, <2>1, <2>2, <2>3
<1>6. PlanTypes'
  BY <1>1, <1>3, <1>4, <1>5, SameNames DEF PlanInv, PlanTypes
<1>7. BaseInv'
  <2>1. \A p \in Plan!Paths : disk["base"][p] >= -1 /\ (disk["base"][p] = -1 => p \in Sources)
    BY DEF PlanInv, BaseInv, Plan!Source
  <2>2. \A p \in Plan!Paths : disk'["base"][p] >= -1 /\ (disk'["base"][p] = -1 => p \in Sources)
    <3> TAKE p \in Plan!Paths
    <3>1. disk'["base"][p] = disk["base"][p] \/ disk'["base"][p] = rev
      BY <1>5
    <3> QED
      BY <1>3, <2>1, <3>1
  <2>3. Plan!Paths' = Plan!Paths
    BY <1>1, SameNames
  <2> QED
    BY <2>2, <2>3 DEF BaseInv, Plan!Source
<1>8. RenderInv'
  <2>1. Plan!Wanted' = Plan!Wanted /\ Plan!Paths' = Plan!Paths
    BY <1>1, SameNames
  <2> SUFFICES ASSUME Counts', NEW p \in Plan!Wanted PROVE p \in Sources \/ (disk[cmd.tree][p] = rev)' \/ Pending(p)'
    BY <2>1 DEF RenderInv
  <2>2. /\ Counts /\ ~cmd.dry
        /\ cmd.tree = "out" => \A q \in Plan!Paths : disk["base"][q] <= 0
    BY <1>1, <1>5, <2>1 DEF Counts
  <2>3. p \in Plan!Paths
    BY MadePaths DEF PlanInv, Plan!Wanted
  <2>4. p \in Sources \/ disk[cmd.tree][p] = rev \/ Pending(p)
    BY <1>1, <2>2 DEF PlanInv, RenderInv
  <2>5. CASE p \in Sources
    BY <2>5
  <2>6. CASE disk[cmd.tree][p] = rev
    <3>1. CASE p # j.path
      BY <1>1, <1>5, <2>3, <2>6, <3>1
    <3>2. CASE p = j.path /\ j.kind # "file"
      BY <1>1, <1>5, <2>6, <3>2
    <3>3. CASE p = j.path /\ j.kind = "file"
      <4>1. CASE disk'[cmd.tree][p] = disk[cmd.tree][p]
        BY <1>1, <2>6, <4>1
      <4>2. CASE disk'[cmd.tree][p] # disk[cmd.tree][p]
        <5>1. disk["base"][p] # 0 /\ disk["base"][p] <= 0
          BY <1>5, <2>2, <2>3, <3>3, <4>2
        <5>2. disk["base"][p] \in Int /\ disk["base"][p] >= -1 /\ (disk["base"][p] = -1 => p \in Sources)
          BY <1>3, <2>3, <3>3 DEF PlanInv, BaseInv, Plan!Source
        <5> QED
          BY <5>1, <5>2
      <4> QED
        BY <4>1, <4>2
    <3> QED
      BY <3>1, <3>2, <3>3
  <2>7. CASE Pending(p)
    <3>1. CASE \E i \in DOMAIN jobs : jobs[i].kind # "file" /\ jobs[i].path = p /\ ~Plan!Skipped(jobs[i])
      <4>1. PICK i \in DOMAIN jobs : jobs[i].kind # "file" /\ jobs[i].path = p /\ ~Plan!Skipped(jobs[i])
        BY <3>1
      <4>2. CASE jobs[i] = j
        BY <1>1, <1>5, <2>2, <4>1, <4>2
      <4>3. CASE jobs[i] # j
        <5>1. i - 1 \in DOMAIN jobs' /\ jobs'[i - 1] = jobs[i]
          BY <1>4, <4>3
        <5>2. \E x : x = jobs[i] /\ x.kind # "file" /\ x.path = p /\ ~Plan!Skipped(x)
          BY <4>1
        <5>3. PICK x : x = jobs[i] /\ x.kind # "file" /\ x.path = p /\ ~Plan!Skipped(x)
          BY <5>2
        <5>4. jobs'[i - 1] = x /\ ~Plan!Skipped(x)'
          BY <1>1, <5>1, <5>3 DEF Plan!Skipped
        <5>5. \E k \in DOMAIN jobs' : jobs'[k] = x
          BY <5>1, <5>4
        <5> QED
          BY <1>1, <5>3, <5>4, <5>5 DEF Pending, Plan!Skipped
      <4> QED
        BY <4>2, <4>3
    <3>2. CASE \E i \in DOMAIN planTodo :
                 /\ planTodo[i].kind # "file"
                 /\ \E k \in Plan!ToSet(Plan!Jobs(data, planTodo[i])) : k.path = p /\ ~Plan!Skipped(k)
      BY <1>1, <3>2 DEF Pending, Plan!Skipped
    <3> QED
      BY <2>7, <3>1, <3>2 DEF Pending
  <2> QED
    BY <2>4, <2>5, <2>6, <2>7
<1>9. CleanInv'
  BY <1>1 DEF CleanInv, Plan!Commands
<1> QED
  BY <1>6, <1>7, <1>8, <1>9 DEF PlanInv

(***************************************************************************)
(* The steps of the cleaning, and the ends of both                         *)
(***************************************************************************)
\* The tree after files of it have been deleted.
LEMMA DeleteSome ==
  ASSUME PlanInv, UNCHANGED <<walk, data>>, NEW paths, Plan!Delete(paths)
  PROVE  /\ disk' \in [Plan!Trees -> [Plan!Paths -> Int]] /\ BaseInv'
         /\ \A p \in Plan!Paths : disk'["base"][p] = IF p \in paths THEN 0 ELSE disk["base"][p]
<1>1. disk \in [Plan!Trees -> [Plan!Paths -> Int]]
  BY DEF PlanInv, PlanTypes
<1>2. disk["base"] \in [Plan!Paths -> Int] /\ DOMAIN disk["base"] = Plan!Paths
  BY <1>1 DEF Plan!Trees
<1>3. disk' = [disk EXCEPT !["base"] = [p \in Plan!Paths |-> IF p \in paths THEN 0 ELSE disk["base"][p]]]
  BY <1>2 DEF Plan!Delete, Plan!Nothing
<1>4. [p \in Plan!Paths |-> IF p \in paths THEN 0 ELSE disk["base"][p]] \in [Plan!Paths -> Int]
  BY <1>2
<1>5. disk' \in [Plan!Trees -> [Plan!Paths -> Int]]
  BY <1>1, <1>3, <1>4
<1>6. \A p \in Plan!Paths : disk'["base"][p] = IF p \in paths THEN 0 ELSE disk["base"][p]
  BY <1>1, <1>3 DEF Plan!Trees
<1>7. BaseInv'
  <2>1. \A p \in Plan!Paths : disk["base"][p] >= -1 /\ (disk["base"][p] = -1 => p \in Sources)
    BY DEF PlanInv, BaseInv, Plan!Source
  <2>2. \A p \in Plan!Paths : disk'["base"][p] >= -1 /\ (disk'["base"][p] = -1 => p \in Sources)
    BY <1>6, <2>1
  <2>3. Plan!Paths' = Plan!Paths
    BY SameNames
  <2> QED
    BY <2>2, <2>3 DEF BaseInv, Plan!Source
<1> QED
  BY <1>5, <1>6, <1>7

\* Every output of a template but external_resource_v6 is deleted by its own name or with a
\* network or role of the data.
LEMMA OutputsListed ==
  ASSUME PlanTypes, NEW p \in Plan!Rendered
  PROVE  \/ p.name[2] = "external_resource_v6"
         \/ p \in {Plan!Path(e) : e \in {x \in Plan!Entries : x.kind = "plain"}}
         \/ \E i \in DOMAIN (data.networks \o data.roles) : p \in FilesOf((data.networks \o data.roles)[i])
<1>1. walk \in Walks /\ data \in Datas
  BY DEF PlanTypes
<1>2. PICK j \in Plan!AllJobs(data, walk) : j.path = p
  BY DEF Plan!Rendered
<1>3. PICK t \in Plan!Entries : t.kind # "file" /\ j \in Plan!ToSet(Plan!Jobs(data, t))
  BY DEF Plan!AllJobs, Plan!Entries, Plan!IsTemplate
<1>4. \/ t.kind = "plain" /\ p = Plan!Path(t)
      \/ t.kind = "role" /\ \E i \in DOMAIN data.roles : p = Plan!RoleOutput(t, data.roles[i])
      \/ t.kind = "network" /\ \E i \in DOMAIN data.networks : p = Plan!NetworkOutput(t, data.networks[i])
  BY <1>1, <1>2, <1>3, JobsOf DEF Plan!Entries
<1>5. /\ data.roles \in Seq(Plan!ToSet(data.roles)) /\ \A i \in DOMAIN data.roles : data.roles[i].of = "role"
      /\ data.networks \in Seq(Plan!ToSet(data.networks)) /\ \A i \in DOMAIN data.networks : data.networks[i].of = "network"
  BY <1>1, DataAssumption
<1>6. /\ \A i \in DOMAIN data.networks :
           i \in DOMAIN (data.networks \o data.roles) /\ (data.networks \o data.roles)[i] = data.networks[i]
      /\ \A i \in DOMAIN data.roles :
           /\ Len(data.networks) + i \in DOMAIN (data.networks \o data.roles)
           /\ (data.networks \o data.roles)[Len(data.networks) + i] = data.roles[i]
  <2>1. data.networks \in Seq(Things) /\ data.roles \in Seq(Things)
    BY <1>1, DataAssumption DEF Things
  <2>2. \A q, r \in Seq(Things) :
          /\ \A i \in DOMAIN q : i \in DOMAIN (q \o r) /\ (q \o r)[i] = q[i]
          /\ \A i \in DOMAIN r : Len(q) + i \in DOMAIN (q \o r) /\ (q \o r)[Len(q) + i] = r[i]
    BY Concatenated
  <2> QED
    BY <2>1, <2>2, Zenon
<1>7. CASE t.kind = "plain" /\ p = Plan!Path(t)
  BY <1>7
<1>8. CASE t.kind = "role" /\ \E i \in DOMAIN data.roles : p = Plan!RoleOutput(t, data.roles[i])
  <2>1. PICK i \in DOMAIN data.roles : p = Plan!RoleOutput(t, data.roles[i])
    BY <1>8
  <2>2. t.dir = "network/config" \/ (t.dir = "puppet" /\ t.name[2] = "role")
    BY <1>1, <1>8, TemplateAssumption DEF Plan!Entries
  <2>3. p \in Plan!RoleFiles(data.roles[i])
    BY <2>1, <2>2 DEF Plan!RoleOutput, Plan!RoleFiles
  <2>4. p \in FilesOf(data.roles[i])
    BY <1>5, <2>3 DEF FilesOf
  <2> QED
    BY <1>6, <2>4
<1>9. CASE t.kind = "network" /\ \E i \in DOMAIN data.networks : p = Plan!NetworkOutput(t, data.networks[i])
  <2>1. PICK i \in DOMAIN data.networks : p = Plan!NetworkOutput(t, data.networks[i])
    BY <1>9
  <2>2. t.name[2] = "external_resource_v6" \/ [dir |-> t.dir, stem |-> t.name[2]] \in Plan!NetworkStems
    <3>1. \/ t.dir = "network" /\ t.name[2] \in {"", "v6"}
          \/ /\ t.dir = "network/ports"
             /\ t.name[2] \in {"", "v6", "from_pool", "from_pool_v6", "external_resource", "external_resource_v6"}
      BY <1>1, <1>9, TemplateAssumption DEF Plan!Entries
    <3> QED
      BY <3>1 DEF Plan!NetworkStems
  <2>3. p = [dir |-> t.dir, name |-> <<data.networks[i].low, t.name[2]>>]
    BY <2>1 DEF Plan!NetworkOutput
  <2>4. CASE t.name[2] = "external_resource_v6"
    BY <2>3, <2>4
  <2>5. CASE [dir |-> t.dir, stem |-> t.name[2]] \in Plan!NetworkStems
    <3>1. p \in Plan!NetworkFiles(data.networks[i])
      <4> DEFINE x == [dir |-> t.dir, stem |-> t.name[2]]
      <4>1. x \in Plan!NetworkStems /\ x.dir = t.dir /\ x.stem = t.name[2]
        BY <2>5
      <4>2. p = [dir |-> x.dir, name |-> <<data.networks[i].low, x.stem>>]
        BY <2>3, <4>1
      <4> HIDE DEF x
      <4> QED
        BY <4>1, <4>2 DEF Plan!NetworkFiles
    <3>2. p \in FilesOf(data.networks[i])
      BY <1>5, <3>1 DEF FilesOf
    <3> QED
      BY <1>6, <3>2
  <2> QED
    BY <2>2, <2>4, <2>5
<1> QED
  BY <1>4, <1>7, <1>8, <1>9

\* At its start all that is to be cleaned is gone or belongs to one on the list.
LEMMA BeginCleanKeeps ==
  ASSUME PlanInv, Plan!BeginClean
  PROVE  PlanInv'
<1> DEFINE plain == {Plan!Path(e) : e \in {x \in Plan!Entries : x.kind = "plain"}}
<1>1. /\ cmd' = [Plan!NoCommand EXCEPT !.op = "clean"] /\ planPc' \in {"clean", "failed"}
      /\ planTodo' = data.networks \o data.roles
      /\ Plan!Delete(plain) /\ UNCHANGED <<walk, data, rev>>
  BY DEF Plan!BeginClean
<1>2. /\ disk' \in [Plan!Trees -> [Plan!Paths -> Int]] /\ BaseInv'
      /\ \A p \in Plan!Paths : disk'["base"][p] = IF p \in plain THEN 0 ELSE disk["base"][p]
  BY <1>1, DeleteSome
<1>3. cmd'.op = "clean"
  BY <1>1 DEF Plan!NoCommand
<1>4. PlanTypes'
  <2>1. data \in Datas
    BY DEF PlanInv, PlanTypes
  <2>2. data.networks \in Seq(Things) /\ data.roles \in Seq(Things)
    BY <2>1, DataAssumption DEF Things
  <2>3. planTodo' \in Seq(Things)
    BY <1>1, <2>2
  <2> QED
    BY <1>1, <1>2, <1>3, <2>3, SameNames DEF PlanInv, PlanTypes
<1>5. RenderInv'
  BY <1>1, <1>3 DEF RenderInv
<1>6. CleanInv'
  <2> SUFFICES ASSUME NEW p \in Plan!Rendered, planPc' = "clean"
               PROVE  \/ disk'["base"][p] <= 0 \/ p.name[2] = "external_resource_v6"
                      \/ \E i \in DOMAIN planTodo' : p \in FilesOf(planTodo'[i])
    <3>1. Plan!Rendered' = Plan!Rendered
      BY <1>1, SameNames
    <3> QED
      BY <1>1, <3>1 DEF CleanInv, FilesOf, Plan!NetworkFiles, Plan!RoleFiles
  <2>1. p \in Plan!Paths
    BY MadePaths DEF PlanInv, Plan!Rendered
  <2>2. \/ p.name[2] = "external_resource_v6" \/ p \in plain
        \/ \E i \in DOMAIN (data.networks \o data.roles) : p \in FilesOf((data.networks \o data.roles)[i])
    BY OutputsListed DEF PlanInv
  <2>3. CASE p \in plain
    <3>1. disk'["base"][p] = 0
      BY <1>2, <2>1, <2>3
    <3> QED
      BY <3>1
  <2> QED
    BY <1>1, <2>2, <2>3
<1> QED
  BY <1>2, <1>4, <1>5, <1>6 DEF PlanInv

\* The files of one network or role are gone with it.
LEMMA CleanOneKeeps ==
  ASSUME PlanInv, Plan!CleanOne
  PROVE  PlanInv'
<1>1. planPc = "clean" /\ planTodo # <<>> /\ UNCHANGED <<walk, data, rev, cmd>>
  BY DEF Plan!CleanOne
<1>2. planTodo \in Seq(Things) /\ cmd.op = "clean"
  BY <1>1 DEF PlanInv, PlanTypes
<1>3. CASE planPc' = "failed" /\ UNCHANGED disk
  <2>1. PlanTypes'
    BY <1>1, <1>3, SameNames DEF PlanInv, PlanTypes
  <2>2. BaseInv'
    BY <1>1, <1>3, SameNames DEF PlanInv, BaseInv
  <2>3. RenderInv' /\ CleanInv'
    BY <1>3 DEF RenderInv, CleanInv
  <2> QED
    BY <2>1, <2>2, <2>3 DEF PlanInv
<1>4. CASE /\ planTodo' = Tail(planTodo) /\ planPc' = planPc
           /\ Plan!Delete(FilesOf(Head(planTodo)))
  <2>1. /\ disk' \in [Plan!Trees -> [Plan!Paths -> Int]] /\ BaseInv'
        /\ \A p \in Plan!Paths : disk'["base"][p] = IF p \in FilesOf(Head(planTodo)) THEN 0 ELSE disk["base"][p]
    BY <1>1, <1>4, DeleteSome
  <2>2. /\ Head(planTodo) = planTodo[1] /\ planTodo' \in Seq(Things)
        /\ \A i \in DOMAIN planTodo : i = 1 \/ (i - 1 \in DOMAIN planTodo' /\ planTodo'[i - 1] = planTodo[i])
    BY <1>1, <1>2, <1>4, SequenceParts
  <2>3. PlanTypes'
    BY <1>1, <1>2, <1>4, <2>1, <2>2, SameNames DEF PlanInv, PlanTypes
  <2>4. RenderInv'
    BY <1>1, <1>2, <1>4 DEF RenderInv
  <2>5. CleanInv'
    <3> SUFFICES ASSUME NEW p \in Plan!Rendered
                 PROVE  \/ disk'["base"][p] <= 0 \/ p.name[2] = "external_resource_v6"
                        \/ \E i \in DOMAIN planTodo' : p \in FilesOf(planTodo'[i])
      <4>1. Plan!Rendered' = Plan!Rendered /\ planPc' = "clean"
        BY <1>1, <1>4, SameNames
      <4> QED
        BY <4>1 DEF CleanInv, FilesOf, Plan!NetworkFiles, Plan!RoleFiles
    <3>1. p \in Plan!Paths
      BY MadePaths DEF PlanInv, Plan!Rendered
    <3>2. disk'["base"][p] = IF p \in FilesOf(Head(planTodo)) THEN 0 ELSE disk["base"][p]
      BY <2>1, <3>1
    <3>3. \/ disk["base"][p] <= 0 \/ p.name[2] = "external_resource_v6"
          \/ \E i \in DOMAIN planTodo : p \in FilesOf(planTodo[i])
      BY <1>1, <1>2 DEF PlanInv, CleanInv
    <3>4. CASE disk["base"][p] <= 0
      BY <3>2, <3>4
    <3>5. CASE \E i \in DOMAIN planTodo : p \in FilesOf(planTodo[i])
      <4>1. PICK i \in DOMAIN planTodo : p \in FilesOf(planTodo[i])
        BY <3>5
      <4>2. CASE i = 1
        BY <2>2, <3>2, <4>1, <4>2
      <4>3. CASE i # 1
        BY <2>2, <4>1, <4>3
      <4> QED
        BY <4>2, <4>3
    <3> QED
      BY <3>3, <3>4, <3>5
  <2> QED
    BY <2>1, <2>3, <2>4, <2>5 DEF PlanInv
<1>5. \/ planPc' = "failed" /\ UNCHANGED disk
      \/ planTodo' = Tail(planTodo) /\ planPc' = planPc /\ Plan!Delete(FilesOf(Head(planTodo)))
  BY DEF Plan!CleanOne, FilesOf
<1> QED
  BY <1>3, <1>4, <1>5

\* A command that is through has nothing left on its list; one that stops promises nothing.
LEMMA EndsKeep ==
  ASSUME PlanInv, Plan!Stop \/ Plan!Finish
  PROVE  PlanInv'
<1>1. UNCHANGED <<walk, data, rev, disk, cmd>>
  BY DEF Plan!Stop, Plan!Finish
<1>2. planPc' \in {"done", "failed"}
  BY DEF Plan!Stop, Plan!Finish
<1>3. PlanTypes'
  BY <1>1, <1>2, SameNames DEF PlanInv, PlanTypes
<1>4. BaseInv'
  BY <1>1, SameNames DEF PlanInv, BaseInv
<1>5. CASE planPc' = "failed"
  BY <1>3, <1>4, <1>5 DEF PlanInv, RenderInv, CleanInv
<1>6. CASE planPc' = "done"
  <2>1. planPc \in {"render", "clean"} /\ planTodo = <<>> /\ jobs = <<>>
    BY <1>6 DEF Plan!Stop, Plan!Finish
  <2>2. /\ planPc = "render" => cmd.op = "render"
        /\ planPc = "clean" => cmd.op = "clean"
    BY DEF PlanInv, PlanTypes, Plan!Commands
  <2>3. \A p : ~Pending(p)
    BY <2>1 DEF Pending
  <2>4. RenderInv'
    <3>1. Counts' = Counts /\ Plan!Wanted' = Plan!Wanted
      BY <1>1, SameNames DEF Counts
    <3> QED
      BY <1>1, <1>6, <2>1, <2>2, <2>3, <3>1 DEF PlanInv, RenderInv, Counts
  <2>5. CleanInv'
    <3>1. Plan!Rendered' = Plan!Rendered
      BY <1>1, SameNames
    <3>2. \A p : ~\E i \in DOMAIN planTodo : p \in FilesOf(planTodo[i])
      BY <2>1
    <3> QED
      BY <1>1, <1>6, <2>1, <2>2, <3>1, <3>2 DEF PlanInv, CleanInv
  <2> QED
    BY <1>3, <1>4, <2>4, <2>5 DEF PlanInv
<1> QED
  BY <1>2, <1>5, <1>6

(***************************************************************************)
(* The theorems about the rendering and cleaning                           *)
(***************************************************************************)
\* The invariant of the rendering and cleaning is one of the tools.
THEOREM PlanInvariance == Spec => []PlanInv
<1>1. Init => PlanInv
  <2> SUFFICES ASSUME Plan!Init PROVE PlanInv
    BY DEF Init
  <2>1. /\ walk \in Walks /\ data \in Datas /\ rev = 1 /\ planPc = "idle"
        /\ disk = [tree \in Plan!Trees |-> [p \in Plan!Paths |-> IF tree = "base" /\ p \in Sources THEN -1 ELSE 0]]
    BY DEF Plan!Init, Plan!Source, Plan!Nothing
  <2>2. PlanTypes
    BY <2>1 DEF PlanTypes
  <2>3. BaseInv
    <3> SUFFICES ASSUME NEW p \in Plan!Paths PROVE disk["base"][p] >= -1 /\ (disk["base"][p] = -1 => p \in Sources)
      BY DEF BaseInv, Plan!Source
    <3>1. disk["base"][p] = IF p \in Sources THEN -1 ELSE 0
      BY <2>1 DEF Plan!Trees
    <3> QED
      BY <3>1
  <2>4. RenderInv /\ CleanInv
    BY <2>1 DEF RenderInv, CleanInv
  <2> QED
    BY <2>2, <2>3, <2>4 DEF PlanInv
<1>2. PlanInv /\ [Next]_<<script, planVars, nicVars>> => PlanInv'
  <2> SUFFICES ASSUME PlanInv, RunPlan \/ UNCHANGED planVars PROVE PlanInv'
    BY DEF Next, RunNic
  <2>1. CASE UNCHANGED planVars
    BY <2>1, PlanIdles
  <2>2. CASE RunPlan
    <3>1. Plan!Next
      BY <2>2 DEF RunPlan
    <3> QED
      BY <3>1, PlanIdles, BeginRenderKeeps, NextEntryKeeps, VisitKeeps, BeginCleanKeeps, CleanOneKeeps, EndsKeep
         DEF Plan!Next
  <2> QED
    BY <2>1, <2>2
<1> QED
  BY <1>1, <1>2, PTL DEF Spec

\* For any tree, order of the walk, roles and networks: a rendering with exit status 0 has every
\* output from the data of the run, whatever commands and data there were before.
THEOREM RendersCurrent == Spec => []RenderedIsCurrent
<1>1. PlanInv => RenderedIsCurrent
  <2> SUFFICES ASSUME PlanInv, planPc = "done", cmd.op = "render", ~cmd.dry,
                      cmd.tree = "out" => \A p \in DOMAIN disk["base"] : disk["base"][p] <= 0
               PROVE  \A p \in Plan!Wanted : p \in Sources \/ disk[cmd.tree][p] = rev
    BY DEF RenderedIsCurrent, Plan!RenderedIsCurrent, Plan!Succeeded
  <2>1. DOMAIN disk["base"] = Plan!Paths
    BY DEF PlanInv, PlanTypes, Plan!Trees
  <2>2. Counts
    BY <2>1 DEF Counts
  <2>3. \A p : ~Pending(p)
    BY DEF Pending
  <2> QED
    BY <2>2, <2>3 DEF PlanInv, RenderInv
<1> QED
  BY <1>1, PlanInvariance, PTL

\* Whatever was rendered before: a cleaning with exit status 0 leaves nothing of what the data's
\* roles and networks are rendered to, but for what its list lacks.
THEOREM CleansRendered == Spec => []CleanRemoves
<1>1. PlanInv => CleanRemoves
  BY DEF PlanInv, CleanInv, CleanRemoves, Plan!CleanRemoves, Plan!Succeeded
<1> QED
  BY <1>1, PlanInvariance, PTL

\* In safe mode no step overwrites a file with a rendered one.
LEMMA SafeStep ==
  ASSUME PlanInv, Plan!Next, planPc = "render", cmd.safe, jobs # <<>>, Head(jobs).kind # "file",
         NEW p \in DOMAIN disk[cmd.tree], Plan!Present(p)
  PROVE  disk'[cmd.tree][p] = disk[cmd.tree][p]
<1>1. CASE Plan!Visit
  <2>1. /\ cmd.tree \in Plan!Trees /\ Head(jobs).path \in Plan!Paths
        /\ \/ UNCHANGED disk
           \/ ~Plan!Present(Head(jobs).path) /\ Plan!Put(Head(jobs).path, rev)
    BY <1>1, VisitWrites
  <2>2. disk \in [Plan!Trees -> [Plan!Paths -> Int]] /\ rev \in Int
    BY DEF PlanInv, PlanTypes
  <2>3. p \in Plan!Paths
    BY <2>1, <2>2
  <2>4. CASE ~Plan!Present(Head(jobs).path) /\ Plan!Put(Head(jobs).path, rev)
    <3>1. p # Head(jobs).path
      BY <2>4
    <3>2. \A tree \in Plan!Trees : \A q \in Plan!Paths :
            tree # cmd.tree \/ q # Head(jobs).path => disk'[tree][q] = disk[tree][q]
      BY <2>1, <2>2, <2>4, PutOne DEF PlanInv
    <3> QED
      BY <2>1, <2>3, <3>1, <3>2
  <2> QED
    BY <2>1, <2>4
<1>2. CASE Plan!Stop
  BY <1>2 DEF Plan!Stop
<1> QED
  BY <1>1, <1>2 DEF Plan!Next, Plan!Reconfigure, Plan!BeginRender, Plan!NextEntry, Plan!BeginClean, Plan!CleanOne,
     Plan!Finish

\* No step overwrites or deletes a source file, but for cleaning what is excluded.
LEMMA SourceStep ==
  ASSUME PlanInv, Plan!Next, NEW p \in Sources, disk["base"][p] = Plan!Source
  PROVE  disk'["base"][p] = Plan!Source \/ (cmd'.op = "clean" /\ p \in data.excluded)
<1>1. /\ walk \in Walks /\ data \in Datas
      /\ disk \in [Plan!Trees -> [Plan!Paths -> Int]] /\ rev \in Int
  BY DEF PlanInv, PlanTypes
<1>2. p \in Plan!Paths
  BY <1>1, SourceAssumption DEF Plan!Paths, Plan!Entries
<1>3. \A j \in Plan!AllJobs(data, walk) : j.path \in Sources => j.kind # "plain" /\ j.path \in data.excluded
  BY <1>1, SourceAssumption
<1>4. CASE Plan!Visit
  <2> DEFINE j == Head(jobs)
  <2>1. /\ cmd.tree \in Plan!Trees /\ j \in Made /\ j.path \in Plan!Paths
        /\ disk["base"][j.path] \in Int
        /\ \/ UNCHANGED disk
           \/ cmd.tree = "out" /\ Plan!Put(j.path, disk["base"][j.path])
           \/ j.kind # "file" /\ ~Plan!Skipped(j) /\ Plan!Put(j.path, rev)
    BY <1>1, <1>4, VisitWrites DEF Plan!Trees
  <2>2. CASE UNCHANGED disk
    BY <2>2
  <2>3. CASE cmd.tree = "out" /\ Plan!Put(j.path, disk["base"][j.path])
    <3>1. \A tree \in Plan!Trees : \A q \in Plan!Paths : tree # cmd.tree \/ q # j.path => disk'[tree][q] = disk[tree][q]
      BY <2>1, <2>3, PutOne DEF PlanInv
    <3> QED
      BY <1>2, <2>3, <3>1 DEF Plan!Trees
  <2>4. CASE j.kind # "file" /\ ~Plan!Skipped(j) /\ Plan!Put(j.path, rev)
    <3>1. \A tree \in Plan!Trees : \A q \in Plan!Paths : tree # cmd.tree \/ q # j.path => disk'[tree][q] = disk[tree][q]
      BY <1>1, <2>1, <2>4, PutOne DEF PlanInv
    <3>2. CASE cmd.tree # "base"
      BY <1>2, <3>1, <3>2 DEF Plan!Trees
    <3>3. CASE p # j.path
      BY <1>2, <3>1, <3>3 DEF Plan!Trees
    <3>4. CASE cmd.tree = "base" /\ p = j.path
      <4>1. j \in Plan!AllJobs(data, walk)
        BY <2>1, <2>4, MadePaths DEF PlanInv
      <4>2. j.kind \in {"role", "network", "disabled"} /\ j.path \in data.excluded
        <5>1. PICK t \in Plan!ToSet(walk) : Plan!IsTemplate(t) /\ j \in Plan!ToSet(Plan!Jobs(data, t))
          BY <4>1 DEF Plan!AllJobs
        <5>2. j.kind \in {"file", "plain", "role", "network", "disabled"}
          BY <1>1, <5>1, JobsOf
        <5>3. j.kind # "plain" /\ j.path \in data.excluded
          BY <1>3, <3>4, <4>1
        <5> QED
          BY <2>4, <5>2, <5>3
      <4>3. Plan!Skipped(j)
        BY <3>4, <4>2 DEF Plan!Skipped
      <4> QED
        BY <2>4, <4>3
    <3> QED
      BY <3>2, <3>3, <3>4
  <2> QED
    BY <2>1, <2>2, <2>3, <2>4
<1>5. CASE Plan!BeginClean
  <2> DEFINE plain == {Plan!Path(e) : e \in {x \in Plan!Entries : x.kind = "plain"}}
  <2>1. Plan!Delete(plain) /\ UNCHANGED <<walk, data>>
    BY <1>5 DEF Plan!BeginClean
  <2>2. disk'["base"][p] = IF p \in plain THEN 0 ELSE disk["base"][p]
    BY <1>2, <2>1, DeleteSome
  <2>3. p \notin plain
    <3> SUFFICES ASSUME NEW t \in Plan!Entries, t.kind = "plain", p = Plan!Path(t) PROVE FALSE
      OBVIOUS
    <3>1. PICK j \in Plan!AllJobs(data, walk) : j.kind = "plain" /\ j.path = p
      BY MadePaths DEF PlanInv
    <3> QED
      BY <1>3, <3>1
  <2> QED
    BY <2>2, <2>3
<1>6. CASE Plan!CleanOne
  <2>1. /\ planPc = "clean" /\ planTodo # <<>> /\ UNCHANGED <<walk, data, cmd>>
        /\ UNCHANGED disk \/ Plan!Delete(FilesOf(Head(planTodo)))
    BY <1>6 DEF Plan!CleanOne, FilesOf
  <2>2. cmd.op = "clean" /\ planTodo \in Seq(Things)
    BY <2>1 DEF PlanInv, PlanTypes
  <2>3. Head(planTodo) \in Things
    BY <2>1, <2>2, SequenceParts
  <2>4. CASE UNCHANGED disk
    BY <2>4
  <2>5. CASE Plan!Delete(FilesOf(Head(planTodo)))
    <3>1. disk'["base"][p] = IF p \in FilesOf(Head(planTodo)) THEN 0 ELSE disk["base"][p]
      BY <1>2, <2>1, <2>5, DeleteSome
    <3>2. \A x \in Things : FilesOf(x) \cap Sources \subseteq data.excluded
      <4> TAKE x \in Things
      <4>1. CASE x \in Plan!ToSet(data.networks)
        <5>1. PICK i \in DOMAIN data.networks : x = data.networks[i]
          BY <4>1 DEF Plan!ToSet
        <5>2. x.of = "network" /\ Plan!NetworkFiles(x) \cap Sources \subseteq data.excluded
          BY <1>1, <5>1, DataAssumption, SourceAssumption
        <5> QED
          BY <5>2 DEF FilesOf
      <4>2. CASE x \in Plan!ToSet(data.roles)
        <5>1. PICK i \in DOMAIN data.roles : x = data.roles[i]
          BY <4>2 DEF Plan!ToSet
        <5>2. x.of = "role" /\ Plan!RoleFiles(x) \cap Sources \subseteq data.excluded
          BY <1>1, <5>1, DataAssumption, SourceAssumption
        <5> QED
          BY <5>2 DEF FilesOf
      <4> QED
        BY <4>1, <4>2 DEF Things
    <3> QED
      BY <2>1, <2>2, <2>3, <3>1, <3>2
  <2> QED
    BY <2>1, <2>4, <2>5
<1> QED
  BY <1>4, <1>5, <1>6 DEF Plan!Next, Plan!Reconfigure, Plan!BeginRender, Plan!NextEntry, Plan!Stop, Plan!Finish

\* For any sequence of commands: safe mode overwrites nothing with a rendered file, and source
\* files stay, but for what cleaning deletes although it is excluded from the rendering.
THEOREM Protects == Spec => Protected
<1>1. PlanInv /\ [Next]_<<script, planVars, nicVars>> =>
        [planPc = "render" /\ cmd.safe /\ jobs # <<>> /\ Head(jobs).kind # "file" =>
           \A p \in DOMAIN disk[cmd.tree] : Plan!Present(p) => disk'[cmd.tree][p] = disk[cmd.tree][p]]_Plan!rvars
  <2> SUFFICES ASSUME PlanInv, [Next]_<<script, planVars, nicVars>>, ~UNCHANGED Plan!rvars,
                      planPc = "render", cmd.safe, jobs # <<>>, Head(jobs).kind # "file",
                      NEW p \in DOMAIN disk[cmd.tree], Plan!Present(p)
               PROVE  disk'[cmd.tree][p] = disk[cmd.tree][p]
    OBVIOUS
  <2>1. Plan!Next
    BY DEF Next, RunPlan, RunNic, planVars, Plan!rvars
  <2> QED
    BY <2>1, SafeStep
<1>2. PlanInv /\ [Next]_<<script, planVars, nicVars>> =>
        [\A p \in Sources : disk["base"][p] = Plan!Source =>
           disk'["base"][p] = Plan!Source \/ (cmd'.op = "clean" /\ p \in data.excluded)]_Plan!rvars
  <2> SUFFICES ASSUME PlanInv, [Next]_<<script, planVars, nicVars>>, ~UNCHANGED Plan!rvars,
                      NEW p \in Sources, disk["base"][p] = Plan!Source
               PROVE  disk'["base"][p] = Plan!Source \/ (cmd'.op = "clean" /\ p \in data.excluded)
    OBVIOUS
  <2>1. Plan!Next
    BY DEF Next, RunPlan, RunNic, planVars, Plan!rvars
  <2> QED
    BY <2>1, SourceStep
<1>3. Spec => Plan!SafeKeeps
  BY <1>1, PlanInvariance, PTL DEF Spec, Plan!SafeKeeps
<1>4. Spec => Plan!SourcesKept
  BY <1>2, PlanInvariance, PTL DEF Spec, Plan!SourcesKept
<1> QED
  BY <1>3, <1>4 DEF Protected, Plan!Protected
=============================================================================
