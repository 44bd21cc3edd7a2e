---------------------------- MODULE NicConfigTools ---------------------------
(***************************************************************************)
(* The two tools that rewrite an operator's NIC configuration in place:    *)
(* tools/yaml-nic-config-2-script.py converts the old style, and           *)
(* tools/merge-new-params-nic-config-script.py adds new parameters.  Both  *)
(* save the file, turn its comments into keys so that a load and a dump    *)
(* keep them, rewrite it, and turn the keys into comments again.  A run    *)
(* may raise or be killed between any two steps, or in a write; the        *)
(* operator then runs one of the tools again.                              *)
(***************************************************************************)
EXTENDS FiniteSets, Naturals

CONSTANTS
  Files,
  Params, Reference,  \* parameters, and those of the reference template
  Originals,          \* Originals[f]: what f may contain at first
  MaxTime, MaxKills   \* bounds: seconds, which the names of the backups tell apart; kills

(***************************************************************************)
(* A file: torn, that is empty or cut where it is no mapping of YAML, or   *)
(* the style of its network resource; whether there are                    *)
(* other resources; the sections it has; get_input; its                    *)
(* parameters; whether its comments as keys are no YAML (quotes, inline    *)
(* comments after a value); and per site the state of the comments there:  *)
(*   "head"   in column 0                                                  *)
(*   "among"  above the first resource                                     *)
(*   "plain"  indented, such that a dump writes it in quotes on a line     *)
(*   "odd"    indented, such that it does not ("#text", long lines)        *)
(* "key" is a comment as a key that this script wrote, "dumped" one that   *)
(* YAML wrote.                                                             *)
(***************************************************************************)
Sites == {"head", "among", "plain", "odd"}
States == {"none", "comment", "key", "dumped"}
Sections == {"parameters", "outputs"}
Content ==
  [torn : BOOLEAN, style : {"old", "new"}, other : BOOLEAN, sections : SUBSET Sections, inputs : BOOLEAN,
   params : SUBSET Params, fragile : BOOLEAN, comments : [Sites -> States]]
Torn ==
  [torn |-> TRUE, style |-> "new", other |-> FALSE, sections |-> {}, inputs |-> FALSE,
   params |-> {}, fragile |-> FALSE, comments |-> [s \in Sites |-> "none"]]

\* The parts of a file, in the order of the templates and of what a conversion writes.
Order ==
  [head |-> 1, parameters |-> 2, among |-> 3, resource |-> 4, plain |-> 5, odd |-> 6, others |-> 7, outputs |-> 8]

\* The first n of them.
Beginning(c, n) ==
  [c EXCEPT !.style = IF Order.resource <= n THEN @ ELSE "new",
            !.other = @ /\ Order.others <= n,
            !.sections = {s \in @ : Order[s] <= n},
            !.params = IF Order.parameters <= n THEN @ ELSE {},
            !.comments = [s \in Sites |-> IF Order[s] <= n THEN @[s] ELSE "none"]]

\* What a kill leaves of content c while it is being written: what is no YAML, the first
\* parts, or of the parameters, too, only some.
Cuts(c) ==
  {Torn} \cup {Beginning(c, n) : n \in 0 .. Order.outputs}
  \cup {[Beginning(c, Order.parameters) EXCEPT !.params = P] : P \in SUBSET c.params \ {{}}}

VARIABLES
  file, original,  \* the files, and what they were (history)
  backups,         \* of a file, at a second
  clock,
  tool, pc,        \* "convert", "merge" or none; its next step
  at, todo, stamp, \* file at work, files to follow, second in the name of the backup
  discard,         \* --discard-comments
  converted,       \* num_converted
  kills,           \* their number, and the files that were cut in a write (history)
  merged           \* file and backup of the last run, if that was a merge that kept the comments (history)

nvars == <<kills, file, original, backups, clock, tool, pc, at, todo, stamp, discard, converted, merged>>
run == <<tool, at, todo, stamp, discard, converted, merged, kills>>

None == "none"
NoMerge == [of |-> None, second |-> 0]

Init ==
  /\ original \in [Files -> UNION {Originals[f] : f \in Files}] /\ (\A f \in Files : original[f] \in Originals[f])
  /\ file = original /\ kills = [count |-> 0, cut |-> {}]
  /\ backups = {} /\ clock = 0
  /\ tool = None /\ pc = "idle" /\ at = None /\ todo = {} /\ stamp = 0 /\ discard = FALSE
  /\ converted = 0 /\ merged = NoMerge

Tick ==
  /\ clock < MaxTime
  /\ clock' = clock + 1
  /\ UNCHANGED <<file, original, backups, pc, run>>

Key(c, s) == c.comments[s] \in {"key", "dumped"}
Loads(c) == ~(c.fragile /\ \E s \in Sites : c.comments[s] = "key")

\* The run ends, because it is through, or because something raises.
End ==
  /\ pc' = "idle" /\ tool' = None /\ at' = None /\ todo' = {} /\ stamp' = 0 /\ discard' = FALSE
  /\ UNCHANGED converted

\* The next file of a conversion.
NextFile ==
  \/ todo = {} /\ End
  \/ /\ \E f \in todo : at' = f /\ todo' = todo \ {f}
     /\ pc' = "style"
     /\ UNCHANGED <<tool, stamp, discard, converted>>

(***************************************************************************)
(* yaml-nic-config-2-script.py                                             *)
(***************************************************************************)
BeginConvert ==
  /\ pc = "idle"
  /\ \E F \in SUBSET Files : \E f \in F : at' = f /\ todo' = F \ {f}
  /\ tool' = "convert" /\ pc' = "style" /\ converted' = 0 /\ merged' = NoMerge
  /\ UNCHANGED <<file, original, backups, clock, stamp, discard, kills>>

\* check_old_style, which raises on a file without content, and on a string among the resources.
Unreadable(c) == c.torn \/ ~Loads(c) \/ Key(c, "among")

\* An old style file is worked on if the script is found and the operator agrees.
CheckStyle ==
  /\ pc = "style"
  /\ \/ Unreadable(file[at]) /\ End
     \/ ~Unreadable(file[at]) /\ file[at].style = "new" /\ NextFile
     \/ /\ ~Unreadable(file[at]) /\ file[at].style = "old"
        /\ \/ pc' = "backup" /\ stamp' = clock /\ UNCHANGED <<tool, at, todo, discard, converted>>
           \/ End       \* no run-os-net-config.sh
           \/ NextFile  \* not to be overwritten
  /\ UNCHANGED <<file, original, backups, clock, merged, kills>>

Convertible(c) == Loads(c) /\ ~Key(c, "among") /\ ~c.other /\ c.sections = Sections

\* Nothing of column 0 is kept but the sections.
Converted(c) ==
  [c EXCEPT !.style = "new",
            !.comments = [s \in Sites |-> IF s = "head" THEN "none" ELSE IF @[s] = "key" THEN "dumped" ELSE @[s]]]

\* MUTANT of Convert: parameters are left out of the result.
ConvertDropping ==
  /\ pc = "convert"
  /\ LET c == file[at] IN
       \/ /\ Convertible(c)
          /\ file' = [file EXCEPT ![at] = [Converted(@) EXCEPT !.params = {}]]
          /\ converted' = converted + 1 /\ pc' = "normal"
          /\ UNCHANGED <<tool, at, todo, stamp, discard>>
       \/ ~Loads(c) /\ pc' = "normal" /\ UNCHANGED <<file, tool, at, todo, stamp, discard, converted>>
  /\ UNCHANGED <<original, backups, clock, merged, kills>>

\* convert.  A comment among the resources, or a missing section, makes it raise; a
\* resource of another kind makes it give up.
Convert ==
  /\ pc = "convert"
  /\ LET c == file[at] IN
       \/ /\ Convertible(c)
          /\ file' = [file EXCEPT ![at] = Converted(@)]
          /\ converted' = converted + 1 /\ pc' = "normal"
          /\ UNCHANGED <<tool, at, todo, stamp, discard>>
       \/ /\ ~Loads(c) \/ (~Key(c, "among") /\ c.other)
          /\ pc' = "normal"
          /\ UNCHANGED <<file, tool, at, todo, stamp, discard, converted>>
       \/ /\ Loads(c) /\ (Key(c, "among") \/ (~c.other /\ c.sections # Sections))
          /\ End
          /\ UNCHANGED file
  /\ UNCHANGED <<original, backups, clock, merged, kills>>

(***************************************************************************)
(* merge-new-params-nic-config-script.py                                   *)
(***************************************************************************)
BeginMerge ==
  /\ pc = "idle"
  /\ at' \in Files /\ discard' \in BOOLEAN
  /\ tool' = "merge" /\ pc' = "backup" /\ stamp' = clock /\ merged' = NoMerge
  /\ UNCHANGED <<file, original, backups, clock, todo, converted, kills>>

\* process_templates_and_get_reference_parameters: the rendering may fail, and the role may
\* be missing.
GetReference ==
  /\ pc = "reference"
  /\ \/ pc' = "merge" /\ UNCHANGED <<tool, at, todo, stamp, discard, converted>>
     \/ End
  /\ UNCHANGED <<file, original, backups, clock, merged, kills>>

Mergeable(c) == ~c.torn /\ Loads(c) /\ "parameters" \in c.sections

\* MUTANT of Extended: also what is a key is lost.
ExtendedBare(c) ==
  [c EXCEPT !.params = @ \cup Reference, !.comments = [s \in Sites |-> "none"]]

\* What is no key by now is lost with the load.
Extended(c) ==
  [c EXCEPT !.params = @ \cup Reference,
            !.comments = [s \in Sites |-> IF Key(c, s) THEN "dumped" ELSE "none"]]

\* merge_from_processed
Merge ==
  /\ pc = "merge"
  /\ \/ /\ Mergeable(file[at])
        /\ file' = [file EXCEPT ![at] = Extended(@)]
        /\ IF discard THEN End ELSE pc' = "normal" /\ UNCHANGED <<tool, at, todo, stamp, discard, converted>>
     \/ /\ ~Mergeable(file[at])
        /\ End
        /\ UNCHANGED file
  /\ UNCHANGED <<original, backups, clock, merged, kills>>

(***************************************************************************)
(* What the tools share: copies of the same functions                      *)
(***************************************************************************)
Backup(f, c) == [of |-> f, second |-> stamp, content |-> c]
Taken == \E b \in backups : b.of = at /\ b.second = stamp

\* MUTANT of SaveOriginal: only what still is in the old style is saved.
SaveOldStyle ==
  /\ pc = "backup"
  /\ backups' = IF file[at].style = "old" THEN backups \cup {Backup(at, file[at])} ELSE backups
  /\ pc' = IF discard THEN "reference" ELSE "comment"
  /\ UNCHANGED <<file, original, clock, run>>

\* A second run in the same second is refused the name: the merge raises, the conversion skips.
SaveOriginal ==
  /\ pc = "backup"
  /\ \/ /\ ~Taken
        /\ backups' = backups \cup {Backup(at, file[at])}
        /\ pc' = IF discard THEN "reference" ELSE "comment"
        /\ UNCHANGED <<tool, at, todo, stamp, discard, converted>>
     \/ /\ Taken
        /\ IF tool = "merge" THEN End ELSE NextFile
        /\ UNCHANGED backups
  /\ UNCHANGED <<file, original, clock, merged, kills>>

Commented(c) == [c EXCEPT !.comments = [s \in Sites |-> IF @[s] = "comment" THEN "key" ELSE @[s]]]

ToCommented ==
  /\ pc = "comment"
  /\ file' = [file EXCEPT ![at] = Commented(@)]
  /\ pc' = IF tool = "merge" THEN "reference" ELSE "convert"
  /\ UNCHANGED <<original, backups, clock, run>>

\* What the key of a comment is turned into: the expression wants a space before the key, and
\* the text in quotes on the same line.
Restored(s, state) ==
  IF s # "head" /\ (state = "key" \/ (state = "dumped" /\ s # "odd")) THEN "comment" ELSE state

Normal(c) == [c EXCEPT !.comments = [s \in Sites |-> Restored(s, @[s])], !.inputs = FALSE]

\* MUTANT of ToNormal: only what the script has written itself is recognised.
ToNormalOwn ==
  /\ pc = "normal"
  /\ file' = [file EXCEPT ![at].comments = [s \in Sites |-> IF @[s] = "key" THEN "comment" ELSE @[s]],
                          ![at].inputs = FALSE]
  /\ IF tool = "merge" THEN End /\ merged' = [of |-> at, second |-> stamp] ELSE NextFile /\ UNCHANGED merged
  /\ UNCHANGED <<original, backups, clock, kills>>

ToNormal ==
  /\ pc = "normal"
  /\ file' = [file EXCEPT ![at] = Normal(@)]
  /\ IF tool = "merge" THEN End /\ merged' = [of |-> at, second |-> stamp] ELSE NextFile /\ UNCHANGED merged
  /\ UNCHANGED <<original, backups, clock, kills>>

(***************************************************************************)
(* A kill                                                                  *)
(***************************************************************************)
\* What the next step would write into the file at work, if it writes.
Written(c) ==
  CASE pc = "comment" -> {Commented(c)}
    [] pc = "convert" /\ Convertible(c) -> {Converted(c)}
    [] pc = "merge" /\ Mergeable(c) -> {Extended(c)}
    [] pc = "normal" -> {Normal(c)}
    [] OTHER -> {}

\* The file is opened, which empties it, and what is dumped into it arrives in pieces; a
\* backup that is not complete is never read, and counts as torn.
Kill ==
  /\ pc # "idle" /\ kills.count < MaxKills
  /\ \/ UNCHANGED <<file, backups>> /\ kills' = [kills EXCEPT !.count = @ + 1]
     \/ /\ \E c \in UNION {Cuts(w) : w \in Written(file[at])} : file' = [file EXCEPT ![at] = c]
        /\ kills' = [count |-> kills.count + 1, cut |-> kills.cut \cup {at}]
        /\ UNCHANGED backups
     \/ /\ pc = "backup" /\ ~Taken
        /\ backups' = backups \cup {Backup(at, Torn)}
        /\ kills' = [kills EXCEPT !.count = @ + 1]
        /\ UNCHANGED file
  /\ End
  /\ UNCHANGED <<original, clock, merged>>

Next ==
  \/ Tick \/ BeginConvert \/ CheckStyle \/ Convert
  \/ BeginMerge \/ GetReference \/ Merge
  \/ SaveOriginal \/ ToCommented \/ ToNormal \/ Kill

Spec == Init /\ [][Next]_nvars

(***************************************************************************)
(* Properties                                                              *)
(***************************************************************************)

\* What the operator's file was is in the file or in one of its backups, wherever runs of
\* either tool were killed, and although two runs in a second would use the same name.
OriginalSaved ==
  \A f \in Files :
    file[f] = original[f] \/ \E b \in backups : b.of = f /\ b.content = original[f]

\* A parameter that the operator has defined is lost only where a kill has cut the file in a
\* write, and then the file had been saved with all of them, in this run or an earlier one.
ParametersKept ==
  \A f \in Files :
    \/ original[f].params \subseteq file[f].params
    \/ /\ f \in kills.cut
       /\ \E b \in backups : b.of = f /\ original[f].params \subseteq b.content.params

\* A merge that goes through leaves the parameters that it found, as its own backup has them,
\* and the new ones; and what it found of the comments that a dump writes in quotes, which a
\* killed run of either tool may have left as keys, is there and is a comment again.
MergeRepairs ==
  merged.of # None =>
    \E b \in backups :
      /\ b.of = merged.of /\ b.second = merged.second
      /\ b.content.params \cup Reference \subseteq file[merged.of].params
      /\ \A s \in {"among", "plain"} :
           b.content.comments[s] # "none" => file[merged.of].comments[s] = "comment"
=============================================================================
