---------------------------- MODULE ServiceConfigs ---------------------------
(***************************************************************************)
(* docker/container-puppet.py, before its processes: the entries of        *)
(* container-puppet.json, one per service, are merged into one             *)
(* configuration per config_volume, and each becomes the arguments of a    *)
(* run of puppet.  The puppet tags of an entry are the sequence that       *)
(* commas separate: an empty text is <<"">>, and a text formatted out of   *)
(* None begins with "None".  Manifests and volumes that are joined are the *)
(* sequence of the entries they are taken from.  An entry is a map or a    *)
(* list; a list may have no volumes, or be too short to be read at all.    *)
(***************************************************************************)
EXTENDS Naturals, Sequences, SequencesExt

CONSTANTS
  ServiceLists,   \* what container-puppet.json may say
  ConfigVolumes   \* what $CONFIG_VOLUME may be, "" if it is not set

Null == <<>>    \* null, or a key that the entry does not have
Service ==
  [volume : STRING, tags : Seq(STRING), manifest : STRING, image : STRING, privileged : BOOLEAN,
   volumes : {"absent", "short", "null", "empty", "some"}]   \* absent, short: of a list
                                                             \* of four elements, of fewer

ASSUME ServiceAssumption ==
  \A list \in ServiceLists :
    list \in Seq(ToSet(list)) /\ \A i \in DOMAIN list : list[i] # Null => list[i] \in Service

VARIABLES
  services,   \* the entries
  only,       \* $CONFIG_VOLUME
  taken,      \* how many of the entries the loop has been through
  configs,    \* configs
  died,       \* whether the first loop has ended with a traceback
  mapped,     \* whether the second loop has run
  arguments   \* process_map: what the process of each volume is given

mergeVars == <<services, only, taken, configs, died, mapped, arguments>>

Given(text) == text \notin {Null, <<"">>}
Format(text) == IF text = Null THEN <<"None">> ELSE text

TooShort(i) == services[i] # Null /\ services[i].volumes = "short"

\* No manifest or no image, and there is nothing to configure.
Accepted(i) == services[i] # Null /\ services[i].manifest # "" /\ services[i].image # ""

\* $CONFIG_VOLUME only keeps volumes from being added.
Wanted(volume) == only = "" \/ only = volume

Mounts(i) == services[i].volumes = "some"

First(i) ==
  [tags |-> services[i].tags, manifest |-> <<i>>, image |-> services[i].image,
   volumes |-> IF Mounts(i) THEN <<i>> ELSE <<>>, privileged |-> services[i].privileged]

\* MUTANT of Joined: what is appended replaces the volumes.
JoinedVolumes(config, i) ==
  [config EXCEPT
     !.tags = IF Given(services[i].tags) THEN Format(@) \o services[i].tags ELSE @,
     !.manifest = Append(@, i), !.volumes = IF Mounts(i) THEN <<i>> ELSE @]

\* A service of a volume that is configured already.  Its image is only compared, for a
\* warning; its privileges are not looked at.
Joined(config, i) ==
  [config EXCEPT
     !.tags = IF Given(services[i].tags) THEN Format(@) \o services[i].tags ELSE @,
     !.manifest = Append(@, i), !.volumes = IF Mounts(i) THEN Append(@, i) ELSE @]

\* A configuration is the first entry itself: without a list there is nothing to extend.
Extendable(config) == services[config.manifest[1]].volumes \notin {"absent", "null"}

Extends(i) == Mounts(i) => Extendable(configs[services[i].volume])

(***************************************************************************)
(* The loops                                                               *)
(***************************************************************************)
MergeInit ==
  /\ services \in ServiceLists /\ only \in ConfigVolumes
  /\ taken = 0 /\ configs = <<>> /\ died = FALSE /\ mapped = FALSE /\ arguments = <<>>

Take ==
  /\ ~died /\ taken < Len(services) /\ ~TooShort(taken + 1) /\ taken' = taken + 1
  /\ UNCHANGED <<services, only, died, mapped, arguments>>

Skip ==
  /\ Take /\ UNCHANGED configs
  /\ Accepted(taken') => services[taken'].volume \notin DOMAIN configs /\ ~Wanted(services[taken'].volume)

Add ==
  /\ Take /\ Accepted(taken')
  /\ LET new == services[taken'].volume IN
     /\ new \notin DOMAIN configs /\ Wanted(new)
     /\ configs' = [v \in DOMAIN configs \cup {new} |-> IF v = new THEN First(taken') ELSE configs[v]]

Join ==
  /\ Take /\ Accepted(taken')
  /\ services[taken'].volume \in DOMAIN configs /\ Extends(taken')
  /\ configs' = [configs EXCEPT ![services[taken'].volume] = Joined(@, taken')]

\* IndexError, or extend of None: there is nothing yet to be left half done.
Die ==
  /\ ~died /\ taken < Len(services) /\ died' = TRUE
  /\ \/ TooShort(taken + 1)
     \/ /\ Accepted(taken + 1) /\ services[taken + 1].volume \in DOMAIN configs
        /\ ~Extends(taken + 1)
  /\ UNCHANGED <<services, only, taken, configs, mapped, arguments>>

DefaultTags == <<"file", "file_line", "concat", "augeas", "cron">>

WithDefaults(config) == [config EXCEPT !.tags = IF Given(@) THEN DefaultTags \o @ ELSE DefaultTags]

MapProcesses ==
  /\ ~died /\ taken = Len(services) /\ ~mapped /\ mapped' = TRUE
  /\ arguments' = [v \in DOMAIN configs |-> WithDefaults(configs[v])]
  /\ UNCHANGED <<services, only, taken, configs, died>>

MergeNext == Skip \/ Add \/ Join \/ Die \/ MapProcesses

MergeSpec == MergeInit /\ [][MergeNext]_mergeVars

(***************************************************************************)
(* Properties                                                              *)
(***************************************************************************)
\* The entries so far that volume v is configured from.
Own(v) == {i \in 1..taken : Accepted(i) /\ services[i].volume = v}

Mounting(v) == {i \in Own(v) : Mounts(i)}

InOrder(list, S) == ToSet(list) = S /\ \A j, k \in DOMAIN list : j < k => list[j] < list[k]

\* A volume is configured exactly if it is wanted and some service of it has a manifest and an
\* image, and then with the manifests and the volumes of all of them, in their order, whatever
\* stands between them in the file.
AllConfigured ==
  /\ DOMAIN arguments = {v \in {services[i].volume : i \in {j \in 1..taken : Accepted(j)}} : Wanted(v)}
  /\ \A v \in DOMAIN arguments :
       /\ InOrder(arguments[v].manifest, Own(v)) /\ InOrder(arguments[v].volumes, Mounting(v))
       /\ LET first == services[arguments[v].manifest[1]]
          IN  arguments[v].image = first.image /\ arguments[v].privileged = first.privileged

\* The puppet tags are the default ones and those of every service of the volume: no other
\* that puppet would take for a resource type but the "None" and the empty tag that joining to
\* a first service without tags leaves.
TagsAreTheirs ==
  \A v \in DOMAIN arguments :
    LET theirs == UNION {ToSet(services[i].tags) : i \in Own(v)}
        first == services[arguments[v].manifest[1]]
        tags == ToSet(arguments[v].tags)
    IN  /\ ToSet(DefaultTags) \cup (theirs \ {""}) \subseteq tags
        /\ tags \subseteq ToSet(DefaultTags) \cup theirs \cup (IF first.tags = Null THEN {"None"} ELSE {})

\* The script dies of an entry that is too short, or of one with volumes behind one of the
\* same config_volume that has no list of them.
DiesOfAnEntry ==
  \E n \in DOMAIN services :
    \/ TooShort(n)
    \/ /\ Accepted(n) /\ Mounts(n)
       /\ \E i \in 1..n :
            /\ Accepted(i) /\ services[i].volume = services[n].volume
            /\ services[i].volumes \in {"absent", "null"}

\* container-puppet.py merges the services of a volume completely, and gives puppet the
\* tags of all of them; it gives up on the whole file only for an entry as above.
ServicesMerged ==
  /\ mapped => taken = Len(services) /\ AllConfigured /\ TagsAreTheirs
  /\ died => ~mapped /\ DiesOfAnEntry
=============================================================================
