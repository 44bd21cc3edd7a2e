-------------------------- MODULE ConfigGeneration -------------------------
(***************************************************************************)
(* What a run of container-puppet.py promises to the playbook that calls   *)
(* it, and no more: the configuration of a volume is good when it is that  *)
(* of the parameters in force and its checksum says so; volumes become     *)
(* good (and stop being so, while they are rewritten) one at a time and in *)
(* any order; the run ends; and it reports success only if all are good.   *)
(***************************************************************************)
CONSTANT Volumes

VARIABLES
  busy,     \* a run is going on
  good,     \* the volumes whose configuration is good
  success   \* the latest run said so

cvars == <<busy, good, success>>

Init == busy = FALSE /\ good = {} /\ success = FALSE

\* The parameters change: whatever was good may not be any more.
Outdate ==
  /\ ~busy
  /\ good' \in SUBSET good
  /\ success' = FALSE
  /\ UNCHANGED busy

Begin ==
  /\ ~busy
  /\ busy' = TRUE
  /\ success' = FALSE
  /\ UNCHANGED good

\* A worker, or the container an aborted run left behind, rewrites a volume.
Rewrite(v) ==
  /\ ~success
  /\ good' \in {good \cup {v}, good \ {v}}
  /\ UNCHANGED <<busy, success>>

Finish ==
  /\ busy
  /\ busy' = FALSE
  /\ success' \in {FALSE, good = Volumes}
  /\ UNCHANGED good

Next == Outdate \/ Begin \/ Finish \/ \E v \in Volumes : Rewrite(v)

\* What a run may do, and that it ends.
Safety == Init /\ [][Next]_cvars

Spec == Safety /\ WF_cvars(Finish)
=============================================================================
