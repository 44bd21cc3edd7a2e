------------------------ MODULE MCStatedirOwnership ------------------------
(* Small instances of StatedirOwnership for TLC. *)
EXTENDS StatedirOwnership, TLC

CONSTANTS h1, h2, top1, top2, instances, disk

\* Two hosts that mount one instances directory.
TopOf     == [h \in Hosts |-> IF h = h1 THEN top1 ELSE top2]
TwoParent == [o \in Objects |-> CASE o = instances -> {top1, top2}
                                  [] o = disk -> {instances}
                                  [] OTHER -> {}]
TwoTree   == [h \in Hosts |-> {instances, disk}]

\* The two hosts and their state directories may change places.
Swap == {p \in Permutations({h1, h2, top1, top2}) :
           {p[h] : h \in Hosts} = Hosts /\ \A h \in Hosts : p[TopOf[h]] = TopOf[p[h]]}
=============================================================================
