------------------------- MODULE MCContainerPuppet -------------------------
(* Small instances of ContainerPuppet for TLC. *)
EXTENDS ContainerPuppet

CONSTANTS nova, mysql, conf, passwd, api, db

\* One volume with an ordinary and a password file, in one step or in the second of two.
OneStep    == [c \in Startup |-> 1]
OneMounted == [c \in Startup |-> {<<mysql, "generated">>}]

\* Two volumes, two steps: api mounts both volumes, db one of them.
TwoSteps   == [c \in Startup |-> IF c = db THEN 1 ELSE 2]
TwoMounted == [c \in Startup |-> IF c = db THEN {<<mysql, "data">>}
                                 ELSE {<<mysql, "data">>, <<nova, "generated">>}]

\* No service asks for privileged; or nova does in the first version only.
Never      == [n \in 1 .. MaxVersion |-> {}]
FirstOnly  == [n \in 1 .. MaxVersion |-> IF n = 1 THEN {nova} ELSE {}]
=============================================================================
