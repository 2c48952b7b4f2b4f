---------------------------- MODULE MCApplication ----------------------------
(* Instances of Application for TLC: three components, two of them of the same *)
(* order, that register different sets of hooks.                               *)
EXTENDS Application

CONSTANTS ds1, ds2, closer, c1, c2, c3

MCComponents == {c1, c2, c3}
MCOrder == [c \in MCComponents |-> IF c = c1 THEN 10 ELSE 0]
MCName == [c \in MCComponents |-> CASE c = c1 -> 1 [] c = c2 -> 2 [] c = c3 -> 3]
MCHooks == [k \in Kinds |-> CASE k = "initializer" -> {c1, c2}
                             [] k = "shutdown" -> {c1, c2, c3}
                             [] OTHER -> {c1}]
=============================================================================
