---------------------------- MODULE MCConfigStore ---------------------------
(* ConfigStore with versions of two lengths.                               *)
EXTENDS ConfigStore

MCSizes == [v \in 0 .. MaxVersion |-> IF v = 2 THEN 2 ELSE 1]
=============================================================================
