----------------------------- MODULE MCLibrary ------------------------------
(* Two paths of different types, and values for TLC's instance of Library. *)
EXTENDS Library

MCTypeOf == [p \in 1 .. NPaths |-> IF p = 1 THEN "image" ELSE "video"]
MCSizeOf == [v \in 1 .. NVersions |-> (v + 1) \div 2]
MCWants == {1 .. NPaths, {1}}
=============================================================================
