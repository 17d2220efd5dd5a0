----------------------------- MODULE MCArchive ------------------------------
(* Small instances of Archive for TLC.                                     *)
EXTENDS Archive

\* The second item is the first one again, posted under another id.
MCBodyOf == [i \in Items |-> CHOOSE c \in Contents : TRUE]

\* Every item has a path of its own; the last path is nobody's.
MCPathOf == CHOOSE f \in [Items -> 1 .. Cardinality(Items)] :
              \A i, k \in Items : f[i] = f[k] => i = k
=============================================================================
