--------------------------- MODULE PartFileProofs ---------------------------
(***************************************************************************)
(* With one run at a time on an account's folder, no crash and no failure  *)
(* leaves a truncated file in the archive: what PartFile_shared refutes    *)
(* for two runs.                                                           *)
(***************************************************************************)
EXTENDS PartFile, TLAPS

Types ==
  /\ data \in [Inodes -> SUBSET Blocks]
  /\ part \in Inodes \cup {None} /\ target \in Inodes \cup {None}
  /\ run \in [Runs -> [pc : {"off", "item", "copy", "copied", "placed", "down"},
                       fd : Inodes \cup {None}, n : 0 .. NBlocks]]

\* A file in place is whole, and has no other name.
TargetWhole ==
  target # None => data[target] = Blocks /\ part # target

\* The .part file belongs to the run that has it open, or has just closed it;
\* otherwise only a crash leaves one.
PartOwned ==
  \A r \in Runs :
    /\ At(r, "copy") => /\ part = run[r].fd /\ part # None
                        /\ data[part] = 1 .. run[r].n
    /\ At(r, "copied") => part # None /\ data[part] = Blocks
    /\ run[r].pc \in {"off", "item", "placed"} => part = None

IInv == Types /\ TargetWhole /\ PartOwned

\* The smallest constants the code has: a file name that is no file is None.
Alone(r) == Runs = {r} /\ NBlocks \in Nat /\ None \notin Inodes

LEMMA InitHolds == \A r : Alone(r) /\ Init => IInv
  BY DEF Alone, Init, IInv, Types, TargetWhole, PartOwned, Off, At, None, Blocks

LEMMA StepHolds ==
  ASSUME NEW r, Alone(r), IInv, [Next]_vars
  PROVE  IInv'
<1>. USE DEF Alone, IInv, Types, TargetWhole, PartOwned, At, To, Leaves, Off
<1>1. CASE Start(r) BY <1>1 DEF Start
<1>2. CASE Adopt(r) BY <1>2 DEF Adopt
<1>3. CASE Open(r)
  <2>1. PICK f \in Inodes :
          /\ IF part # None THEN f = part
             ELSE f # target /\ \A o \in Runs : run[o].fd # f
          /\ data' = [data EXCEPT ![f] = {}]
          /\ part' = f
          /\ run' = [run EXCEPT ![r] = [pc |-> "copy", fd |-> f, n |-> 0]]
    BY <1>3 DEF Open
  <2>2. part = None /\ f # target /\ target' = target
    BY <1>3, <2>1 DEF Open
  <2>. QED BY <2>1, <2>2 DEF Blocks
<1>4. CASE Copy(r)
  <2>1. /\ run[r].n \in Nat /\ run[r].n < NBlocks /\ part = run[r].fd
        /\ part # None /\ part # target /\ data[part] = 1 .. run[r].n
    BY <1>4 DEF Copy
  <2>2. (1 .. run[r].n) \cup {run[r].n + 1} = 1 .. run[r].n + 1
    BY <2>1
  <2>3. run[r].n + 1 \in 0 .. NBlocks /\ run[r].n + 1 \in Blocks
    BY <2>1 DEF Blocks
  <2>4. data' = [data EXCEPT ![part] = 1 .. run[r].n + 1]
    BY <1>4, <2>1, <2>2 DEF Copy
  <2>5. /\ part' = part /\ target' = target
        /\ run' = [run EXCEPT ![r].n = run[r].n + 1]
    BY <1>4 DEF Copy
  <2>6. Types'
    BY <1>4, <2>1, <2>3, <2>5 DEF Copy
  <2>7. TargetWhole'
    BY <2>1, <2>4, <2>5
  <2>8. PartOwned'
    <3>1. run'[r].pc = "copy" /\ run'[r].fd = part /\ run'[r].n = run[r].n + 1
      BY <1>4, <2>1, <2>5 DEF Copy
    <3>2. part \in Inodes /\ data'[part] = 1 .. run[r].n + 1
      BY <2>1, <2>4
    <3>. QED BY <2>1, <2>5, <3>1, <3>2
  <2>. QED BY <2>6, <2>7, <2>8
<1>5. CASE Close(r) BY <1>5 DEF Close, Blocks
<1>6. CASE Drop(r) BY <1>6 DEF Drop
<1>7. CASE Replace(r) BY <1>7 DEF Replace
<1>8. CASE ReplaceFails(r) BY <1>8 DEF ReplaceFails
<1>9. CASE Index(r) BY <1>9 DEF Index
<1>10. CASE CopyFails(r) BY <1>10 DEF CopyFails
<1>11. CASE Crash(r) BY <1>11 DEF Crash
<1>12. CASE Restart(r) BY <1>12 DEF Restart
<1>13. CASE UNCHANGED vars BY <1>13 DEF vars
<1>. QED
  BY <1>1, <1>2, <1>3, <1>4, <1>5, <1>6, <1>7, <1>8, <1>9, <1>10, <1>11,
     <1>12, <1>13 DEF Next

\* One run at a time: a file in place is whole, whatever fails or dies on the way
\* ("a crash here leaves a temp file, never a truncated file", sync.py:535-536).
THEOREM WholeAlone ==
  ASSUME NEW r, Alone(r)
  PROVE  Spec => []ArchivedWhole
<1>1. Init => IInv
  BY InitHolds
<1>2. IInv /\ [Next]_vars => IInv'
  BY StepHolds
<1>3. IInv => ArchivedWhole
  BY DEF IInv, TargetWhole, ArchivedWhole
<1>. QED
  BY <1>1, <1>2, <1>3, PTL DEF Spec
=============================================================================
