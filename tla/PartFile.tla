------------------------------ MODULE PartFile ------------------------------
(***************************************************************************)
(* Guards 3 and 4 of the engine on the file system: one item, its target   *)
(* and its .part file, and the runs that have the item on their work list  *)
(* at the same time.  Two runs of one account are possible: jobs of two    *)
(* types in two workers (idx_jobs_one_active is per type), or a job whose  *)
(* lease ran out during a long item and the one that was claimed after it. *)
(* Archive has one run and takes a download for one step.                  *)
(*                                                                         *)
(* Abstractions.  All runs are served the same bytes, NBlocks blocks; a    *)
(* file is the set of blocks it has, the others being missing or holes.    *)
(* An open file stays open under any name, or none (POSIX).  What a run    *)
(* does after the item is settled is left out, and so is the user.         *)
(***************************************************************************)
EXTENDS Naturals

CONSTANTS
  Runs,      \* runs that may have the item on their work list
  NBlocks,   \* chunks of the item's body
  Inodes     \* files of the file system, one more than there are names and runs

Blocks == 1 .. NBlocks
None == 0

VARIABLES
  data,     \* the blocks of each file
  part,     \* the file named <target>.part, or None
  target,   \* the file named <target>, or None
  run,      \* each run: where it is, the file it has open, blocks it has copied
  settled   \* the item is off the work list of later runs

vars == <<data, part, target, run, settled>>

Off == [pc |-> "off", fd |-> None, n |-> 0]
At(r, pc) == run[r].pc = pc
To(r, pc) == run' = [run EXCEPT ![r].pc = pc]
Leaves(r, pc) == run' = [run EXCEPT ![r] = [Off EXCEPT !.pc = pc]]

Start(r) ==
  /\ At(r, "off") /\ ~settled
  /\ To(r, "item")
  /\ UNCHANGED <<data, part, target, settled>>

\* target.is_file() and target.stat().st_size > 0
InPlace == target # None /\ data[target] # {}

\* Guard 3: hash what is there, index it, mark the item.
Adopt(r) ==
  /\ At(r, "item") /\ InPlace
  /\ Leaves(r, "off")
  /\ settled' = TRUE
  /\ UNCHANGED <<data, part, target>>

\* open(partial, "wb"): an existing file is emptied, whoever writes to it.
Open(r) ==
  /\ At(r, "item") /\ ~InPlace
  /\ \E f \in Inodes :
       /\ IF part # None THEN f = part
          ELSE f # target /\ \A o \in Runs : run[o].fd # f
       /\ data' = [data EXCEPT ![f] = {}]
       /\ part' = f
       /\ run' = [run EXCEPT ![r] = [pc |-> "copy", fd |-> f, n |-> 0]]
  /\ UNCHANGED <<target, settled>>

\* copy_from: hash a block and write it at this run's own offset.
Copy(r) ==
  /\ At(r, "copy") /\ run[r].n < NBlocks
  /\ data' = [data EXCEPT ![run[r].fd] = @ \cup {run[r].n + 1}]
  /\ run' = [run EXCEPT ![r].n = @ + 1]
  /\ UNCHANGED <<part, target, settled>>

Close(r) ==
  /\ At(r, "copy") /\ run[r].n = NBlocks
  /\ run' = [run EXCEPT ![r].pc = "copied", ![r].fd = None]
  /\ UNCHANGED <<data, part, target, settled>>

\* Those bytes are known by now: unlink the .part, mark the item a duplicate.
Drop(r) ==
  /\ At(r, "copied")
  /\ part' = None
  /\ Leaves(r, "off")
  /\ settled' = TRUE
  /\ UNCHANGED <<data, target>>

\* partial.replace(target), whichever file has that name now.
Replace(r) ==
  /\ At(r, "copied") /\ part # None
  /\ target' = part
  /\ part' = None
  /\ To(r, "placed")
  /\ UNCHANGED <<data, settled>>

\* FileNotFoundError: the run is over.
ReplaceFails(r) ==
  /\ At(r, "copied") /\ part = None
  /\ Leaves(r, "off")
  /\ UNCHANGED <<data, part, target, settled>>

\* The row gets the hash of what was streamed, and the item is downloaded.
Index(r) ==
  /\ At(r, "placed")
  /\ Leaves(r, "off")
  /\ settled' = TRUE
  /\ UNCHANGED <<data, part, target>>

\* The source, the disk or a cancellation ends the copy: unlink and raise.
CopyFails(r) ==
  /\ At(r, "copy")
  /\ part' = None
  /\ Leaves(r, "off")
  /\ UNCHANGED <<data, target, settled>>

Crash(r) ==
  /\ run[r].pc # "down"
  /\ Leaves(r, "down")
  /\ UNCHANGED <<data, part, target, settled>>

\* cleanup_partials, "safe to run unconditionally" (sync.py:909).
Restart(r) ==
  /\ At(r, "down")
  /\ part' = None
  /\ Leaves(r, "off")
  /\ UNCHANGED <<data, target, settled>>

Init ==
  /\ data = [f \in Inodes |-> {}]
  /\ part = None /\ target = None
  /\ run = [r \in Runs |-> Off]
  /\ settled = FALSE

Next ==
  \E r \in Runs :
    \/ Start(r) \/ Adopt(r) \/ Open(r) \/ Copy(r) \/ Close(r) \/ Drop(r)
    \/ Replace(r) \/ ReplaceFails(r) \/ Index(r)
    \/ CopyFails(r) \/ Crash(r) \/ Restart(r)

Spec == Init /\ [][Next]_vars

\* When nobody is copying, a file in place is whole: "a crash here leaves a temp
\* file, never a truncated file masquerading as archived media" (sync.py:535-536).
ArchivedWhole ==
  target # None /\ (\A r \in Runs : ~At(r, "copy")) => data[target] = Blocks
=============================================================================
