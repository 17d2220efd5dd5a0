------------------------------ MODULE ItemFate ------------------------------
(***************************************************************************)
(* What remote_index promises of an item, whoever lists it, fetches it,    *)
(* crashes or is interrupted: it is recorded once, tried until it is       *)
(* settled or has failed Tries times, and what was decided stays decided.  *)
(* Discovery, which has the listing and the runs, and Archive, which has   *)
(* the bytes and the index, both implement it.                             *)
(***************************************************************************)
EXTENDS Naturals

CONSTANTS
  Keys,    \* rows that remote_index may have
  Tries    \* failures after which an item is given up (4)

VARIABLE fate

Unlisted == [state |-> "unlisted", failures |-> 0]
Waiting(n) == [state |-> "open", failures |-> n]
Settled == [state |-> "settled", failures |-> 0]
Gone == [state |-> "gone", failures |-> Tries]

Init == fate = [k \in Keys |-> Unlisted]

\* Recorded by a listing.
List(k) ==
  /\ fate[k] = Unlisted
  /\ fate' = [fate EXCEPT ![k] = Waiting(0)]

\* Fetched, found in the archive, or skipped by a dry run.
Settle(k) ==
  /\ fate[k].state = "open"
  /\ fate' = [fate EXCEPT ![k] = Settled]

\* Tried in vain, and given up the last time.
Fail(k) ==
  /\ fate[k].state = "open"
  /\ LET n == fate[k].failures + 1
     IN fate' = [fate EXCEPT ![k] = IF n = Tries THEN Gone ELSE Waiting(n)]

Next == \E k \in Keys : List(k) \/ Settle(k) \/ Fail(k)

Spec == Init /\ [][Next]_fate
=============================================================================
