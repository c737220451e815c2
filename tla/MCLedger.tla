------------------------------ MODULE MCLedger ------------------------------
(* A small instance of Ledger: an object in each of two processes, and     *)
(* files that earlier versions of the program may have left.               *)
EXTENDS Ledger

CONSTANTS a, b, c, p1, p2

(* Bound: while a file whose write failed is being closed, the other       *)
(* process does not write.  (The flock is released before the close, which *)
(* flushes once more: what two processes can do to each other in that gap  *)
(* is a known divergence, described in the README.)                        *)
ClosesAlone ==
    \A o, q \in Objects : late[o] /\ Process[q] # Process[o] => pc[q] \in {"idle", "lock"}

TwoProcesses == [o \in Objects |-> IF o = b THEN p2 ELSE p1]

OldLine(n, state) == [seq |-> n, by |-> None, state |-> state]
(* Nothing; a torn only line; seqs that went back, as the run the          *)
(* class comment tells of left them.                                       *)
OlderFiles == {<<>>,
               <<OldLine(1, "torn")>>,
               <<OldLine(2, "whole"), OldLine(1, "whole")>>}
=============================================================================
