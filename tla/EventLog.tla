------------------------------ MODULE EventLog ------------------------------
(***************************************************************************)
(* What the ledger promises the rest of the program: an append-only log of *)
(* records whose seqs increase, and pages that each draw a growing prefix  *)
(* of it.  No locks, caches, bytes or crashes.                             *)
(***************************************************************************)
EXTENDS Naturals, Sequences

CONSTANT Streams

VARIABLES log,      \* the seqs of the records, oldest first
          drawn     \* drawn[s]: what page s shows

(* An older log may hold anything; the pages have not loaded.              *)
Init ==
    /\ log \in Seq(Nat)
    /\ drawn = [s \in Streams |-> <<>>]

(* One record is added, and its seq is above every seq before it.          *)
Record ==
    /\ Len(log') = Len(log) + 1
    /\ SubSeq(log', 1, Len(log)) = log
    /\ \A i \in DOMAIN log : log[i] < log'[Len(log')]
    /\ UNCHANGED drawn

Show(s) ==
    /\ \E k \in Len(drawn[s])..Len(log) :
         drawn' = [drawn EXCEPT ![s] = SubSeq(log, 1, k)]
    /\ UNCHANGED log

Next == Record \/ \E s \in Streams : Show(s)

Spec == Init /\ [][Next]_<<log, drawn>>
=============================================================================
