------------------------------- MODULE Ledger -------------------------------
(***************************************************************************)
(* The append-only event log of one evaluation: class Ledger of            *)
(* evidence/workspace.py, the objects that append to it, and the event     *)
(* streams of web/server.py that follow it.                                *)
(*                                                                         *)
(* Many Ledger objects point at one file: every request makes its own, a   *)
(* job and the conversation keep theirs for minutes, and a headless run is *)
(* another process.  An object caches the last seq it used and the size    *)
(* of the file when it last wrote, and trusts the cached seq while the     *)
(* size has not changed.  A process may be killed between any two pieces   *)
(* of a write; the next writer must not glue its record to the torn line.  *)
(*                                                                         *)
(* The file is a sequence of lines.  A record reaches it in three pieces:  *)
(* a head (the line does not parse yet), a tail (it parses), its newline.  *)
(* Only what tells lines apart is kept of a record: its seq.               *)
(***************************************************************************)
EXTENDS Integers, Sequences, FiniteSets

CONSTANTS
    Objects,        \* the Ledger objects
    Processes,      \* the operating-system processes that hold them
    Process,        \* Process[o]: the process object o lives in
    Streams,        \* the pages following the file (get_stream)
    None,           \* no holder of a lock, no author of an older line
    Older,          \* the contents a file may have before this code opens it
    WritesFail,     \* whether flush or fsync may fail (a full disk)
    MaxBatch,       \* bound: records in one append_many
    MaxSeq,         \* bound: seqs handed out
    MaxLines        \* bound: lines in the file when an append starts

States == {"torn", "spoiled", "whole"}
Line == [seq : Nat \ {0}, by : Objects \cup {None}, state : States]

ASSUME LedgerAssumption ==
    /\ None \notin Objects
    /\ Process \in [Objects -> Processes]
    /\ Older \subseteq Seq(Line)
    /\ WritesFail \in BOOLEAN
    /\ MaxBatch \in Nat /\ MaxSeq \in Nat /\ MaxLines \in Nat

VARIABLES
    file,       \* the lines of ledger.jsonl
    ended,      \* the file is empty or its last byte is a newline
    size,       \* bytes in the file, counted in pieces: grows with each piece
    old,        \* how many lines were there before this code first wrote
    procLock,   \* procLock[p]: who holds the file's process-wide lock in p
    flock,      \* who holds the flock
    pc,         \* where each object is in append_many
    late,       \* late[o]: flush failed, the flock is gone, close() may retry
    cur,        \* cur[o]: the seq of the record being written
    cseq,       \* cseq[o]: the cached _seq, -1 for None
    csize,      \* csize[o]: the cached _size
    written,    \* written[o]: the seqs of the batch, {} if its append raised
    after,      \* after[s]: the stream's cursor, -1 before the page loads
    shown       \* shown[s]: the seqs the page has drawn, in order

disk == <<file, ended, size>>
locks == <<procLock, flock>>
object == <<cur, cseq, csize, written>>
pages == <<after, shown>>
vars == <<disk, old, locks, pc, late, object, pages>>

Steps == {"idle", "lock", "number", "pad", "head", "tail", "newline", "sync"}

(* The states in which an object has the file open for writing.            *)
Appending == {"number", "pad", "head", "tail", "newline", "sync"}
-----------------------------------------------------------------------------
(* The elements of s at the places in S, in their order.  (SelectSeq, by   *)
(* the rank of a place and not by recursion, so that it can be reasoned    *)
(* about.)                                                                 *)
Rank(S, i) == Cardinality({j \in S : j <= i})
Pick(s, S) == [n \in 1..Cardinality(S) |-> s[CHOOSE i \in S : Rank(S, i) = n]]

(* Ledger.read: the lines that parse.                                      *)
Whole(i) == file[i].state = "whole"
WholeLines == {i \in DOMAIN file : Whole(i)}
ReadableSeqs == {file[i].seq : i \in WholeLines}
Readable == Pick([i \in DOMAIN file |-> file[i].seq], WholeLines)

(* Variant: the last readable line's seq, right only if the file is in order. *)
IsHighest_LastLine(n) ==
    IF Readable = <<>> THEN n = 0 ELSE n = Readable[Len(Readable)]

(* The highest seq of the file, 0 for none: the max(..., default=0).       *)
IsHighest(n) ==
    /\ \A m \in ReadableSeqs : m <= n
    /\ n \in ReadableSeqs \/ (n = 0 /\ ReadableSeqs = {})

Last == file[Len(file)]
Spoil == [file EXCEPT ![Len(file)].state = "spoiled"]

(* The first bytes of a record land at the end of the file, whatever it    *)
(* holds: without a newline there they spoil the last line.                *)
PutHead(o) ==
    /\ file' = IF ended
                 THEN Append(file, [seq |-> cur[o], by |-> o, state |-> "torn"])
                 ELSE Spoil
    /\ ended' = FALSE

(* The rest of the record: the line parses if it follows its own head.     *)
PutTail(o) ==
    /\ file' = IF ended
                 THEN Append(file, [seq |-> cur[o], by |-> o, state |-> "spoiled"])
                 ELSE IF Last = [seq |-> cur[o], by |-> o, state |-> "torn"]
                      THEN [file EXCEPT ![Len(file)].state = "whole"]
                      ELSE Spoil
    /\ ended' = FALSE

PutNewline ==
    /\ ended' = TRUE
    /\ UNCHANGED file
-----------------------------------------------------------------------------
Init ==
    /\ file \in Older
    /\ ended \in (IF file = <<>> THEN {TRUE} ELSE BOOLEAN)
    /\ size = Len(file)
    /\ old = Len(file)
    /\ procLock = [p \in Processes |-> None]
    /\ flock = None
    /\ pc = [o \in Objects |-> "idle"]
    /\ late = [o \in Objects |-> FALSE]
    /\ cur = [o \in Objects |-> 0]
    /\ cseq = [o \in Objects |-> -1]
    /\ csize = [o \in Objects |-> -1]
    /\ written = [o \in Objects |-> {}]
    /\ after = [s \in Streams |-> -1]
    /\ shown = [s \in Streams |-> <<>>]

(* A new Workspace on the same directory: the cache starts empty.          *)
New(o) ==
    /\ pc[o] = "idle"
    /\ cseq' = [cseq EXCEPT ![o] = -1]
    /\ csize' = [csize EXCEPT ![o] = -1]
    /\ written' = [written EXCEPT ![o] = {}]
    /\ UNCHANGED <<disk, old, locks, pc, late, cur, pages>>

TakeLock(o) ==
    /\ pc[o] = "idle"
    /\ Len(file) < MaxLines
    /\ procLock[Process[o]] = None
    /\ procLock' = [procLock EXCEPT ![Process[o]] = o]
    /\ pc' = [pc EXCEPT ![o] = "lock"]
    /\ UNCHANGED <<disk, old, flock, late, object, pages>>

(* Variant: the process-wide lock alone.                                   *)
TakeFlock_None(o) ==
    /\ pc[o] = "lock"
    /\ pc' = [pc EXCEPT ![o] = "number"]
    /\ UNCHANGED <<disk, old, locks, late, object, pages>>

TakeFlock(o) ==
    /\ pc[o] = "lock"
    /\ flock = None
    /\ flock' = o
    /\ pc' = [pc EXCEPT ![o] = "number"]
    /\ UNCHANGED <<disk, old, procLock, late, object, pages>>

(* Variant: numbering on from the cache whoever else wrote, as it once did. *)
Stale_Once(o) == cseq[o] = -1

(* The cached seq is trusted only while nobody wrote since.                *)
Stale(o) == cseq[o] = -1 \/ size # csize[o]
Base(o, base) == IF Stale(o) THEN IsHighest(base) ELSE base = cseq[o]

(* Variant: no newline in front, whatever the last byte is.                *)
FirstPiece_Head == "head"

(* A writer killed mid-line must not take this record down with it.        *)
FirstPiece == IF ended THEN "head" ELSE "pad"

(* Decide the seqs of the batch and whether a newline must come first.     *)
Number(o) ==
    /\ pc[o] = "number"
    /\ \E base \in 0..MaxSeq, k \in 1..MaxBatch :
         /\ Base(o, base)
         /\ base + k <= MaxSeq
         /\ cur' = [cur EXCEPT ![o] = base + 1]
         /\ cseq' = [cseq EXCEPT ![o] = base + k]
         /\ written' = [written EXCEPT ![o] = (base + 1)..(base + k)]
    /\ pc' = [pc EXCEPT ![o] = FirstPiece]
    /\ UNCHANGED <<disk, old, locks, late, csize, pages>>

(* One piece of the payload reaches the file.                              *)
Piece(o, at, next, put) ==
    /\ pc[o] = at
    /\ put
    /\ size' = size + 1
    /\ pc' = [pc EXCEPT ![o] = next]
    /\ UNCHANGED <<old, locks, late, cseq, csize, written, pages>>

WritePad(o) == Piece(o, "pad", "head", PutNewline) /\ UNCHANGED cur
WriteHead(o) == Piece(o, "head", "tail", PutHead(o)) /\ UNCHANGED cur
WriteTail(o) == Piece(o, "tail", "newline", PutTail(o)) /\ UNCHANGED cur
WriteNewline(o) ==
    \/ /\ cur[o] < cseq[o]
       /\ Piece(o, "newline", "head", PutNewline)
       /\ cur' = [cur EXCEPT ![o] = @ + 1]
    \/ /\ cur[o] = cseq[o]
       /\ Piece(o, "newline", "sync", PutNewline)
       /\ UNCHANGED cur

(* fsync returned: remember the size, release both locks, report the       *)
(* records.  Nobody else can have written: tell() is the end of the file.  *)
Return(o) ==
    /\ pc[o] = "sync"
    /\ ~late[o]
    /\ csize' = [csize EXCEPT ![o] = size]
    /\ flock' = None
    /\ procLock' = [procLock EXCEPT ![Process[o]] = None]
    /\ pc' = [pc EXCEPT ![o] = "idle"]
    /\ UNCHANGED <<disk, old, late, cur, cseq, written, pages>>

(* flush or fsync raised: the finally releases the flock.                  *)
Fail(o) ==
    /\ WritesFail
    /\ pc[o] \in {"pad", "head", "tail", "newline", "sync"}
    /\ ~late[o]
    /\ late' = [late EXCEPT ![o] = TRUE]
    /\ flock' = None
    /\ UNCHANGED <<disk, old, procLock, pc, object, pages>>

(* Leaving the with statement closes the file, which tries the rest of the *)
(* buffer once more (the Write actions), and then releases the lock.       *)
CloseFailed(o) ==
    /\ late[o]
    /\ late' = [late EXCEPT ![o] = FALSE]
    /\ procLock' = [procLock EXCEPT ![Process[o]] = None]
    /\ written' = [written EXCEPT ![o] = {}]
    /\ pc' = [pc EXCEPT ![o] = "idle"]
    /\ UNCHANGED <<disk, old, flock, cur, cseq, csize, pages>>

(* SIGKILL: every object of the process is gone, its locks with it, and    *)
(* the file keeps the pieces that reached it.                              *)
Kill(p) ==
    LET dead == {o \in Objects : Process[o] = p} IN
    /\ pc' = [o \in Objects |-> IF o \in dead THEN "idle" ELSE pc[o]]
    /\ late' = [o \in Objects |-> IF o \in dead THEN FALSE ELSE late[o]]
    /\ cseq' = [o \in Objects |-> IF o \in dead THEN -1 ELSE cseq[o]]
    /\ csize' = [o \in Objects |-> IF o \in dead THEN -1 ELSE csize[o]]
    /\ written' = [o \in Objects |-> IF o \in dead THEN {} ELSE written[o]]
    /\ procLock' = [procLock EXCEPT ![p] = None]
    /\ flock' = IF flock \in dead THEN None ELSE flock
    /\ UNCHANGED <<disk, old, cur, pages>>
-----------------------------------------------------------------------------
(* What a stream has to send: the records above its cursor, in file order. *)
Above(n) == Pick(Readable, {i \in DOMAIN Readable : Readable[i] > n})

(* The page draws a block whose id it has not drawn.                       *)
Draw(drawn, seqs) ==
    drawn \o Pick(seqs, {i \in DOMAIN seqs : \A j \in DOMAIN drawn : drawn[j] # seqs[i]})

(* The page loads: it draws all there is and opens its stream there.       *)
Load(s) ==
    /\ shown' = [shown EXCEPT ![s] = Readable]
    /\ \E n \in 0..MaxSeq : IsHighest(n) /\ after' = [after EXCEPT ![s] = n]
    /\ UNCHANGED <<disk, old, locks, pc, late, object>>

(* One turn of get_stream's loop: everything above the cursor is sent and  *)
(* the cursor moves to the highest seq of the file.                        *)
Poll(s) ==
    /\ after[s] # -1
    /\ shown' = [shown EXCEPT ![s] = Draw(@, Above(after[s]))]
    /\ \E n \in 0..MaxSeq :
         /\ IsHighest(n)
         /\ after' = [after EXCEPT ![s] = IF n > @ THEN n ELSE @]
    /\ UNCHANGED <<disk, old, locks, pc, late, object>>

(* The connection breaks after some of it: the browser reconnects with the *)
(* id of the last block it received.                                       *)
Drop(s) ==
    LET new == Above(after[s]) IN
    /\ after[s] # -1
    /\ \E k \in 1..(Len(new) - 1) :
         /\ shown' = [shown EXCEPT ![s] = Draw(@, SubSeq(new, 1, k))]
         /\ after' = [after EXCEPT ![s] = new[k]]
    /\ UNCHANGED <<disk, old, locks, pc, late, object>>

Next ==
    \/ \E o \in Objects :
         \/ New(o) \/ TakeLock(o) \/ TakeFlock(o) \/ Number(o)
         \/ WritePad(o) \/ WriteHead(o) \/ WriteTail(o) \/ WriteNewline(o)
         \/ Return(o) \/ Fail(o) \/ CloseFailed(o)
    \/ \E p \in Processes : Kill(p)
    \/ \E s \in Streams : Load(s) \/ Poll(s) \/ Drop(s)

Spec == Init /\ [][Next]_vars
-----------------------------------------------------------------------------
LogTypeOK ==
    /\ file \in Seq(Line) /\ ended \in BOOLEAN /\ size \in Nat
    /\ old \in 0..Len(file)
    /\ procLock \in [Processes -> Objects \cup {None}]
    /\ flock \in Objects \cup {None}
    /\ pc \in [Objects -> Steps]
    /\ late \in [Objects -> BOOLEAN]
    /\ cur \in [Objects -> Nat]
    /\ cseq \in [Objects -> Nat \cup {-1}]
    /\ csize \in [Objects -> Nat \cup {-1}]
    /\ written \in [Objects -> SUBSET Nat]

PagesTypeOK ==
    /\ after \in [Streams -> Nat \cup {-1}]
    /\ shown \in [Streams -> Seq(Nat)]

TypeOK == LogTypeOK /\ PagesTypeOK

(* "seq is unique and increasing across every writer": a record this code  *)
(* wrote has a higher seq than every readable record before it, whichever  *)
(* objects and processes wrote them, however many were killed, and even    *)
(* when the older lines of the file are not in order.                      *)
SeqIncreasing ==
    \A i, j \in DOMAIN file :
        i < j /\ j > old /\ Whole(i) /\ Whole(j) => file[i].seq < file[j].seq

(* A record that could be read once can be read for ever: no later write,  *)
(* after a crash or not, takes a finished record down with it.             *)
NeverUnread ==
    [][\A i \in DOMAIN file : Whole(i) => i \in DOMAIN file' /\ file'[i] = file[i]]_vars

(* An append that returned has put all its records in the file.            *)
ReturnedIsReadable ==
    \A o \in Objects : pc[o] = "idle" =>
        \A n \in written[o] : \E i \in DOMAIN file :
            Whole(i) /\ file[i].seq = n /\ file[i].by = o

(* The page resumes after the highest id it saw and yet misses nothing: up *)
(* to its cursor it has drawn every readable record, in file order, once.  *)
NothingSkipped ==
    \A s \in Streams : after[s] # -1 =>
        /\ \E k \in 0..Len(Readable) : shown[s] = SubSeq(Readable, 1, k)
        /\ \A n \in ReadableSeqs : n <= after[s] => \E i \in DOMAIN shown[s] : shown[s][i] = n

(* The abstract log: whole records appear at its end, one at a time, each  *)
(* above all before it, and every page draws a growing prefix of it.       *)
Log == INSTANCE EventLog WITH log <- Readable, drawn <- shown
LogSpec == Log!Spec
=============================================================================
