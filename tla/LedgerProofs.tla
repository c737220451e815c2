---------------------------- MODULE LedgerProofs ----------------------------
(***************************************************************************)
(* The ledger's numbering is right, and what it reported stays readable,   *)
(* for any number of objects, processes, pages and older lines, and for    *)
(* any sequence of kills.                                                  *)
(*                                                                         *)
(* The argument: one object at a time is past TakeFlock (MutualExclusion); *)
(* it numbers above everything readable, because a cache whose size still  *)
(* matches has seen everything (CacheSound); and until it is done its      *)
(* record is the only thing that changes at the end of the file (Position).*)
(* A step therefore adds at most one readable record, above all others: a  *)
(* page's cursor stays ahead of what it has shown and behind the rest      *)
(* (PInv), and the file, read record by record, is the abstract log.       *)
(*                                                                         *)
(* Failing writes break it: close() retries the buffer after the flock is  *)
(* gone.  The theorems therefore assume that writes do not fail unless all *)
(* writers share one process, whose lock covers the retry.                 *)
(***************************************************************************)
EXTENDS Ledger, FiniteSetTheorems, TLAPS

SafeFailures == WritesFail => \A p, q \in Processes : p = q

AllBelow(n) == \A i \in DOMAIN file : Whole(i) => file[i].seq < n
AllUpTo(n) == \A i \in DOMAIN file : Whole(i) => file[i].seq <= n

LocksHeld ==
    \A o \in Objects :
        /\ pc[o] # "idle" => procLock[Process[o]] = o
        /\ pc[o] \in Appending /\ ~late[o] => flock = o
        /\ late[o] => WritesFail /\ pc[o] \in Appending \ {"number"}

CacheSound ==
    \A o \in Objects :
        /\ csize[o] <= size
        /\ csize[o] = size => AllUpTo(cseq[o])

Position ==
    \A o \in Objects :
        /\ pc[o] \in {"pad", "head", "tail", "newline"} => cur[o] > 0 /\ cur[o] <= cseq[o]
        /\ pc[o] \in {"pad", "head", "tail"} => AllBelow(cur[o])
        /\ pc[o] = "newline" => AllUpTo(cur[o])
        /\ pc[o] = "sync" => cseq[o] > 0 /\ AllUpTo(cseq[o])
        /\ pc[o] = "head" => ended
        /\ pc[o] = "tail" =>
             /\ ~ended
             /\ Len(file) > 0
             /\ Last = [seq |-> cur[o], by |-> o, state |-> "torn"]

(* An object whose cache was filled knows a seq.                           *)
Filled == \A o \in Objects : csize[o] # -1 => cseq[o] # -1

NotEndedHasLine == ~ended => Len(file) > 0

IInv == LogTypeOK /\ LocksHeld /\ CacheSound /\ Position /\ Filled /\ NotEndedHasLine /\ SeqIncreasing

MutualExclusion ==
    \A o, q \in Objects : pc[o] \in Appending /\ pc[q] \in Appending => o = q
-----------------------------------------------------------------------------
LEMMA LineTypes ==
    ASSUME LogTypeOK, NEW i \in DOMAIN file
    PROVE  file[i] \in Line /\ file[i].seq \in Nat
<1>1. DOMAIN file = 1..Len(file) /\ file \in [1..Len(file) -> Line]
  BY DEF LogTypeOK
<1> QED
  BY <1>1 DEF Line

(* At most one object is appending.                                        *)
LEMMA MutualExclusionLemma ==
    ASSUME SafeFailures, LogTypeOK, LocksHeld
    PROVE  MutualExclusion
<1> SUFFICES ASSUME NEW o \in Objects, NEW q \in Objects,
                    pc[o] \in Appending, pc[q] \in Appending
             PROVE  o = q
  BY DEF MutualExclusion
<1>1. procLock[Process[o]] = o /\ procLock[Process[q]] = q
  BY DEF LocksHeld, Appending
<1>2. CASE late[o] \/ late[q]
  <2>1. Process[o] = Process[q]
    BY <1>2, LedgerAssumption DEF LocksHeld, SafeFailures
  <2> QED
    BY <1>1, <2>1
<1>3. CASE ~late[o] /\ ~late[q]
  BY <1>3 DEF LocksHeld
<1> QED
  BY <1>2, <1>3
-----------------------------------------------------------------------------
(* Init establishes the invariant.                                         *)
LEMMA InitInv == Init => IInv
<1> SUFFICES ASSUME Init PROVE IInv
  OBVIOUS
<1> USE LedgerAssumption DEF Init
<1>0. file \in Seq(Line) /\ Len(file) \in Nat
  OBVIOUS
<1>a. ended \in BOOLEAN /\ (~ended => Len(file) > 0)
  <2>1. CASE file = <<>>
    BY <2>1
  <2>2. CASE file # <<>>
    BY <2>2, <1>0
  <2> QED
    BY <2>1, <2>2
<1>1. LogTypeOK
  BY <1>0, <1>a DEF LogTypeOK, Steps
<1>2. LocksHeld
  BY DEF LocksHeld, Appending
<1>b. size \in Nat /\ \A o \in Objects : csize[o] = -1
  BY <1>0
<1>3. CacheSound
  <2> SUFFICES ASSUME NEW o \in Objects
               PROVE  csize[o] <= size /\ csize[o] # size
    BY DEF CacheSound
  <2>1. csize[o] = -1 /\ size \in Nat
    BY <1>b
  <2> HIDE LedgerAssumption DEF Init
  <2> QED
    BY <2>1
<1>4. Position
  BY DEF Position
<1>5. Filled /\ NotEndedHasLine
  BY <1>0, <1>a DEF Filled, NotEndedHasLine
<1>6. SeqIncreasing
  BY DEF SeqIncreasing
<1> QED
  BY <1>1, <1>2, <1>3, <1>4, <1>5, <1>6 DEF IInv
-----------------------------------------------------------------------------
(* Steps that leave the file alone: only locks, caches and positions move. *)
LEMMA NewInv ==
    ASSUME IInv, NEW o \in Objects, New(o)
    PROVE  IInv'
<1> USE DEF IInv, New, disk, locks, object, pages
<1>1. LogTypeOK'
  BY DEF LogTypeOK
<1>2. LocksHeld'
  BY DEF LocksHeld
<1>3. CacheSound'
  BY DEF CacheSound, LogTypeOK, AllUpTo, Whole
<1>4. Position'
  BY DEF Position, LogTypeOK, AllUpTo, AllBelow, Whole, Last
<1>5. Filled' /\ NotEndedHasLine'
  BY DEF Filled, NotEndedHasLine, LogTypeOK
<1>6. SeqIncreasing'
  BY DEF SeqIncreasing, Whole
<1> QED
  BY <1>1, <1>2, <1>3, <1>4, <1>5, <1>6

LEMMA TakeLockInv ==
    ASSUME IInv, NEW o \in Objects, TakeLock(o)
    PROVE  IInv'
<1> USE DEF IInv, TakeLock, disk, locks, object, pages
<1>1. LogTypeOK'
  BY LedgerAssumption DEF LogTypeOK, Steps
<1>2. LocksHeld'
  <2> SUFFICES ASSUME NEW q \in Objects
               PROVE  /\ pc'[q] # "idle" => procLock'[Process[q]] = q
                      /\ pc'[q] \in Appending /\ ~late'[q] => flock' = q
                      /\ late'[q] => WritesFail /\ pc'[q] \in Appending \ {"number"}
    BY DEF LocksHeld
  <2>1. Process[o] \in Processes /\ Process[q] \in Processes /\ q # None /\ UNCHANGED <<flock, late>>
    BY LedgerAssumption
  <2>2. CASE q = o
    <3>1. pc'[o] = "lock" /\ ~late[o]
      BY DEF LocksHeld, LogTypeOK, Appending
    <3>2. procLock'[Process[o]] = o
      BY <2>1 DEF LogTypeOK
    <3> QED
      BY <2>1, <2>2, <3>1, <3>2 DEF Appending
  <2>3. CASE q # o
    <3>1. pc'[q] = pc[q]
      BY <2>3 DEF LogTypeOK
    <3>2. procLock[Process[q]] = q => procLock'[Process[q]] = q
      BY <2>1 DEF LogTypeOK
    <3> QED
      BY <2>1, <3>1, <3>2 DEF LocksHeld
  <2> QED
    BY <2>2, <2>3
<1>3. CacheSound'
  BY DEF CacheSound, LogTypeOK, AllUpTo, Whole
<1>4. Position'
  BY DEF Position, LogTypeOK, AllUpTo, AllBelow, Whole, Last
<1>5. Filled' /\ NotEndedHasLine'
  BY DEF Filled, NotEndedHasLine, LogTypeOK
<1>6. SeqIncreasing'
  BY DEF SeqIncreasing, Whole
<1> QED
  BY <1>1, <1>2, <1>3, <1>4, <1>5, <1>6

LEMMA TakeFlockInv ==
    ASSUME IInv, NEW o \in Objects, TakeFlock(o)
    PROVE  IInv'
<1> USE DEF IInv, TakeFlock, disk, locks, object, pages
<1>1. LogTypeOK'
  BY DEF LogTypeOK, Steps
<1>2. LocksHeld'
  BY LedgerAssumption DEF LocksHeld, LogTypeOK, Appending
<1>3. CacheSound'
  BY DEF CacheSound, LogTypeOK, AllUpTo, Whole
<1>4. Position'
  BY DEF Position, LogTypeOK, AllUpTo, AllBelow, Whole, Last
<1>5. Filled' /\ NotEndedHasLine'
  BY DEF Filled, NotEndedHasLine, LogTypeOK
<1>6. SeqIncreasing'
  BY DEF SeqIncreasing, Whole
<1> QED
  BY <1>1, <1>2, <1>3, <1>4, <1>5, <1>6

(* The base is above everything readable: found by reading when the cache  *)
(* is stale, and by CacheSound when it is not.                             *)
LEMMA NumberInv ==
    ASSUME IInv, NEW o \in Objects, Number(o)
    PROVE  IInv'
<1> USE DEF IInv, Number, FirstPiece, disk, locks, object, pages
<1> PICK base \in 0..MaxSeq, k \in 1..MaxBatch :
           /\ Base(o, base)
           /\ cur' = [cur EXCEPT ![o] = base + 1]
           /\ cseq' = [cseq EXCEPT ![o] = base + k]
           /\ written' = [written EXCEPT ![o] = (base + 1)..(base + k)]
  OBVIOUS
<1>0. base \in Nat /\ k \in Nat /\ 1 <= k
  BY LedgerAssumption
<1>1. LogTypeOK'
  BY <1>0 DEF LogTypeOK, Steps
<1>2. LocksHeld'
  BY DEF LocksHeld, LogTypeOK, Appending
<1>a. AllUpTo(base)
  <2>1. CASE Stale(o)
    BY <2>1 DEF Base, IsHighest, ReadableSeqs, WholeLines, AllUpTo
  <2>2. CASE ~Stale(o)
    BY <2>2 DEF Base, Stale, CacheSound
  <2> QED
    BY <2>1, <2>2
<1>b. AllUpTo(base + k) /\ AllBelow(base + 1)
  BY <1>a, <1>0, LineTypes DEF AllUpTo, AllBelow
<1>3. CacheSound'
  BY <1>b, <1>0 DEF CacheSound, LogTypeOK, AllUpTo, Whole
<1>4. Position'
  BY <1>b, <1>0 DEF Position, LogTypeOK, AllUpTo, AllBelow, Whole, Last
<1>5. Filled' /\ NotEndedHasLine'
  BY <1>0 DEF Filled, NotEndedHasLine, LogTypeOK
<1>6. SeqIncreasing'
  BY DEF SeqIncreasing, Whole
<1> QED
  BY <1>1, <1>2, <1>3, <1>4, <1>5, <1>6

LEMMA ReturnInv ==
    ASSUME SafeFailures, IInv, NEW o \in Objects, Return(o)
    PROVE  IInv'
<1> USE DEF IInv, Return, disk, locks, object, pages
<1>1. LogTypeOK'
  BY LedgerAssumption DEF LogTypeOK, Steps
<1>2. LocksHeld'
  BY LedgerAssumption, MutualExclusionLemma DEF LocksHeld, LogTypeOK, Appending, MutualExclusion
<1>3. CacheSound'
  BY DEF CacheSound, Position, LogTypeOK, AllUpTo, Whole
<1>4. Position'
  BY DEF Position, LogTypeOK, AllUpTo, AllBelow, Whole, Last
<1>5. Filled' /\ NotEndedHasLine'
  BY DEF Filled, Position, NotEndedHasLine, LogTypeOK
<1>6. SeqIncreasing'
  BY DEF SeqIncreasing, Whole
<1> QED
  BY <1>1, <1>2, <1>3, <1>4, <1>5, <1>6
-----------------------------------------------------------------------------
(* Steps that end an append without finishing it.                          *)
LEMMA FailInv ==
    ASSUME SafeFailures, IInv, NEW o \in Objects, Fail(o)
    PROVE  IInv'
<1> USE DEF IInv, Fail, disk, locks, object, pages
<1>1. LogTypeOK'
  BY DEF LogTypeOK
<1>2. LocksHeld'
  BY LedgerAssumption, MutualExclusionLemma DEF LocksHeld, LogTypeOK, Appending, MutualExclusion
<1>3. CacheSound'
  BY DEF CacheSound, LogTypeOK, AllUpTo, Whole
<1>4. Position'
  BY DEF Position, LogTypeOK, AllUpTo, AllBelow, Whole, Last
<1>5. Filled' /\ NotEndedHasLine'
  BY DEF Filled, NotEndedHasLine, LogTypeOK
<1>6. SeqIncreasing'
  BY DEF SeqIncreasing, Whole
<1> QED
  BY <1>1, <1>2, <1>3, <1>4, <1>5, <1>6

LEMMA CloseFailedInv ==
    ASSUME SafeFailures, IInv, NEW o \in Objects, CloseFailed(o)
    PROVE  IInv'
<1> USE DEF IInv, CloseFailed, disk, locks, object, pages
<1>1. LogTypeOK'
  BY LedgerAssumption DEF LogTypeOK, Steps
<1>2. LocksHeld'
  <2> SUFFICES ASSUME NEW q \in Objects
               PROVE  /\ pc'[q] # "idle" => procLock'[Process[q]] = q
                      /\ pc'[q] \in Appending /\ ~late'[q] => flock' = q
                      /\ late'[q] => WritesFail /\ pc'[q] \in Appending \ {"number"}
    BY DEF LocksHeld
  <2>1. Process[o] \in Processes /\ Process[q] \in Processes /\ UNCHANGED flock
    BY LedgerAssumption
  <2>2. CASE q = o
    BY <2>2 DEF LogTypeOK, Appending
  <2>3. CASE q # o
    <3>1. pc'[q] = pc[q] /\ late'[q] = late[q]
      BY <2>3 DEF LogTypeOK
    <3>2. pc[q] = "idle"
      <4>1. procLock[Process[o]] = o /\ WritesFail
        BY DEF LocksHeld, Appending
      <4>2. Process[q] = Process[o]
        BY <2>1, <4>1 DEF SafeFailures
      <4> QED
        BY <2>3, <4>1, <4>2 DEF LocksHeld
    <3> QED
      BY <3>1, <3>2 DEF LocksHeld, Appending
  <2> QED
    BY <2>2, <2>3
<1>3. CacheSound'
  BY DEF CacheSound, LogTypeOK, AllUpTo, Whole
<1>4. Position'
  BY DEF Position, LogTypeOK, AllUpTo, AllBelow, Whole, Last
<1>5. Filled' /\ NotEndedHasLine'
  BY DEF Filled, NotEndedHasLine, LogTypeOK
<1>6. SeqIncreasing'
  BY DEF SeqIncreasing, Whole
<1> QED
  BY <1>1, <1>2, <1>3, <1>4, <1>5, <1>6

LEMMA KillInv ==
    ASSUME IInv, NEW p \in Processes, Kill(p)
    PROVE  IInv'
<1> USE DEF IInv, Kill, disk, locks, object, pages
<1>1. LogTypeOK'
  BY DEF LogTypeOK, Steps
<1>2. LocksHeld'
  BY LedgerAssumption DEF LocksHeld, LogTypeOK, Appending
<1>3. CacheSound'
  BY DEF CacheSound, LogTypeOK, AllUpTo, Whole
<1>4. Position'
  BY DEF Position, LogTypeOK, AllUpTo, AllBelow, Whole, Last
<1>5. Filled' /\ NotEndedHasLine'
  BY DEF Filled, NotEndedHasLine, LogTypeOK
<1>6. SeqIncreasing'
  BY DEF SeqIncreasing, Whole
<1> QED
  BY <1>1, <1>2, <1>3, <1>4, <1>5, <1>6
-----------------------------------------------------------------------------
(* The steps that write.  Only the one object past TakeFlock takes them,   *)
(* so every other object's cached size falls behind the file's.            *)
LEMMA GrowthKeepsCaches ==
    ASSUME LogTypeOK, CacheSound, size' = size + 1, csize' = csize
    PROVE  CacheSound'
<1> SUFFICES ASSUME NEW q \in Objects
             PROVE  csize'[q] <= size' /\ csize'[q] # size'
  BY DEF CacheSound
<1>1. size \in Nat /\ csize[q] \in Int /\ csize[q] <= size
  BY DEF LogTypeOK, CacheSound
<1> QED
  BY <1>1

LEMMA WritePadInv ==
    ASSUME SafeFailures, IInv, NEW o \in Objects, WritePad(o)
    PROVE  IInv'
<1> USE DEF IInv, WritePad, Piece, PutNewline, disk, locks, object, pages
<1>0. MutualExclusion
  BY MutualExclusionLemma
<1>1. LogTypeOK'
  BY DEF LogTypeOK, Steps
<1>2. LocksHeld'
  BY DEF LocksHeld, LogTypeOK, Appending
<1>3. CacheSound'
  BY GrowthKeepsCaches
<1>4. Position'
  BY <1>0 DEF MutualExclusion, Appending, Position, LogTypeOK, AllUpTo, AllBelow, Whole, Last
<1>5. Filled' /\ NotEndedHasLine'
  BY DEF Filled, NotEndedHasLine, LogTypeOK
<1>6. SeqIncreasing'
  BY DEF SeqIncreasing, Whole
<1> QED
  BY <1>1, <1>2, <1>3, <1>4, <1>5, <1>6

LEMMA WriteNewlineInv ==
    ASSUME SafeFailures, IInv, NEW o \in Objects, WriteNewline(o)
    PROVE  IInv'
<1> USE DEF IInv, Piece, PutNewline, disk, locks, object, pages
<1>0. MutualExclusion
  BY MutualExclusionLemma
<1>a. cur[o] \in Nat /\ cseq[o] \in Int /\ size \in Nat /\ AllUpTo(cur[o]) /\ cur[o] > 0
  BY DEF WriteNewline, Position, LogTypeOK
(* The next record of the batch.                                           *)
<1>1. CASE cur[o] < cseq[o]
  <2>1. /\ pc[o] = "newline" /\ pc' = [pc EXCEPT ![o] = "head"]
        /\ cur' = [cur EXCEPT ![o] = @ + 1]
        /\ ended' = TRUE /\ size' = size + 1
        /\ UNCHANGED <<file, old, locks, late, cseq, csize, written>>
    BY <1>1, <1>a DEF WriteNewline
  <2>2. AllBelow(cur[o] + 1)
    BY <1>a, LineTypes DEF AllUpTo, AllBelow
  <2> HIDE DEF Piece
  <2>3. LogTypeOK'
    BY <2>1, <1>a DEF LogTypeOK, Steps
  <2>4. LocksHeld'
    BY <2>1 DEF LocksHeld, LogTypeOK, Appending
  <2>5. CacheSound'
    BY <2>1, GrowthKeepsCaches
  <2>6. Position'
    BY <1>0, <1>1, <1>a, <2>1, <2>2
       DEF MutualExclusion, Appending, Position, LogTypeOK, AllBelow, Whole
  <2>7. Filled' /\ NotEndedHasLine' /\ SeqIncreasing'
    BY <2>1 DEF Filled, NotEndedHasLine, SeqIncreasing, Whole
  <2> QED
    BY <2>3, <2>4, <2>5, <2>6, <2>7
(* The batch is written.                                                   *)
<1>2. CASE cur[o] = cseq[o]
  <2>1. /\ pc[o] = "newline" /\ pc' = [pc EXCEPT ![o] = "sync"]
        /\ ended' = TRUE /\ size' = size + 1
        /\ UNCHANGED <<file, old, locks, late, cur, cseq, csize, written>>
    BY <1>2, <1>a DEF WriteNewline
  <2> HIDE DEF Piece
  <2>3. LogTypeOK'
    BY <2>1, <1>a DEF LogTypeOK, Steps
  <2>4. LocksHeld'
    BY <2>1 DEF LocksHeld, LogTypeOK, Appending
  <2>5. CacheSound'
    BY <2>1, GrowthKeepsCaches
  <2>6. Position'
    BY <1>0, <1>2, <1>a, <2>1
       DEF MutualExclusion, Appending, Position, LogTypeOK, AllUpTo, Whole
  <2>7. Filled' /\ NotEndedHasLine' /\ SeqIncreasing'
    BY <2>1 DEF Filled, NotEndedHasLine, SeqIncreasing, Whole
  <2> QED
    BY <2>3, <2>4, <2>5, <2>6, <2>7
<1> QED
  BY <1>1, <1>2 DEF WriteNewline

LEMMA WriteHeadInv ==
    ASSUME SafeFailures, IInv, NEW o \in Objects, WriteHead(o)
    PROVE  IInv'
<1> USE DEF IInv, WriteHead, Piece, PutHead, disk, locks, object, pages
<1> DEFINE line == [seq |-> cur[o], by |-> o, state |-> "torn"]
<1>0. MutualExclusion
  BY MutualExclusionLemma
<1>a. ended /\ line \in Line /\ file' = Append(file, line)
  BY DEF Position, LogTypeOK, Line, States
<1>b. /\ file \in Seq(Line) /\ file' \in Seq(Line)
      /\ Len(file') = Len(file) + 1
      /\ \A i \in DOMAIN file : i \in DOMAIN file' /\ file'[i] = file[i]
      /\ file'[Len(file')] = line
      /\ DOMAIN file' = DOMAIN file \cup {Len(file')}
  BY <1>a DEF LogTypeOK
<1>c. \A i \in DOMAIN file' : Whole(i)' => i \in DOMAIN file /\ Whole(i)
  BY <1>b DEF Whole
<1>1. LogTypeOK'
  <2>1. old \in 0..Len(file) /\ size \in Nat /\ Len(file) \in Nat
    BY DEF LogTypeOK
  <2>2. old' \in 0..Len(file')
    BY <1>b, <2>1
  <2>a. size' = size + 1
    OBVIOUS
  <2>b. ended' = FALSE
    OBVIOUS
  <2>3. size' \in Nat
    BY <2>1, <2>a
  <2>4. ended' \in BOOLEAN
    BY <2>b, Zenon
  <2> QED
    BY <1>b, <2>2, <2>3, <2>4 DEF LogTypeOK, Steps
<1>2. LocksHeld'
  BY DEF LocksHeld, LogTypeOK, Appending
<1>3. CacheSound'
  BY GrowthKeepsCaches
<1>4. Position'
  BY <1>0, <1>b, <1>c DEF MutualExclusion, Appending, Position, LogTypeOK, AllBelow, Last
<1>5. Filled' /\ NotEndedHasLine'
  BY <1>b DEF Filled, NotEndedHasLine, LogTypeOK
<1>6. SeqIncreasing'
  BY <1>b, <1>c DEF SeqIncreasing
<1> QED
  BY <1>1, <1>2, <1>3, <1>4, <1>5, <1>6

(* The torn last line becomes readable: its seq is above all the others.   *)
LEMMA WriteTailInv ==
    ASSUME SafeFailures, IInv, NEW o \in Objects, WriteTail(o)
    PROVE  IInv'
<1> USE DEF IInv, WriteTail, Piece, PutTail, disk, locks, object, pages
<1> DEFINE n == Len(file)
<1>0. MutualExclusion
  BY MutualExclusionLemma
<1>a. /\ n \in DOMAIN file /\ n \in Nat
      /\ file[n] = [seq |-> cur[o], by |-> o, state |-> "torn"]
      /\ file' = [file EXCEPT ![n].state = "whole"]
  BY DEF Position, LogTypeOK, Last
<1>b. /\ file' \in Seq(Line) /\ Len(file') = n /\ DOMAIN file' = DOMAIN file
      /\ \A i \in DOMAIN file : i # n => file'[i] = file[i]
      /\ file'[n].seq = cur[o]
      /\ \A i \in DOMAIN file : i # n => i < n
  <2>1. file \in Seq(Line) /\ file[n] \in Line
    BY <1>a, LineTypes DEF LogTypeOK
  <2>2. [file[n] EXCEPT !.state = "whole"] \in Line
    BY <2>1 DEF Line, States
  <2> QED
    BY <1>a, <2>1, <2>2
<1>c. \A i \in DOMAIN file' : i # n /\ Whole(i)' => Whole(i)
  BY <1>b DEF Whole
<1>d. cur[o] \in Nat /\ AllBelow(cur[o])
  BY DEF Position, LogTypeOK
<1>1. LogTypeOK'
  <2>1. old \in 0..Len(file) /\ size \in Nat /\ Len(file) \in Nat
    BY DEF LogTypeOK
  <2>2. old' \in 0..Len(file')
    BY <1>b, <2>1
  <2>a. size' = size + 1
    OBVIOUS
  <2>b. ended' = FALSE
    OBVIOUS
  <2>3. size' \in Nat
    BY <2>1, <2>a
  <2>4. ended' \in BOOLEAN
    BY <2>b, Zenon
  <2> QED
    BY <1>b, <2>2, <2>3, <2>4 DEF LogTypeOK, Steps
<1>2. LocksHeld'
  BY DEF LocksHeld, LogTypeOK, Appending
<1>3. CacheSound'
  BY GrowthKeepsCaches
<1>e. AllUpTo(cur[o])'
  BY <1>b, <1>c, <1>d, LineTypes DEF AllUpTo, AllBelow
<1>4. Position'
  BY <1>0, <1>e DEF MutualExclusion, Appending, Position, LogTypeOK
<1>5. Filled' /\ NotEndedHasLine'
  BY <1>a, <1>b DEF Filled, NotEndedHasLine, LogTypeOK
<1>6. SeqIncreasing'
  BY <1>b, <1>c, <1>d DEF SeqIncreasing, AllBelow
<1> QED
  BY <1>1, <1>2, <1>3, <1>4, <1>5, <1>6
-----------------------------------------------------------------------------
(* The pages only read.                                                    *)
LEMMA ReadingInv ==
    ASSUME IInv, UNCHANGED <<disk, old, locks, pc, late, object>>
    PROVE  IInv'
<1> USE DEF IInv, disk, locks, object
<1>1. LogTypeOK'
  BY DEF LogTypeOK
<1>2. LocksHeld'
  BY DEF LocksHeld
<1>3. CacheSound'
  BY DEF CacheSound, AllUpTo, Whole
<1>4. Position'
  BY DEF Position, AllUpTo, AllBelow, Whole, Last
<1>5. Filled' /\ NotEndedHasLine'
  BY DEF Filled, NotEndedHasLine
<1>6. SeqIncreasing'
  BY DEF SeqIncreasing, Whole
<1> QED
  BY <1>1, <1>2, <1>3, <1>4, <1>5, <1>6

LEMMA NextInv ==
    ASSUME SafeFailures, IInv, [Next]_vars
    PROVE  IInv'
<1>1. CASE \E s \in Streams : Load(s) \/ Poll(s) \/ Drop(s)
  BY <1>1, ReadingInv DEF Load, Poll, Drop
<1>2. CASE UNCHANGED vars
  BY <1>2, ReadingInv DEF vars
<1>3. CASE \E p \in Processes : Kill(p)
  BY <1>3, KillInv
<1>4. ASSUME NEW o \in Objects,
             \/ New(o) \/ TakeLock(o) \/ TakeFlock(o) \/ Number(o)
             \/ WritePad(o) \/ WriteHead(o) \/ WriteTail(o) \/ WriteNewline(o)
             \/ Return(o) \/ Fail(o) \/ CloseFailed(o)
      PROVE  IInv'
  BY <1>4, NewInv, TakeLockInv, TakeFlockInv, NumberInv, WritePadInv, WriteHeadInv,
     WriteTailInv, WriteNewlineInv, ReturnInv, FailInv, CloseFailedInv
<1> QED
  BY <1>1, <1>2, <1>3, <1>4 DEF Next

LEMMA InductiveInvariant ==
    ASSUME SafeFailures
    PROVE  Spec => []IInv
<1>1. Init => IInv
  BY InitInv
<1>2. IInv /\ [Next]_vars => IInv'
  BY NextInv
<1> QED
  BY <1>1, <1>2, PTL DEF Spec

(* Every variable of the log and of its writers keeps its type, under any  *)
(* interleaving of appends, failures and kills (class Ledger).             *)
THEOREM LogTypeCorrect ==
    ASSUME SafeFailures
    PROVE  Spec => []LogTypeOK
<1>1. IInv => LogTypeOK
  BY DEF IInv
<1> QED
  BY InductiveInvariant, <1>1, PTL

(* Ledger.append_many numbers every record above every readable record     *)
(* before it, whichever objects and processes write and whoever is killed. *)
THEOREM SeqIncreasingTheorem ==
    ASSUME SafeFailures
    PROVE  Spec => []SeqIncreasing
<1>1. IInv => SeqIncreasing
  BY DEF IInv
<1> QED
  BY InductiveInvariant, <1>1, PTL

(* A step of the invariant's states leaves every readable line as it was:  *)
(* heads go to a file that ends in a newline, tails complete a torn line.  *)
LEMMA ReadableStays ==
    ASSUME IInv, [Next]_vars, NEW i \in DOMAIN file, Whole(i)
    PROVE  i \in DOMAIN file' /\ file'[i] = file[i]
<1>1. CASE UNCHANGED file
  BY <1>1
<1>2. ASSUME NEW o \in Objects, WriteHead(o)
      PROVE  i \in DOMAIN file' /\ file'[i] = file[i]
  <2>1. file \in Seq(Line) /\ file' = Append(file, [seq |-> cur[o], by |-> o, state |-> "torn"])
    BY <1>2 DEF IInv, LogTypeOK, Position, WriteHead, Piece, PutHead
  <2> QED
    BY <2>1
<1>3. ASSUME NEW o \in Objects, WriteTail(o)
      PROVE  i \in DOMAIN file' /\ file'[i] = file[i]
  <2>1. /\ file \in Seq(Line) /\ Len(file) \in DOMAIN file
        /\ file[Len(file)].state = "torn"
        /\ file' = [file EXCEPT ![Len(file)].state = "whole"]
    BY <1>3 DEF IInv, LogTypeOK, Position, WriteTail, Piece, PutTail, Last
  <2>2. i # Len(file)
    BY <2>1 DEF Whole
  <2> QED
    BY <2>1, <2>2
<1> QED
  BY <1>1, <1>2, <1>3
     DEF Next, vars, disk, New, TakeLock, TakeFlock, Number, WritePad, WriteNewline, Piece,
         PutNewline, Return, Fail, CloseFailed, Kill, Load, Poll, Drop

(* What could be read once can be read for ever (the newline padding of    *)
(* append_many): no crash and no later writer takes a record back.         *)
THEOREM NeverUnreadTheorem ==
    ASSUME SafeFailures
    PROVE  Spec => NeverUnread
<1>1. IInv /\ [Next]_vars =>
        [\A i \in DOMAIN file : Whole(i) => i \in DOMAIN file' /\ file'[i] = file[i]]_vars
  BY ReadableStays
<1> QED
  BY InductiveInvariant, <1>1, PTL DEF Spec, NeverUnread
-----------------------------------------------------------------------------
(* The record numbered n by o is in the file and can be read.              *)
Has(o, n) == \E i \in DOMAIN file : Whole(i) /\ file[i].seq = n /\ file[i].by = o

(* Each record of a batch has landed or is still to be written: the one in *)
(* hand and those behind it.  "sync" and "idle" leave nothing to write.    *)
ToWrite(o, n) ==
    /\ n <= cseq[o]
    /\ \/ pc[o] \in {"pad", "head", "tail"} /\ cur[o] <= n
       \/ pc[o] = "newline" /\ cur[o] < n

Landed == \A o \in Objects : \A n \in written[o] : Has(o, n) \/ ToWrite(o, n)

LEMMA HasStays ==
    ASSUME IInv, [Next]_vars, NEW o \in Objects, NEW n \in Nat, Has(o, n)
    PROVE  Has(o, n)'
<1> PICK i \in DOMAIN file : Whole(i) /\ file[i].seq = n /\ file[i].by = o
  BY DEF Has
<1>1. i \in DOMAIN file' /\ file'[i] = file[i]
  BY ReadableStays
<1> QED
  BY <1>1 DEF Has, Whole

(* The tail of the record in hand makes it readable.                       *)
LEMMA TailLands ==
    ASSUME IInv, NEW o \in Objects, WriteTail(o)
    PROVE  Has(o, cur[o])'
<1> DEFINE n == Len(file)
<1>1. /\ file \in Seq(Line) /\ n \in DOMAIN file
      /\ file[n] = [seq |-> cur[o], by |-> o, state |-> "torn"]
      /\ file' = [file EXCEPT ![n].state = "whole"]
      /\ cur' = cur
  BY DEF IInv, LogTypeOK, Position, WriteTail, Piece, PutTail, Last
<1>2. n \in DOMAIN file' /\ file'[n] = [seq |-> cur[o], by |-> o, state |-> "whole"]
  BY <1>1
<1> HIDE DEF n
<1> QED
  BY <1>1, <1>2 DEF Has, Whole

(* Every step keeps it: a record of any batch q is writing or has written. *)
LEMMA LandedStep ==
    ASSUME IInv, Landed, [Next]_vars
    PROVE  Landed'
<1> SUFFICES ASSUME NEW q \in Objects, NEW n \in written'[q]
             PROVE  Has(q, n)' \/ ToWrite(q, n)'
  BY DEF Landed
<1> USE DEF disk, locks, object, pages
<1>t. LogTypeOK
  BY DEF IInv
(* A step that leaves q's batch and its place in it alone.                 *)
<1>a. ASSUME n \in written[q], pc'[q] = pc[q], cur'[q] = cur[q], cseq'[q] = cseq[q]
      PROVE  Has(q, n)' \/ ToWrite(q, n)'
  <2>1. n \in Nat /\ (Has(q, n) \/ ToWrite(q, n))
    BY <1>a, <1>t DEF Landed, LogTypeOK
  <2>2. CASE Has(q, n)
    BY <2>1, <2>2, HasStays
  <2>3. CASE ToWrite(q, n)
    BY <1>a, <2>3 DEF ToWrite
  <2> QED
    BY <2>1, <2>2, <2>3
(* A step that moves q, when what was to be written still is or has landed. *)
<1>b. ASSUME n \in written[q], ToWrite(q, n) => Has(q, n)' \/ ToWrite(q, n)'
      PROVE  Has(q, n)' \/ ToWrite(q, n)'
  <2>1. n \in Nat /\ (Has(q, n) \/ ToWrite(q, n))
    BY <1>b, <1>t DEF Landed, LogTypeOK
  <2> QED
    BY <1>b, <2>1, HasStays
<1>1. CASE UNCHANGED vars \/ \E s \in Streams : Load(s) \/ Poll(s) \/ Drop(s)
  BY <1>1, <1>a DEF vars, Load, Poll, Drop
<1>2. CASE \E p \in Processes : Kill(p)
  BY <1>2, <1>a DEF Kill
<1>3. ASSUME NEW o \in Objects, New(o) \/ CloseFailed(o)
      PROVE  Has(q, n)' \/ ToWrite(q, n)'
  BY <1>3, <1>a, <1>t DEF New, CloseFailed, LogTypeOK
<1>4. ASSUME NEW o \in Objects, TakeLock(o) \/ TakeFlock(o) \/ Return(o) \/ Fail(o)
      PROVE  Has(q, n)' \/ ToWrite(q, n)'
  <2>1. n \in written[q]
    BY <1>4 DEF TakeLock, TakeFlock, Return, Fail
  <2>2. ToWrite(q, n) => ToWrite(q, n)'
    BY <1>4, <1>t DEF TakeLock, TakeFlock, Return, Fail, ToWrite, LogTypeOK
  <2> QED
    BY <1>b, <2>1, <2>2
<1>5. ASSUME NEW o \in Objects, Number(o)
      PROVE  Has(q, n)' \/ ToWrite(q, n)'
  <2> PICK base \in 0..MaxSeq, k \in 1..MaxBatch :
             /\ cur' = [cur EXCEPT ![o] = base + 1]
             /\ cseq' = [cseq EXCEPT ![o] = base + k]
             /\ written' = [written EXCEPT ![o] = (base + 1)..(base + k)]
    BY <1>5 DEF Number
  <2>1. pc' = [pc EXCEPT ![o] = IF ended THEN "head" ELSE "pad"]
    BY <1>5 DEF Number, FirstPiece
  <2>2. CASE q = o
    BY <2>1, <2>2, <1>t, LedgerAssumption DEF ToWrite, LogTypeOK
  <2>3. CASE q # o
    BY <2>1, <2>3, <1>a, <1>t DEF LogTypeOK
  <2> QED
    BY <2>2, <2>3
<1>6. ASSUME NEW o \in Objects, WritePad(o) \/ WriteHead(o)
      PROVE  Has(q, n)' \/ ToWrite(q, n)'
  <2>1. n \in written[q]
    BY <1>6 DEF WritePad, WriteHead, Piece
  <2>2. ToWrite(q, n) => ToWrite(q, n)'
    BY <1>6, <1>t DEF WritePad, WriteHead, Piece, ToWrite, LogTypeOK
  <2> QED
    BY <1>b, <2>1, <2>2
<1>7. ASSUME NEW o \in Objects, WriteTail(o)
      PROVE  Has(q, n)' \/ ToWrite(q, n)'
  <2>1. /\ n \in written[q] /\ pc[o] = "tail" /\ pc' = [pc EXCEPT ![o] = "newline"]
        /\ cur' = cur /\ cseq' = cseq
    BY <1>7 DEF WriteTail, Piece
  <2>2. Has(o, cur[o])'
    BY <1>7, TailLands
  <2>3. CASE q = o /\ n = cur[o]
    BY <2>1, <2>2, <2>3
  <2>4. CASE q = o /\ n # cur[o]
    <3>1. n \in Nat /\ cur[q] \in Nat
      BY <2>1, <1>t DEF LogTypeOK
    <3>2. ToWrite(q, n) => ToWrite(q, n)'
      BY <2>1, <2>4, <3>1, <1>t DEF ToWrite, LogTypeOK
    <3> QED
      BY <1>b, <2>1, <3>2
  <2>5. CASE q # o
    BY <2>1, <2>5, <1>a, <1>t DEF LogTypeOK
  <2> QED
    BY <2>3, <2>4, <2>5
<1>8. ASSUME NEW o \in Objects, WriteNewline(o)
      PROVE  Has(q, n)' \/ ToWrite(q, n)'
  <2>1. n \in written[q] /\ n \in Nat /\ cur[o] \in Nat /\ cseq[o] \in Int
    BY <1>8, <1>t DEF WriteNewline, Piece, LogTypeOK
  <2>2. ToWrite(q, n) => ToWrite(q, n)'
    BY <1>8, <2>1, <1>t DEF WriteNewline, Piece, ToWrite, LogTypeOK
  <2> QED
    BY <1>b, <2>1, <2>2
<1> QED
  BY <1>1, <1>2, <1>3, <1>4, <1>5, <1>6, <1>7, <1>8 DEF Next

(* An append that returned has put all its records in the file for good    *)
(* (append_many reports them only after flush and fsync): no other writer, *)
(* kill or failure of another object takes one of them away.               *)
THEOREM ReturnedIsReadableTheorem ==
    ASSUME SafeFailures
    PROVE  Spec => []ReturnedIsReadable
<1>1. Init => Landed
  BY DEF Init, Landed
<1>2. IInv /\ Landed /\ [Next]_vars => Landed'
  BY LandedStep
<1>3. Landed => ReturnedIsReadable
  BY DEF Landed, ToWrite, Has, ReturnedIsReadable
<1> QED
  BY InductiveInvariant, <1>1, <1>2, <1>3, PTL DEF Spec
-----------------------------------------------------------------------------
(***************************************************************************)
(* Lemmas about Pick: the places in S, ranked, are numbered 1 to their     *)
(* number, without a gap and in order.                                     *)
(***************************************************************************)
LEMMA PlacesFinite ==
    ASSUME NEW n \in Nat, NEW S \in SUBSET (1..n)
    PROVE  /\ IsFiniteSet(S) /\ Cardinality(S) \in Nat
           /\ \A T \in SUBSET S : IsFiniteSet(T) /\ Cardinality(T) \in Nat /\ Cardinality(T) <= Cardinality(S)
<1>1. IsFiniteSet(1..n)
  BY FS_Interval
<1>2. IsFiniteSet(S)
  BY <1>1, FS_Subset
<1> QED
  BY <1>2, FS_Subset, FS_CardinalityType

LEMMA RankType ==
    ASSUME NEW n \in Nat, NEW S \in SUBSET (1..n), NEW i \in S
    PROVE  Rank(S, i) \in 1..Cardinality(S)
<1> DEFINE T == {j \in S : j <= i}
<1>1. T \in SUBSET S /\ i \in T
  OBVIOUS
<1>2. IsFiniteSet(T) /\ Cardinality(T) \in Nat /\ Cardinality(T) <= Cardinality(S) /\ Cardinality(S) \in Nat
  BY <1>1, PlacesFinite
<1>3. Cardinality(T) # 0
  BY <1>1, <1>2, FS_EmptySet
<1> HIDE DEF T
<1>4. Cardinality(T) \in 1..Cardinality(S)
  BY <1>2, <1>3
<1> QED
  BY <1>4 DEF Rank, T

LEMMA RankOrders ==
    ASSUME NEW n \in Nat, NEW S \in SUBSET (1..n), NEW i \in S, NEW k \in S, i < k
    PROVE  Rank(S, i) < Rank(S, k)
<1> DEFINE T == {j \in S : j <= i}
           U == {j \in S : j <= k}
<1>0. i \in S /\ k \in S /\ i <= k /\ ~ (k <= i) /\ k <= k /\ \A j \in S : j <= i => j <= k
  OBVIOUS
<1>1. T \in SUBSET U /\ k \in U \ T /\ U \in SUBSET S
  BY <1>0
<1>2. IsFiniteSet(U) /\ Cardinality(U) \in Nat
  BY <1>1, PlacesFinite
<1> HIDE DEF T, U
<1>3. Cardinality(T) <= Cardinality(U) /\ Cardinality(T) # Cardinality(U) /\ IsFiniteSet(T)
  BY <1>1, <1>2, FS_Subset
<1>4. Cardinality(T) \in Nat
  BY <1>3, FS_CardinalityType
<1>5. Cardinality(T) < Cardinality(U)
  BY <1>2, <1>3, <1>4
<1> QED
  BY <1>5 DEF Rank, T, U

(* The place of rank r, for every r.                                       *)
LEMMA RankOnto ==
    ASSUME NEW n \in Nat, NEW S \in SUBSET (1..n), NEW r \in 1..Cardinality(S)
    PROVE  \E i \in S : Rank(S, i) = r /\ \A k \in S : Rank(S, k) = r => k = i
<1> DEFINE f == [i \in S |-> Rank(S, i)]
<1>1. f \in [S -> 1..Cardinality(S)]
  BY RankType
<1>2. \A i, k \in S : f[i] = f[k] => i = k
  <2> SUFFICES ASSUME NEW i \in S, NEW k \in S, f[i] = f[k], i # k
               PROVE  FALSE
    OBVIOUS
  <2>1. Rank(S, i) = Rank(S, k) /\ Rank(S, i) \in 1..Cardinality(S) /\ Cardinality(S) \in Nat
    BY RankType, PlacesFinite
  <2>2. i < k \/ k < i
    OBVIOUS
  <2>3. Rank(S, i) < Rank(S, k) \/ Rank(S, k) < Rank(S, i)
    BY <2>2, RankOrders
  <2> QED
    BY <2>1, <2>3
<1> HIDE DEF f
<1>3. f \in Injection(S, 1..Cardinality(S))
  BY <1>1, <1>2 DEF Injection, IsInjective
<1>4. Cardinality(S) \in Nat
  BY PlacesFinite
<1>5. IsFiniteSet(1..Cardinality(S)) /\ Cardinality(1..Cardinality(S)) = Cardinality(S)
  BY <1>4, FS_Interval
<1>6. f \in Surjection(S, 1..Cardinality(S))
  BY <1>3, <1>5, FS_Injection
<1>7. PICK i \in S : f[i] = r
  BY <1>6 DEF Surjection
<1> QED
  BY <1>2, <1>7 DEF f
(* What Pick takes, and where it puts it.                                  *)
LEMMA PickType ==
    ASSUME NEW X, NEW s \in Seq(X), NEW S \in SUBSET (1..Len(s))
    PROVE  /\ Pick(s, S) \in Seq(X)
           /\ Len(Pick(s, S)) = Cardinality(S) /\ Cardinality(S) \in Nat
           /\ DOMAIN Pick(s, S) = 1..Cardinality(S)
           /\ \A i \in S : Rank(S, i) \in 1..Cardinality(S) /\ Pick(s, S)[Rank(S, i)] = s[i]
           /\ \A r \in 1..Cardinality(S) : \E i \in S : Rank(S, i) = r /\ Pick(s, S)[r] = s[i]
<1> DEFINE c == Cardinality(S)
           p == Pick(s, S)
<1>0. Len(s) \in Nat
  OBVIOUS
<1>1. c \in Nat /\ Len(s) \in Nat
  BY <1>0, PlacesFinite
<1>2. \A i \in S : Rank(S, i) \in 1..c
  BY <1>1, RankType
<1>3. \A r \in 1..c : \E i \in S : Rank(S, i) = r /\ p[r] = s[i]
  <2> SUFFICES ASSUME NEW r \in 1..c
               PROVE  \E i \in S : Rank(S, i) = r /\ p[r] = s[i]
    OBVIOUS
  <2>1. \E i \in S : Rank(S, i) = r
    BY <1>1, RankOnto
  <2>2. p[r] = s[CHOOSE i \in S : Rank(S, i) = r]
    BY DEF Pick
  <2> QED
    BY <2>1, <2>2
<1>4. \A i \in S : p[Rank(S, i)] = s[i]
  <2> SUFFICES ASSUME NEW i \in S PROVE p[Rank(S, i)] = s[i]
    OBVIOUS
  <2> DEFINE r == Rank(S, i)
  <2>1. r \in 1..c
    BY <1>2
  <2>2. PICK k \in S : Rank(S, k) = r /\ p[r] = s[k]
    BY <1>3, <2>1
  <2>3. k = i
    BY <1>1, <2>1, <2>2, RankOnto
  <2> QED
    BY <2>2, <2>3
<1>5. p \in [1..c -> X]
  <2>1. \A r \in 1..c : p[r] \in X
    BY <1>3
  <2>2. p = [r \in 1..c |-> p[r]]
    BY DEF Pick
  <2> HIDE DEF p, c
  <2> QED
    BY <2>1, <2>2
<1> HIDE DEF p, c
<1>6. p \in Seq(X) /\ Len(p) = c /\ DOMAIN p = 1..c
  BY <1>1, <1>5
<1> QED
  BY <1>1, <1>2, <1>3, <1>4, <1>6 DEF p, c

(* Only the picked places count.                                           *)
LEMMA PickSame ==
    ASSUME NEW s, NEW t, NEW n \in Nat, NEW S \in SUBSET (1..n), \A i \in S : s[i] = t[i]
    PROVE  Pick(s, S) = Pick(t, S)
<1> DEFINE place(r) == CHOOSE i \in S : Rank(S, i) = r
<1>1. \A r \in 1..Cardinality(S) : \E i \in S : Rank(S, i) = r
  BY RankOnto
<1>2. \A r \in 1..Cardinality(S) : place(r) \in S
  BY <1>1
<1>3. /\ Pick(s, S) = [r \in 1..Cardinality(S) |-> s[place(r)]]
      /\ Pick(t, S) = [r \in 1..Cardinality(S) |-> t[place(r)]]
  BY DEF Pick
<1> HIDE DEF place
<1>4. \A r \in 1..Cardinality(S) : s[place(r)] = t[place(r)]
  BY <1>2
<1> QED
  BY <1>3, <1>4

(* A place behind the others adds its element at the end.                  *)
LEMMA PickGrows ==
    ASSUME NEW X, NEW s \in Seq(X), NEW S \in SUBSET (1..Len(s)), NEW m \in 1..Len(s),
           \A i \in S : i < m
    PROVE  Pick(s, S \cup {m}) = Append(Pick(s, S), s[m])
<1> DEFINE c == Cardinality(S)
           U == S \cup {m}
           p == Pick(s, S)
           q == Pick(s, U)
<1>1. U \in SUBSET (1..Len(s)) /\ m \notin S /\ Len(s) \in Nat
  OBVIOUS
<1>2. IsFiniteSet(S) /\ c \in Nat /\ Cardinality(U) = c + 1
  BY <1>1, PlacesFinite, FS_AddElement
<1>3. p \in Seq(X) /\ Len(p) = c /\ q \in Seq(X) /\ Len(q) = c + 1
  BY <1>1, <1>2, PickType
<1>4. \A i \in S : Rank(U, i) = Rank(S, i)
  <2> SUFFICES ASSUME NEW i \in S PROVE {j \in U : j <= i} = {j \in S : j <= i}
    BY DEF Rank
  <2>1. i < m /\ i \in Nat /\ m \in Nat
    OBVIOUS
  <2> QED
    BY <2>1
<1>5. Rank(U, m) = c + 1
  <2>0. \A j \in U : j <= m
    OBVIOUS
  <2>1. {j \in U : j <= m} = U
    BY <2>0
  <2> QED
    BY <1>2, <2>1 DEF Rank
<1>6. q[c + 1] = s[m]
  <2>1. m \in U
    OBVIOUS
  <2> QED
    BY <1>1, <1>5, <2>1, PickType
<1>7. ASSUME NEW r \in 1..c PROVE q[r] = p[r]
  <2>1. PICK i \in S : Rank(S, i) = r /\ p[r] = s[i]
    BY PickType
  <2>2. q[Rank(U, i)] = s[i]
    BY <1>1, PickType
  <2> QED
    BY <1>4, <2>1, <2>2
<1>8. s[m] \in X
  OBVIOUS
<1> HIDE DEF c, p, q, U
<1>9. q = Append(p, s[m])
  BY <1>2, <1>3, <1>6, <1>7, <1>8
<1> QED
  BY <1>9 DEF p, q, U

(* All places behind the first a: the rest of the sequence.                *)
LEMMA PickTail ==
    ASSUME NEW X, NEW s \in Seq(X), NEW a \in 0..Len(s)
    PROVE  Pick(s, (a + 1)..Len(s)) = SubSeq(s, a + 1, Len(s))
<1> DEFINE n == Len(s)
           S == (a + 1)..n
           p == Pick(s, S)
           q == SubSeq(s, a + 1, n)
<1>1. n \in Nat /\ a \in Nat /\ a <= n /\ S \in SUBSET (1..n)
  OBVIOUS
<1>2. Cardinality(S) = n - a
  <2>1. Cardinality(S) = IF a + 1 > n THEN 0 ELSE n - (a + 1) + 1
    <3>1. a + 1 \in Int /\ n \in Int
      BY <1>1
    <3> QED
      BY <3>1, FS_Interval
  <2> QED
    BY <1>1, <2>1
<1>3. p \in Seq(X) /\ Len(p) = n - a
  BY <1>1, <1>2, PickType
<1>4. ASSUME NEW i \in S PROVE Rank(S, i) = i - a
  <2>1. {j \in S : j <= i} = (a + 1)..i
    BY <1>1
  <2>2. Cardinality((a + 1)..i) = i - a
    BY <1>1, FS_Interval
  <2> QED
    BY <2>1, <2>2 DEF Rank
<1>5. ASSUME NEW r \in 1..(n - a) PROVE p[r] = s[r + a]
  <2>1. r + a \in S
    BY <1>1
  <2>2. Rank(S, r + a) = r
    BY <1>1, <1>4, <2>1
  <2> QED
    BY <1>1, <2>1, <2>2, PickType
<1>6. q \in Seq(X) /\ Len(q) = n - a /\ \A r \in 1..(n - a) : q[r] = s[r + a]
  BY <1>1
<1> HIDE DEF n, S, p, q
<1>7. p = q
  BY <1>1, <1>3, <1>5, <1>6
<1> QED
  BY <1>7 DEF p, q, S, n
-----------------------------------------------------------------------------
(***************************************************************************)
(* What can be read grows at its end, above all before it, and pages draw  *)
(* a growing prefix of it: the file implements the abstract log.           *)
(***************************************************************************)
Seqs == [i \in DOMAIN file |-> file[i].seq]

LEMMA ReadableType ==
    ASSUME LogTypeOK
    PROVE  /\ Seqs \in Seq(Nat) /\ Len(Seqs) = Len(file) /\ Len(file) \in Nat
           /\ WholeLines \in SUBSET (1..Len(file))
           /\ Readable = Pick(Seqs, WholeLines)
           /\ Readable \in Seq(Nat)
           /\ \A m \in DOMAIN Readable : Readable[m] \in ReadableSeqs
           /\ \A n \in ReadableSeqs : \E m \in DOMAIN Readable : Readable[m] = n
<1>1. file \in Seq(Line) /\ Len(file) \in Nat /\ DOMAIN file = 1..Len(file)
  BY DEF LogTypeOK
<1>2. \A i \in DOMAIN file : file[i].seq \in Nat
  BY LineTypes
<1>3. Seqs \in Seq(Nat) /\ Len(Seqs) = Len(file) /\ \A i \in DOMAIN file : Seqs[i] = file[i].seq
  BY <1>1, <1>2 DEF Seqs
<1>4. WholeLines \in SUBSET (1..Len(file))
  BY <1>1 DEF WholeLines
<1>5. Readable = Pick(Seqs, WholeLines)
  BY DEF Readable, Seqs
<1>6. ReadableSeqs = {file[i].seq : i \in WholeLines}
  BY DEF ReadableSeqs
<1>7. WholeLines \in SUBSET (1..Len(Seqs)) /\ WholeLines \subseteq DOMAIN file
  BY <1>1, <1>3, <1>4
<1>8. /\ Readable \in Seq(Nat) /\ DOMAIN Readable = 1..Cardinality(WholeLines)
      /\ \A i \in WholeLines : Rank(WholeLines, i) \in DOMAIN Readable
                               /\ Readable[Rank(WholeLines, i)] = file[i].seq
      /\ \A m \in DOMAIN Readable : \E i \in WholeLines : Readable[m] = file[i].seq
  <2>1. /\ Pick(Seqs, WholeLines) \in Seq(Nat)
        /\ DOMAIN Pick(Seqs, WholeLines) = 1..Cardinality(WholeLines)
        /\ \A i \in WholeLines : /\ Rank(WholeLines, i) \in 1..Cardinality(WholeLines)
                                 /\ Pick(Seqs, WholeLines)[Rank(WholeLines, i)] = Seqs[i]
        /\ \A m \in 1..Cardinality(WholeLines) :
              \E i \in WholeLines : Pick(Seqs, WholeLines)[m] = Seqs[i]
    BY <1>3, <1>7, PickType
  <2> DEFINE p == Pick(Seqs, WholeLines)
             c == Cardinality(WholeLines)
  <2>2. \A i \in WholeLines : Seqs[i] = file[i].seq
    BY <1>3, <1>7
  <2>3. p = Readable
    BY <1>5
  <2> HIDE DEF p, c
  <2>4. /\ Readable \in Seq(Nat) /\ DOMAIN Readable = 1..c
        /\ \A i \in WholeLines : Rank(WholeLines, i) \in 1..c /\ Readable[Rank(WholeLines, i)] = Seqs[i]
        /\ \A m \in 1..c : \E i \in WholeLines : Readable[m] = Seqs[i]
    BY <2>1, <2>3 DEF p, c
  <2> QED
    BY <2>2, <2>4 DEF c
<1>9. \A m \in DOMAIN Readable : Readable[m] \in ReadableSeqs
  BY <1>6, <1>8
<1>10. ASSUME NEW n \in ReadableSeqs PROVE \E m \in DOMAIN Readable : Readable[m] = n
  <2>1. PICK i \in WholeLines : n = file[i].seq
    BY <1>6
  <2> QED
    BY <1>8, <2>1
<1>11. Seqs \in Seq(Nat) /\ Len(Seqs) = Len(file) /\ Len(file) \in Nat
  BY <1>1, <1>3
<1> QED
  BY ONLY <1>4, <1>5, <1>8, <1>9, <1>10, <1>11

(* A step of the log adds at most one record, above all there is.          *)
Added(n) ==
    /\ n \in Nat \ {0}
    /\ Readable' = Append(Readable, n)
    /\ \A m \in DOMAIN Readable : Readable[m] < n

LEMMA ReadableSame ==
    ASSUME UNCHANGED file
    PROVE  Readable' = Readable /\ ReadableSeqs' = ReadableSeqs
BY DEF Readable, WholeLines, ReadableSeqs, Whole

(* A head is not readable.                                                 *)
LEMMA HeadAddsNothing ==
    ASSUME IInv, IInv', NEW o \in Objects, WriteHead(o)
    PROVE  Readable' = Readable
<1>1. /\ file \in Seq(Line) /\ Len(file) \in Nat
      /\ file' = Append(file, [seq |-> cur[o], by |-> o, state |-> "torn"])
  BY DEF IInv, LogTypeOK, Position, WriteHead, Piece, PutHead
<1>2. /\ DOMAIN file' = DOMAIN file \cup {Len(file) + 1}
      /\ \A i \in DOMAIN file : file'[i] = file[i]
      /\ file'[Len(file) + 1].state = "torn"
  BY <1>1
<1>3. WholeLines' = WholeLines
  BY <1>2 DEF WholeLines, Whole
<1>4. WholeLines \in SUBSET (1..Len(file)) /\ \A i \in WholeLines : Seqs'[i] = Seqs[i]
  <2>1. WholeLines \in SUBSET (1..Len(file))
    BY ReadableType DEF IInv
  <2>2. \A i \in DOMAIN file : Seqs[i] = file[i].seq /\ Seqs'[i] = file'[i].seq
    BY <1>2 DEF Seqs
  <2> QED
    BY <1>1, <1>2, <2>1, <2>2
<1>5. Pick(Seqs, WholeLines) = Pick(Seqs', WholeLines)
  BY <1>1, <1>4, PickSame
<1>6. Readable = Pick(Seqs, WholeLines)
  BY ReadableType DEF IInv
<1>7. Readable' = Pick(Seqs', WholeLines')
  BY DEF Readable, Seqs
<1> QED
  BY <1>3, <1>5, <1>6, <1>7

(* A tail makes the last line readable.                                    *)
LEMMA TailAdds ==
    ASSUME IInv, IInv', NEW o \in Objects, WriteTail(o)
    PROVE  Added(cur[o])
<1> DEFINE n == Len(file)
<1>1. /\ file \in Seq(Line) /\ n \in Nat /\ n \in DOMAIN file /\ DOMAIN file = 1..n
      /\ file[n] = [seq |-> cur[o], by |-> o, state |-> "torn"]
      /\ file' = [file EXCEPT ![n].state = "whole"]
      /\ cur[o] \in Nat /\ cur[o] > 0 /\ AllBelow(cur[o])
  BY DEF IInv, LogTypeOK, Position, WriteTail, Piece, PutTail, Last
<1>2. /\ DOMAIN file' = 1..n
      /\ \A i \in DOMAIN file : i # n => file'[i] = file[i]
      /\ file'[n].seq = cur[o] /\ file'[n].state = "whole" /\ file[n].seq = cur[o]
  BY <1>1
<1>3. WholeLines' = WholeLines \cup {n} /\ n \notin WholeLines
  BY <1>1, <1>2 DEF WholeLines, Whole
<1>4. /\ Seqs \in Seq(Nat) /\ Len(Seqs) = n /\ WholeLines \in SUBSET (1..n)
      /\ Readable = Pick(Seqs, WholeLines)
      /\ \A m \in DOMAIN Readable : Readable[m] \in ReadableSeqs
  BY ReadableType DEF IInv
<1>5. Seqs' = Seqs /\ Seqs[n] = cur[o]
  BY <1>1, <1>2 DEF Seqs
<1>6. Readable' = Pick(Seqs', WholeLines')
  BY DEF Readable, Seqs
<1>7. ReadableSeqs = {file[i].seq : i \in WholeLines} /\ WholeLines \subseteq DOMAIN file
      /\ \A i \in WholeLines : file[i].seq < cur[o]
  BY <1>1 DEF ReadableSeqs, WholeLines, AllBelow
<1> HIDE DEF n
<1>8. \A i \in WholeLines : i < n
  BY <1>1, <1>3, <1>4
<1>9. n \in 1..Len(Seqs) /\ WholeLines \in SUBSET (1..Len(Seqs))
  BY <1>1, <1>4
<1>10. Pick(Seqs, WholeLines \cup {n}) = Append(Pick(Seqs, WholeLines), Seqs[n])
  BY <1>4, <1>8, <1>9, PickGrows
<1>11. Readable' = Append(Readable, cur[o])
  BY <1>3, <1>4, <1>5, <1>6, <1>10
<1>12. \A m \in DOMAIN Readable : Readable[m] < cur[o]
  <2> SUFFICES ASSUME NEW m \in DOMAIN Readable PROVE Readable[m] < cur[o]
    OBVIOUS
  <2>1. Readable[m] \in {file[i].seq : i \in WholeLines}
    BY <1>4, <1>7
  <2>2. PICK i \in WholeLines : Readable[m] = file[i].seq
    BY <2>1
  <2> QED
    BY <1>7, <2>2
<1>13. cur[o] \in Nat \ {0}
  BY <1>1
<1> QED
  BY <1>11, <1>12, <1>13 DEF Added

LEMMA LogStep ==
    ASSUME SafeFailures, IInv, [Next]_vars
    PROVE  \/ Readable' = Readable
           \/ (\E n \in Nat : Added(n)) /\ UNCHANGED pages
<1>1. IInv'
  BY NextInv
<1>2. CASE UNCHANGED file
  BY <1>2, ReadableSame
<1>3. ASSUME NEW o \in Objects, WriteHead(o)
      PROVE  Readable' = Readable
  BY <1>1, <1>3, HeadAddsNothing
<1>4. ASSUME NEW o \in Objects, WriteTail(o)
      PROVE  (\E n \in Nat : Added(n)) /\ UNCHANGED pages
  <2>1. Added(cur[o]) /\ cur[o] \in Nat
    BY <1>1, <1>4, TailAdds DEF Added
  <2>2. UNCHANGED pages
    BY <1>4 DEF WriteTail, Piece, pages
  <2> QED
    BY <2>1, <2>2
<1> QED
  BY <1>2, <1>3, <1>4
     DEF Next, vars, disk, New, TakeLock, TakeFlock, Number, WritePad, WriteNewline, Piece,
         PutNewline, Return, Fail, CloseFailed, Kill, Load, Poll, Drop
-----------------------------------------------------------------------------
LEMMA SeqElement ==
    ASSUME NEW X, NEW s \in Seq(X), NEW i \in DOMAIN s
    PROVE  s[i] \in X
OBVIOUS

LEMMA SeqDomain ==
    ASSUME NEW X, NEW s \in Seq(X)
    PROVE  Len(s) \in Nat /\ DOMAIN s = 1..Len(s)
OBVIOUS

LEMMA Concat ==
    ASSUME NEW X, NEW s \in Seq(X), NEW t \in Seq(X)
    PROVE  /\ s \o t \in Seq(X) /\ Len(s \o t) = Len(s) + Len(t)
           /\ \A i \in 1..(Len(s) + Len(t)) :
                 (s \o t)[i] = IF i <= Len(s) THEN s[i] ELSE t[i - Len(s)]
OBVIOUS

(* A page has drawn the readable records up to a place.  Its cursor is the *)
(* highest of them, and what is behind that place is higher and in order:  *)
(* it was written after the page loaded.                                   *)
Follows(s) ==
    /\ after[s] = -1 => shown[s] = <<>>
    /\ after[s] # -1 =>
         /\ Len(shown[s]) <= Len(Readable)
         /\ \A i \in DOMAIN shown[s] : shown[s][i] = Readable[i] /\ shown[s][i] <= after[s]
         /\ after[s] = 0 \/ \E i \in DOMAIN shown[s] : shown[s][i] = after[s]
         /\ \A i \in DOMAIN Readable : i > Len(shown[s]) =>
              /\ after[s] < Readable[i]
              /\ \A j \in DOMAIN Readable : i < j => Readable[i] < Readable[j]

PInv == PagesTypeOK /\ \A s \in Streams : Follows(s)

LEMMA FollowsAdded ==
    ASSUME LogTypeOK, PInv, NEW n \in Nat, Added(n), UNCHANGED pages
    PROVE  PInv'
<1>1. Readable \in Seq(Nat)
  BY ReadableType
<1>2. PagesTypeOK'
  BY DEF PInv, PagesTypeOK, pages
<1>3. ASSUME NEW s \in Streams PROVE Follows(s)'
  <2>1. /\ shown'[s] = shown[s] /\ after'[s] = after[s]
        /\ shown[s] \in Seq(Nat) /\ after[s] \in Nat \cup {-1} /\ Follows(s)
    BY DEF pages, PInv, PagesTypeOK
  <2>2. CASE after[s] = -1
    BY <2>1, <2>2 DEF Follows
  <2>3. CASE after[s] # -1
    <3>1. after[s] < n
      <4>1. CASE after[s] = 0
        BY <4>1 DEF Added
      <4>2. CASE after[s] # 0
        <5>1. PICK i \in DOMAIN shown[s] : shown[s][i] = after[s]
          BY <2>1, <2>3, <4>2 DEF Follows
        <5>2. shown[s][i] = Readable[i] /\ Len(shown[s]) <= Len(Readable)
          BY <2>1, <2>3 DEF Follows
        <5>3. i \in 1..Len(shown[s]) /\ Len(shown[s]) \in Nat /\ Len(Readable) \in Nat
              /\ DOMAIN Readable = 1..Len(Readable)
          BY <2>1, <1>1, SeqDomain
        <5>4. i \in DOMAIN Readable
          BY <5>2, <5>3
        <5> QED
          BY <5>1, <5>2, <5>4 DEF Added
      <4> QED
        BY <4>1, <4>2
    <3>2. /\ Len(Readable') = Len(Readable) + 1 /\ Len(Readable) \in Nat
          /\ DOMAIN Readable' = 1..(Len(Readable) + 1) /\ DOMAIN Readable = 1..Len(Readable)
          /\ Readable'[Len(Readable) + 1] = n
          /\ \A i \in DOMAIN Readable : Readable'[i] = Readable[i] /\ Readable[i] < n
      BY <1>1 DEF Added
    <3>3. /\ Len(shown[s]) <= Len(Readable')
          /\ \A i \in DOMAIN shown[s] : shown[s][i] = Readable'[i] /\ shown[s][i] <= after[s]
      BY <2>1, <2>3, <3>2 DEF Follows
    <3>4. ASSUME NEW i \in DOMAIN Readable', i > Len(shown[s])
          PROVE  /\ after[s] < Readable'[i]
                 /\ \A j \in DOMAIN Readable' : i < j => Readable'[i] < Readable'[j]
      <4>1. CASE i \in DOMAIN Readable
        BY <2>1, <2>3, <3>2, <3>4, <4>1 DEF Follows
      <4>2. CASE i \notin DOMAIN Readable
        BY <3>1, <3>2, <4>2
      <4> QED
        BY <4>1, <4>2
    <3> QED
      BY <2>1, <2>3, <3>3, <3>4 DEF Follows
  <2> QED
    BY <2>2, <2>3
<1> QED
  BY <1>2, <1>3 DEF PInv

(* Drawing what one has not drawn puts it behind.                          *)
LEMMA DrawNew ==
    ASSUME NEW drawn \in Seq(Nat), NEW seqs \in Seq(Nat),
           \A i \in DOMAIN seqs : \A j \in DOMAIN drawn : drawn[j] # seqs[i]
    PROVE  Draw(drawn, seqs) = drawn \o seqs
<1>1. {i \in DOMAIN seqs : \A j \in DOMAIN drawn : drawn[j] # seqs[i]} = (0 + 1)..Len(seqs)
  BY DEF Draw
<1>2. Pick(seqs, (0 + 1)..Len(seqs)) = SubSeq(seqs, 0 + 1, Len(seqs))
  <2>1. 0 \in 0..Len(seqs)
    OBVIOUS
  <2> QED
    BY <2>1, PickTail
<1>3. SubSeq(seqs, 0 + 1, Len(seqs)) = seqs
  OBVIOUS
<1> QED
  BY <1>1, <1>2, <1>3 DEF Draw

LEMMA SubSeqType ==
    ASSUME NEW X, NEW s \in Seq(X), NEW a \in 0..Len(s), NEW b \in a..Len(s)
    PROVE  /\ SubSeq(s, a + 1, b) \in Seq(X) /\ Len(SubSeq(s, a + 1, b)) = b - a
           /\ DOMAIN SubSeq(s, a + 1, b) = 1..(b - a)
           /\ \A i \in 1..(b - a) : SubSeq(s, a + 1, b)[i] = s[a + i]
<1> DEFINE t == SubSeq(s, a + 1, b)
<1>1. Len(s) \in Nat /\ a \in Nat /\ b \in Nat /\ a <= b /\ b <= Len(s)
  OBVIOUS
<1>2. t \in Seq(X)
  BY <1>1
<1>3. Len(t) = b - a
  BY <1>1
<1>4. \A i \in 1..(b - a) : t[i] = s[a + i]
  BY <1>1
<1> HIDE DEF t
<1>5. DOMAIN t = 1..(b - a)
  BY <1>2, <1>3
<1> QED
  BY <1>2, <1>3, <1>4, <1>5 DEF t

LEMMA Prefix ==
    ASSUME NEW X, NEW s \in Seq(X), NEW k \in 0..Len(s)
    PROVE  /\ SubSeq(s, 1, k) \in Seq(X) /\ Len(SubSeq(s, 1, k)) = k
           /\ DOMAIN SubSeq(s, 1, k) = 1..k
           /\ \A i \in 1..k : SubSeq(s, 1, k)[i] = s[i]
           /\ SubSeq(s, 1, Len(s)) = s
OBVIOUS

LEMMA AboveIsRest ==
    ASSUME LogTypeOK, PInv, NEW s \in Streams, after[s] # -1
    PROVE  /\ Len(shown[s]) \in 0..Len(Readable) /\ Len(Readable) \in Nat
           /\ Above(after[s]) = SubSeq(Readable, Len(shown[s]) + 1, Len(Readable))
<1> DEFINE a == Len(shown[s])
<1>1. /\ Readable \in Seq(Nat) /\ shown[s] \in Seq(Nat) /\ after[s] \in Nat /\ Follows(s)
      /\ Len(Readable) \in Nat /\ a \in Nat /\ a <= Len(Readable)
      /\ DOMAIN shown[s] = 1..a /\ DOMAIN Readable = 1..Len(Readable)
  BY ReadableType DEF PInv, PagesTypeOK, Follows
<1>2. ASSUME NEW i \in DOMAIN Readable PROVE Readable[i] > after[s] <=> i > a
  <2>1. Readable[i] \in Nat
    BY <1>1
  <2>2. CASE i > a
    BY <1>1, <2>1, <2>2 DEF Follows
  <2>3. CASE ~ (i > a)
    <3>1. i \in DOMAIN shown[s]
      BY <1>1, <2>3
    <3>2. shown[s][i] = Readable[i] /\ shown[s][i] <= after[s]
      BY <1>1, <3>1 DEF Follows
    <3> QED
      <4>1. Readable[i] <= after[s]
        BY <3>2
      <4>2. ~ (Readable[i] > after[s])
        BY <1>1, <2>1, <4>1
      <4> QED
        BY <2>3, <4>2
  <2> QED
    BY <2>2, <2>3
<1> DEFINE b == Len(Readable)
<1>3. {i \in DOMAIN Readable : Readable[i] > after[s]} = (a + 1)..b
  <2> HIDE DEF a, b
  <2>1. DOMAIN Readable = 1..b /\ a \in Nat /\ b \in Nat /\ a <= b
    BY <1>1 DEF b
  <2>2. {i \in 1..b : i > a} = (a + 1)..b
    BY <2>1
  <2> QED
    BY <1>2, <2>1, <2>2
<1>4. a \in 0..Len(Readable)
  BY <1>1
<1>5. Pick(Readable, (a + 1)..Len(Readable)) = SubSeq(Readable, a + 1, Len(Readable))
  BY <1>1, <1>4, PickTail
<1> QED
  BY <1>1, <1>3, <1>4, <1>5 DEF Above

(* A page's turn draws the rest, or a part of it, behind what it has.      *)
LEMMA DrawsRest ==
    ASSUME LogTypeOK, PInv, NEW s \in Streams, after[s] # -1,
           NEW k \in 0..(Len(Readable) - Len(shown[s]))
    PROVE  LET new == Above(after[s]) IN
           /\ Len(new) = Len(Readable) - Len(shown[s])
           /\ \A i \in 1..Len(new) : new[i] = Readable[Len(shown[s]) + i]
           /\ Draw(shown[s], SubSeq(new, 1, k)) = SubSeq(Readable, 1, Len(shown[s]) + k)
           /\ SubSeq(new, 1, Len(new)) = new
<1> DEFINE new == Above(after[s])
           a == Len(shown[s])
           b == Len(Readable)
           part == SubSeq(new, 1, k)
<1>1. /\ Readable \in Seq(Nat) /\ shown[s] \in Seq(Nat) /\ after[s] \in Nat /\ Follows(s)
      /\ b \in Nat /\ a \in 0..b /\ k \in 0..(b - a)
      /\ new = SubSeq(Readable, a + 1, b)
      /\ DOMAIN shown[s] = 1..a /\ DOMAIN Readable = 1..b
      /\ \A i \in DOMAIN shown[s] : shown[s][i] = Readable[i] /\ shown[s][i] <= after[s]
      /\ \A i \in DOMAIN Readable : i > a => after[s] < Readable[i]
  <2>1. Readable \in Seq(Nat) /\ shown[s] \in Seq(Nat) /\ after[s] \in Nat /\ Follows(s)
    BY ReadableType DEF PInv, PagesTypeOK
  <2>2. b \in Nat /\ a \in 0..b /\ new = SubSeq(Readable, a + 1, b)
    BY AboveIsRest
  <2>3. DOMAIN shown[s] = 1..a /\ DOMAIN Readable = 1..b
    BY <2>1
  <2>4. /\ \A i \in DOMAIN shown[s] : shown[s][i] = Readable[i] /\ shown[s][i] <= after[s]
        /\ \A i \in DOMAIN Readable : i > a => after[s] < Readable[i]
    BY <2>1 DEF Follows
  <2> QED
    BY <2>1, <2>2, <2>3, <2>4
<1> HIDE DEF new, a
<1>2. /\ new \in Seq(Nat) /\ Len(new) = b - a
      /\ \A i \in 1..(b - a) : new[i] = Readable[a + i]
  <2>1. a \in 0..Len(Readable) /\ b \in a..Len(Readable) /\ Readable \in Seq(Nat)
    BY <1>1
  <2>2. /\ SubSeq(Readable, a + 1, b) \in Seq(Nat) /\ Len(SubSeq(Readable, a + 1, b)) = b - a
        /\ \A i \in 1..(b - a) : SubSeq(Readable, a + 1, b)[i] = Readable[a + i]
    BY <2>1, SubSeqType
  <2> QED
    BY <1>1, <2>2, Zenon
<1> HIDE DEF b
<1>3. /\ part \in Seq(Nat) /\ Len(part) = k /\ DOMAIN part = 1..k
      /\ \A i \in 1..k : part[i] = new[i]
      /\ SubSeq(new, 1, Len(new)) = new
  <2>1. k \in 0..Len(new)
    BY <1>1, <1>2
  <2> QED
    BY <1>2, <2>1, Prefix
<1> HIDE DEF part
<1>4. \A i \in 1..k : part[i] = Readable[a + i] /\ a + i \in DOMAIN Readable /\ a + i > a
  BY <1>1, <1>2, <1>3
<1>5. \A i \in DOMAIN part : \A j \in DOMAIN shown[s] : shown[s][j] # part[i]
  <2> SUFFICES ASSUME NEW i \in DOMAIN part, NEW j \in DOMAIN shown[s]
               PROVE  shown[s][j] # part[i]
    OBVIOUS
  <2>1. part[i] = Readable[a + i] /\ after[s] < Readable[a + i]
    BY <1>1, <1>3, <1>4
  <2>2. shown[s][j] <= after[s]
    BY <1>1
  <2>3. part[i] \in Nat /\ shown[s][j] \in Nat
    BY <1>1, <1>3, SeqElement
  <2>4. after[s] < part[i] /\ after[s] \in Nat
    BY <1>1, <2>1
  <2> QED
    BY <2>2, <2>3, <2>4
<1>6. Draw(shown[s], part) = shown[s] \o part
  BY <1>1, <1>3, <1>5, DrawNew
<1>7. shown[s] \o part = SubSeq(Readable, 1, a + k)
  <2> DEFINE p == shown[s] \o part
             q == SubSeq(Readable, 1, a + k)
  <2>1. a \in Nat /\ k \in Nat /\ a + k \in 0..Len(Readable) /\ Len(shown[s]) = a
    BY <1>1 DEF a, b
  <2>2. /\ p \in Seq(Nat) /\ Len(p) = Len(shown[s]) + Len(part)
        /\ \A i \in 1..(Len(shown[s]) + Len(part)) :
              p[i] = IF i <= Len(shown[s]) THEN shown[s][i] ELSE part[i - Len(shown[s])]
    <3>1. shown[s] \in Seq(Nat) /\ part \in Seq(Nat)
      BY <1>1, <1>3
    <3> HIDE DEF p
    <3>2. \A x, y \in Seq(Nat) :
             /\ x \o y \in Seq(Nat) /\ Len(x \o y) = Len(x) + Len(y)
             /\ \A i \in 1..(Len(x) + Len(y)) :
                   (x \o y)[i] = IF i <= Len(x) THEN x[i] ELSE y[i - Len(x)]
      BY Concat
    <3> QED
      BY <3>1, <3>2, Zenon DEF p
  <2>3. q \in Seq(Nat) /\ Len(q) = a + k /\ \A i \in 1..(a + k) : q[i] = Readable[i]
    BY <1>1, <2>1, Prefix
  <2> HIDE DEF p, q
  <2>4. Len(p) = a + k
    BY <1>3, <2>1, <2>2
  <2>5. ASSUME NEW i \in 1..(a + k) PROVE p[i] = q[i]
    <3>1. p[i] = IF i <= a THEN shown[s][i] ELSE part[i - a]
      BY <1>3, <2>1, <2>2
    <3>2. CASE i <= a
      <4>1. i \in 1..a /\ p[i] = shown[s][i]
        BY <2>1, <3>1, <3>2
      <4>2. shown[s][i] = Readable[i]
        BY <1>1, <4>1
      <4> QED
        BY <2>3, <4>1, <4>2
    <3>3. CASE ~ (i <= a)
      <4>1. i - a \in 1..k /\ a + (i - a) = i
        BY <2>1, <3>3
      <4>2. part[i - a] = Readable[i]
        BY <1>4, <4>1
      <4> QED
        BY <2>3, <3>1, <3>3, <4>2
    <3> QED
      BY <3>2, <3>3
  <2>6. p = q
    BY <2>1, <2>2, <2>3, <2>4, <2>5
  <2> QED
    BY <2>6 DEF p, q
<1> QED
  BY <1>2, <1>3, <1>6, <1>7 DEF new, part, a, b
-----------------------------------------------------------------------------
(* A cursor n fits a page that shows the first k readable records.         *)
Fits(k, n) ==
    /\ \A i \in 1..k : Readable[i] <= n
    /\ n = 0 \/ \E i \in 1..k : Readable[i] = n
    /\ \A i \in DOMAIN Readable : i > k =>
         n < Readable[i] /\ \A j \in DOMAIN Readable : i < j => Readable[i] < Readable[j]

LEMMA HighestFitsAll ==
    ASSUME LogTypeOK, NEW n \in Nat, IsHighest(n)
    PROVE  Fits(Len(Readable), n)
<1>1. /\ DOMAIN Readable = 1..Len(Readable) /\ Len(Readable) \in Nat
      /\ \A m \in DOMAIN Readable : Readable[m] \in ReadableSeqs
      /\ \A m \in ReadableSeqs : \E i \in DOMAIN Readable : Readable[i] = m
  BY ReadableType, SeqDomain
<1>2. \A i \in 1..Len(Readable) : Readable[i] <= n
  BY <1>1 DEF IsHighest
<1>3. n = 0 \/ \E i \in 1..Len(Readable) : Readable[i] = n
  BY <1>1 DEF IsHighest
<1>4. \A i \in DOMAIN Readable : ~ (i > Len(Readable))
  BY <1>1
<1> QED
  BY <1>2, <1>3, <1>4 DEF Fits

(* The three steps of a page are one: it shows a longer prefix.            *)
LEMMA ShowStep ==
    ASSUME LogTypeOK, PInv, NEW s \in Streams, Load(s) \/ Poll(s) \/ Drop(s)
    PROVE  \E k \in Len(shown[s])..Len(Readable), n \in Nat :
               /\ Fits(k, n)
               /\ shown' = [shown EXCEPT ![s] = SubSeq(Readable, 1, k)]
               /\ after' = [after EXCEPT ![s] = n]
<1> DEFINE a == Len(shown[s])
           b == Len(Readable)
<1>1. /\ Readable \in Seq(Nat) /\ b \in Nat /\ DOMAIN Readable = 1..b /\ SubSeq(Readable, 1, b) = Readable
      /\ shown[s] \in Seq(Nat) /\ a \in Nat /\ after[s] \in Nat \cup {-1} /\ Follows(s)
  <2>1. Readable \in Seq(Nat) /\ shown[s] \in Seq(Nat) /\ after[s] \in Nat \cup {-1} /\ Follows(s)
    BY ReadableType DEF PInv, PagesTypeOK
  <2>2. b \in Nat /\ DOMAIN Readable = 1..b /\ a \in Nat
    BY <2>1, SeqDomain
  <2>3. b \in 0..b
    BY <2>2
  <2> QED
    BY <2>1, <2>2, <2>3, Prefix
<1>2. a <= b /\ b \in a..b
  <2>1. CASE after[s] = -1
    BY <1>1, <2>1 DEF Follows
  <2>2. CASE after[s] # -1
    BY <1>1, <2>2 DEF Follows
  <2> QED
    BY <2>1, <2>2
<1> DEFINE new == Above(after[s])
<1>d. ASSUME after[s] # -1, NEW k \in 0..(b - a)
      PROVE  /\ Len(new) = b - a
             /\ \A i \in 1..Len(new) : new[i] = Readable[a + i]
             /\ Draw(shown[s], SubSeq(new, 1, k)) = SubSeq(Readable, 1, a + k)
             /\ SubSeq(new, 1, Len(new)) = new
  BY <1>d, DrawsRest
<1>3. CASE Load(s)
  <2>1. PICK n \in 0..MaxSeq : IsHighest(n) /\ after' = [after EXCEPT ![s] = n]
    BY <1>3 DEF Load
  <2>2. n \in Nat /\ shown' = [shown EXCEPT ![s] = Readable]
    BY <1>3, LedgerAssumption DEF Load
  <2>4. shown' = [shown EXCEPT ![s] = SubSeq(Readable, 1, b)]
    BY <1>1, <2>2
  <2>3. Fits(b, n)
    BY <2>1, <2>2, HighestFitsAll
  <2> QED
    BY <1>2, <2>1, <2>2, <2>3, <2>4
<1>4. CASE Poll(s)
  <2>1. PICK n \in 0..MaxSeq : IsHighest(n) /\ after' = [after EXCEPT ![s] = IF n > after[s] THEN n ELSE after[s]]
    BY <1>4 DEF Poll
  <2>2. after[s] # -1 /\ after[s] \in Nat /\ n \in Nat
    BY <1>1, <1>4, LedgerAssumption DEF Poll
  <2>3. Fits(b, n)
    BY <2>1, <2>2, HighestFitsAll
  <2>4. after[s] <= n
    <3>1. CASE after[s] = 0
      BY <2>2, <3>1
    <3>2. CASE after[s] # 0
      <4>1. PICK i \in DOMAIN shown[s] : shown[s][i] = after[s]
        BY <1>1, <2>2, <3>2 DEF Follows
      <4>2. shown[s][i] = Readable[i] /\ i \in 1..a
        BY <1>1, <2>2, <4>1, SeqDomain DEF Follows
      <4>3. i \in 1..b
        BY <1>1, <1>2, <4>2
      <4> QED
        BY <2>3, <4>1, <4>2, <4>3 DEF Fits
    <3> QED
      BY <3>1, <3>2
  <2>5. after' = [after EXCEPT ![s] = n]
    <3>1. (IF n > after[s] THEN n ELSE after[s]) = n
      BY <2>2, <2>4
    <3> QED
      BY <2>1, <3>1
  <2>6. Draw(shown[s], new) = SubSeq(Readable, 1, b)
    <3> HIDE DEF a, b, new
    <3>1. b - a \in 0..(b - a) /\ a + (b - a) = b
      BY <1>1, <1>2
    <3>2. /\ Len(new) = b - a /\ SubSeq(new, 1, Len(new)) = new
          /\ Draw(shown[s], SubSeq(new, 1, b - a)) = SubSeq(Readable, 1, a + (b - a))
      BY <1>d, <2>2, <3>1
    <3> QED
      BY <3>1, <3>2
  <2>7. shown' = [shown EXCEPT ![s] = SubSeq(Readable, 1, b)]
    BY <1>4, <2>6 DEF Poll
  <2> QED
    BY <1>2, <2>2, <2>3, <2>5, <2>7
<1>5. CASE Drop(s)
  <2>1. PICK k \in 1..(Len(new) - 1) :
           /\ shown' = [shown EXCEPT ![s] = Draw(shown[s], SubSeq(new, 1, k))]
           /\ after' = [after EXCEPT ![s] = new[k]]
    BY <1>5 DEF Drop
  <2>2. after[s] # -1 /\ after[s] \in Nat
    BY <1>1, <1>5 DEF Drop
  <2>3. Len(new) = b - a
    <3>1. 0 \in 0..(b - a)
      BY <1>1, <1>2
    <3> QED
      BY <1>d, <2>2, <3>1
  <2>4. k \in 0..(b - a) /\ k \in 1..Len(new) /\ k \in Nat /\ a + k \in a..b /\ a + k \in DOMAIN Readable /\ a + k > a
    <3> HIDE DEF a, b, new
    <3> QED
      BY <1>1, <1>2, <2>1, <2>3
  <2>5. /\ new[k] = Readable[a + k]
        /\ Draw(shown[s], SubSeq(new, 1, k)) = SubSeq(Readable, 1, a + k)
    BY <1>d, <2>2, <2>4
  <2>6. Readable[a + k] \in Nat
    BY <1>1, <2>4, SeqElement
  <2>7. Fits(a + k, Readable[a + k])
    <3>1. \A i \in DOMAIN Readable : Readable[i] \in Nat
      BY <1>1, SeqElement
    <3>2. \A i \in DOMAIN Readable : i > a =>
             /\ after[s] < Readable[i]
             /\ \A j \in DOMAIN Readable : i < j => Readable[i] < Readable[j]
      BY <1>1, <2>2 DEF Follows
    <3>3. ASSUME NEW i \in 1..(a + k) PROVE Readable[i] <= Readable[a + k]
      <4>1. i \in DOMAIN Readable
        BY <1>1, <2>4
      <4>2. CASE i <= a
        <5>1. i \in DOMAIN shown[s]
          BY <1>1, <4>2, SeqDomain
        <5>2. Readable[i] <= after[s]
          BY <1>1, <2>2, <5>1 DEF Follows
        <5>3. after[s] < Readable[a + k]
          BY <2>4, <3>2
        <5> QED
          BY <2>2, <2>6, <3>1, <4>1, <5>2, <5>3
      <4>3. CASE i > a /\ i # a + k
        <5>1. i < a + k
          <6> HIDE DEF a, b
          <6> QED
            BY <1>1, <2>4, <4>3
        <5>2. Readable[i] < Readable[a + k]
          BY <2>4, <3>2, <4>1, <4>3, <5>1
        <5> QED
          BY <2>6, <3>1, <4>1, <5>2
      <4>4. CASE i = a + k
        BY <2>6, <4>4
      <4> QED
        BY <1>1, <4>2, <4>3, <4>4
    <3>4. a + k \in 1..(a + k)
      BY <1>1, <2>4
    <3>5. ASSUME NEW i \in DOMAIN Readable, i > a + k
          PROVE  /\ Readable[a + k] < Readable[i]
                 /\ \A j \in DOMAIN Readable : i < j => Readable[i] < Readable[j]
      <4>1. i > a /\ a + k < i
        <5> HIDE DEF a, b
        <5> QED
          BY <1>1, <2>4, <3>5
      <4> QED
        BY <2>4, <3>2, <4>1
    <3> HIDE DEF a, b
    <3> QED
      BY <3>3, <3>4, <3>5 DEF Fits
  <2> QED
    BY <2>1, <2>4, <2>5, <2>6, <2>7
<1> QED
  BY <1>3, <1>4, <1>5

LEMMA FollowsShow ==
    ASSUME LogTypeOK, PInv, NEW s \in Streams, Load(s) \/ Poll(s) \/ Drop(s)
    PROVE  PInv'
<1> PICK k \in Len(shown[s])..Len(Readable), n \in Nat :
           /\ Fits(k, n)
           /\ shown' = [shown EXCEPT ![s] = SubSeq(Readable, 1, k)]
           /\ after' = [after EXCEPT ![s] = n]
  BY ShowStep
<1> DEFINE part == SubSeq(Readable, 1, k)
<1>1. /\ Readable \in Seq(Nat) /\ PagesTypeOK
      /\ Len(Readable) \in Nat /\ DOMAIN Readable = 1..Len(Readable)
  BY ReadableType, SeqDomain DEF PInv
<1>2. k \in 0..Len(Readable)
  <2>1. Len(shown[s]) \in Nat
    BY <1>1, SeqDomain DEF PagesTypeOK
  <2> QED
    BY <1>1, <2>1
<1>3. part \in Seq(Nat) /\ Len(part) = k /\ DOMAIN part = 1..k /\ \A i \in 1..k : part[i] = Readable[i]
  BY <1>1, <1>2, Prefix
<1>4. Readable' = Readable
  BY ReadableSame DEF Load, Poll, Drop, disk
<1> HIDE DEF part
<1>5. shown' = [shown EXCEPT ![s] = part]
  BY DEF part
<1>6. PagesTypeOK'
  BY <1>1, <1>3, <1>5 DEF PagesTypeOK
<1>7. Follows(s)'
  <2>1. shown'[s] = part /\ after'[s] = n /\ n # -1
    BY <1>1, <1>5 DEF PagesTypeOK
  <2> QED
    <3>1. k <= Len(Readable) /\ Len(part) = k /\ DOMAIN part = 1..k
      BY <1>2, <1>3
    <3>2. \A i \in 1..k : part[i] = Readable[i] /\ part[i] <= n
      BY <1>3 DEF Fits
    <3>3. n = 0 \/ \E i \in 1..k : part[i] = n
      BY <1>3 DEF Fits
    <3>4. \A i \in DOMAIN Readable : i > k =>
             n < Readable[i] /\ \A j \in DOMAIN Readable : i < j => Readable[i] < Readable[j]
      BY DEF Fits
    <3> QED
      BY <1>4, <2>1, <3>1, <3>2, <3>3, <3>4 DEF Follows
<1>8. ASSUME NEW q \in Streams, q # s PROVE Follows(q)'
  <2>1. shown'[q] = shown[q] /\ after'[q] = after[q]
    BY <1>1, <1>5, <1>8 DEF PagesTypeOK
  <2> QED
    <3>1. Follows(q)
      BY DEF PInv
    <3> QED
      BY <1>4, <2>1, <3>1 DEF Follows
<1> QED
  BY <1>6, <1>7, <1>8 DEF PInv

LEMMA PagesInit == Init => PInv
<1> SUFFICES ASSUME Init PROVE PInv
  OBVIOUS
<1>1. PagesTypeOK
  BY DEF Init, PagesTypeOK
<1>2. ASSUME NEW s \in Streams PROVE Follows(s)
  BY DEF Init, Follows
<1> QED
  BY <1>1, <1>2 DEF PInv

(* A step of a page is its own; any other leaves the pages alone.          *)
LEMMA PagesOrLog ==
    ASSUME [Next]_vars
    PROVE  UNCHANGED pages \/ \E s \in Streams : Load(s) \/ Poll(s) \/ Drop(s)
BY DEF Next, vars, pages, New, TakeLock, TakeFlock, Number, WritePad, WriteHead, WriteTail,
       WriteNewline, Piece, Return, Fail, CloseFailed, Kill

LEMMA PagesStep ==
    ASSUME SafeFailures, IInv, PInv, [Next]_vars
    PROVE  PInv'
<1>0. LogTypeOK
  BY DEF IInv
<1>1. CASE \E s \in Streams : Load(s) \/ Poll(s) \/ Drop(s)
  BY <1>0, <1>1, FollowsShow
<1>2. CASE UNCHANGED pages
  <2>1. CASE \E n \in Nat : Added(n)
    BY <1>0, <1>2, <2>1, FollowsAdded
  <2>2. CASE Readable' = Readable
    BY <1>2, <2>2 DEF PInv, PagesTypeOK, Follows, pages
  <2> QED
    BY <2>1, <2>2, LogStep
<1> QED
  BY <1>1, <1>2, PagesOrLog

LEMMA PagesInvariant ==
    ASSUME SafeFailures
    PROVE  Spec => [](IInv /\ PInv)
<1>1. Init => PInv
  BY PagesInit
<1>2. IInv /\ PInv /\ [Next]_vars => PInv'
  BY PagesStep
<1> QED
  BY InductiveInvariant, <1>1, <1>2, PTL DEF Spec

(* What a page shows.                                                      *)
LEMMA ShownIsPrefix ==
    ASSUME LogTypeOK, PInv, NEW s \in Streams
    PROVE  Len(shown[s]) \in 0..Len(Readable) /\ shown[s] = SubSeq(Readable, 1, Len(shown[s]))
<1> DEFINE a == Len(shown[s])
           p == SubSeq(Readable, 1, a)
           q == shown[s]
<1>1. Readable \in Seq(Nat) /\ q \in Seq(Nat) /\ Len(Readable) \in Nat /\ a \in Nat /\ DOMAIN q = 1..a
  BY ReadableType, SeqDomain DEF PInv, PagesTypeOK
<1>2. a <= Len(Readable) /\ \A i \in DOMAIN q : q[i] = Readable[i]
  <2>1. CASE after[s] = -1
    BY <1>1, <2>1 DEF PInv, Follows
  <2>2. CASE after[s] # -1
    BY <2>2 DEF PInv, Follows
  <2> QED
    BY <2>1, <2>2
<1>3. a \in 0..Len(Readable)
  BY <1>1, <1>2
<1>4. p \in Seq(Nat) /\ Len(p) = a /\ \A i \in 1..a : p[i] = Readable[i]
  BY <1>1, <1>3, Prefix
<1>5. Len(q) = a
  OBVIOUS
<1> HIDE DEF a, p, q
<1>6. \A i \in 1..a : p[i] = q[i]
  BY <1>1, <1>2, <1>4
<1>7. p = q
  BY <1>1, <1>4, <1>5, <1>6
<1> QED
  BY <1>3, <1>7 DEF a, p, q

(* A page never misses a record: up to its cursor it has drawn every one   *)
(* that can be read, in file order and once, however its connection broke  *)
(* (get_stream's cursor and the browser's last id), whatever the writers   *)
(* and the older lines did.                                                *)
THEOREM NothingSkippedTheorem ==
    ASSUME SafeFailures
    PROVE  Spec => []NothingSkipped
<1>1. ASSUME IInv, PInv PROVE NothingSkipped
  <2> SUFFICES ASSUME NEW s \in Streams, after[s] # -1
               PROVE  /\ \E k \in 0..Len(Readable) : shown[s] = SubSeq(Readable, 1, k)
                      /\ \A n \in ReadableSeqs : n <= after[s] => \E i \in DOMAIN shown[s] : shown[s][i] = n
    BY DEF NothingSkipped
  <2>0. LogTypeOK
    BY <1>1 DEF IInv
  <2>1. Len(shown[s]) \in 0..Len(Readable) /\ shown[s] = SubSeq(Readable, 1, Len(shown[s]))
    BY <1>1, <2>0, ShownIsPrefix
  <2>2. ASSUME NEW n \in ReadableSeqs, n <= after[s]
        PROVE  \E i \in DOMAIN shown[s] : shown[s][i] = n
    <3>1. /\ Readable \in Seq(Nat) /\ shown[s] \in Seq(Nat) /\ after[s] \in Nat \cup {-1} /\ Follows(s)
          /\ \E m \in DOMAIN Readable : Readable[m] = n
      BY <1>1, <2>0, ReadableType DEF PInv, PagesTypeOK
    <3>2. PICK m \in DOMAIN Readable : Readable[m] = n
      BY <3>1
    <3>3. /\ DOMAIN Readable = 1..Len(Readable) /\ DOMAIN shown[s] = 1..Len(shown[s])
          /\ Len(Readable) \in Nat /\ Len(shown[s]) \in Nat /\ n \in Nat
      BY <3>1, <3>2, SeqDomain, SeqElement
    <3>4. ~ (m > Len(shown[s]))
      <4>1. m > Len(shown[s]) => after[s] < Readable[m]
        BY <3>1 DEF Follows
      <4> QED
        BY <2>2, <3>1, <3>2, <3>3, <4>1
    <3>5. m \in DOMAIN shown[s]
      BY <3>3, <3>4
    <3> QED
      BY <3>1, <3>2, <3>5 DEF Follows
  <2> QED
    BY <2>1, <2>2
<1> QED
  BY PagesInvariant, <1>1, PTL

(* The file, its locks, caches, torn lines and kills implement an append-  *)
(* only log whose seqs increase, followed by pages that draw a growing     *)
(* prefix of it: what class Ledger and get_stream promise their callers.   *)
THEOREM LedgerImplementsLog ==
    ASSUME SafeFailures
    PROVE  Spec => LogSpec
<1>1. ASSUME Init PROVE Log!Init
  <2>1. Readable \in Seq(Nat)
    BY <1>1, InitInv, ReadableType DEF IInv
  <2> QED
    BY <1>1, <2>1 DEF Log!Init, Init
<1>2. ASSUME IInv, PInv, [Next]_vars PROVE [Log!Next]_<<Readable, shown>>
  <2>0. LogTypeOK
    BY <1>2 DEF IInv
  <2>1. Readable \in Seq(Nat) /\ Len(Readable) \in Nat /\ DOMAIN Readable = 1..Len(Readable)
    BY <2>0, ReadableType, SeqDomain
  <2>2. CASE \E n \in Nat : Added(n) /\ UNCHANGED pages
    <3> PICK n \in Nat : Added(n) /\ UNCHANGED pages
      BY <2>2
    <3> DEFINE r == Readable
               t == Readable'
    <3>1. t = Append(r, n) /\ r \in Seq(Nat) /\ n \in Nat
      BY <2>1 DEF Added
    <3> HIDE DEF r, t
    <3>2. Len(t) = Len(r) + 1 /\ t[Len(t)] = n /\ SubSeq(t, 1, Len(r)) = r
      BY <3>1
    <3>3. \A i \in DOMAIN r : r[i] < t[Len(t)]
      BY <3>2 DEF Added, r
    <3>4. UNCHANGED shown
      BY DEF pages
    <3> QED
      BY <3>2, <3>3, <3>4 DEF Log!Next, Log!Record, r, t
  <2>3. ASSUME NEW s \in Streams, Load(s) \/ Poll(s) \/ Drop(s)
        PROVE  Log!Next
    <3>1. Readable' = Readable
      BY <2>3, ReadableSame DEF Load, Poll, Drop, disk
    <3>2. \E k \in Len(shown[s])..Len(Readable) : shown' = [shown EXCEPT ![s] = SubSeq(Readable, 1, k)]
      BY <1>2, <2>0, <2>3, ShowStep
    <3>3. Log!Show(s)
      BY <3>1, <3>2 DEF Log!Show
    <3> QED
      BY <3>3 DEF Log!Next
  <2>4. CASE Readable' = Readable /\ UNCHANGED pages
    BY <2>4 DEF pages
  <2> QED
    BY <1>2, <2>2, <2>3, <2>4, LogStep, PagesOrLog
<1> QED
  BY PagesInvariant, <1>1, <1>2, PTL DEF Spec, LogSpec, Log!Spec
=============================================================================
