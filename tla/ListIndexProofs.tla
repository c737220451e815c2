-------------------------- MODULE ListIndexProofs --------------------------
(***************************************************************************)
(* The list's numbering is right for any defects, profiles and runs, any   *)
(* number of rebuilds and decisions, and wherever the process dies, as     *)
(* long as index() runs in one thread at a time (Solo).  That assumption   *)
(* is what the violation runs show the code does not guarantee.            *)
(*                                                                         *)
(* The argument: the last recorded snapshot only grows, and gives no two   *)
(* defects one number (Latest is injective); everything a list file, a     *)
(* decision or an earlier snapshot says about a number agrees with it; and *)
(* what index() is about to record extends it.                             *)
(***************************************************************************)
EXTENDS ListIndex, FiniteSetTheorems, TLAPS

Solo == Pages \cup Agents = {}

(* What makes the types inductive, with any threads.                       *)
Saved ==
    /\ RecordedIsOnDisk
    /\ \A t \in Threads : pc[t] = "record" => version[t] \in DOMAIN file
    /\ \A t \in Threads : pc[t] = "reindex" => runs > 0
    /\ pc[Job] = "tools" => runs < MaxRuns
    /\ Len(decided) <= MaxDecisions
    /\ \A d \in Deciders :
         /\ deciding[d] \in {"open", "mark"} => opened[d] # 0
         /\ deciding[d] = "mark" => noted[d] # 0

Typed == TypeOK /\ Saved

Injective(s) == \A c, d \in Clusters : s[c] = s[d] /\ s[c] # 0 => c = d
Extends(new, old) == \A c \in Clusters : old[c] # 0 => new[c] = old[c]
Covers(s, entries) == \A c \in entries : s[c] # 0
-----------------------------------------------------------------------------
(* number() gives every entry a number, none twice, and keeps the old ones.*)
LEMMA RankProperties ==
    ASSUME NEW new \in SUBSET Clusters, ListAssumption
    PROVE  /\ \A c \in new : Rank(c, new) \in Nat \ {0}
           /\ \A c, d \in new : c < d => Rank(c, new) < Rank(d, new)
<1>1. IsFiniteSet(new)
  BY FS_Subset DEF ListAssumption
<1>2. \A c \in new : IsFiniteSet({x \in new : x <= c}) /\ Rank(c, new) \in Nat
  BY <1>1, FS_Subset, FS_CardinalityType DEF Rank
<1>3. ASSUME NEW c \in new PROVE Rank(c, new) # 0
  <2>1. c \in {x \in new : x <= c}
    BY DEF ListAssumption
  <2> QED
    BY <2>1, <1>2, FS_EmptySet DEF Rank
<1>4. ASSUME NEW c \in new, NEW d \in new, c < d
      PROVE  Rank(c, new) < Rank(d, new)
  <2> DEFINE S == {x \in new : x <= d}
             T == {x \in new : x <= c}
  <2>0. new \subseteq Nat
    BY DEF ListAssumption
  <2>1. T \in SUBSET S /\ d \in S /\ d \notin T
    <3>1. c \in Nat /\ d \in Nat /\ c <= d /\ ~(d <= c) /\ d <= d
      BY <1>4, <2>0
    <3>2. \A x \in new : x <= c => x <= d
      BY <3>1, <2>0
    <3> QED
      BY <3>1, <3>2
  <2>2. Cardinality(T) <= Cardinality(S) /\ Cardinality(S) # Cardinality(T)
    BY <2>1, <1>2, FS_Subset
  <2> HIDE DEF S, T
  <2>3. Rank(c, new) = Cardinality(T) /\ Rank(d, new) = Cardinality(S)
    BY DEF Rank, S, T
  <2>4. Rank(c, new) \in Nat /\ Rank(d, new) \in Nat
    BY <1>2
  <2> QED
    BY <2>2, <2>3, <2>4
<1> QED
  BY <1>2, <1>3, <1>4

LEMMA RenumberProperties ==
    ASSUME ListAssumption, NEW old \in Numbering, NEW h \in Nat, IsHighest(h, old),
           NEW entries \in SUBSET Clusters
    PROVE  LET new == Renumber(entries, old, h)
           IN  /\ new \in Numbering
               /\ Extends(new, old)
               /\ Covers(new, entries)
               /\ Injective(old) => Injective(new)
<1> DEFINE F == Fresh(entries, old)
           new == Renumber(entries, old, h)
<1>1. F \in SUBSET Clusters /\ \A c \in F : old[c] = 0
  BY DEF Fresh
<1>2. /\ \A c \in F : Rank(c, F) \in Nat \ {0}
      /\ \A c, d \in F : c < d => Rank(c, F) < Rank(d, F)
  BY <1>1, RankProperties
<1>3. \A c \in Clusters : new[c] = IF c \in F THEN h + Rank(c, F) ELSE old[c]
  BY DEF Renumber
<1>4. new \in Numbering
  BY <1>2 DEF Renumber, Numbering
<1>5. \A c \in Clusters : old[c] \in Nat /\ old[c] <= h
  BY DEF Numbering, IsHighest
<1>6. \A c \in entries : c \notin F => old[c] # 0
  BY DEF Fresh
<1> HIDE DEF F, new
<1>7. Extends(new, old)
  BY <1>1, <1>3 DEF Extends
<1>8. Covers(new, entries)
  BY <1>2, <1>3, <1>6 DEF Covers
<1>9. ASSUME Injective(old), NEW c \in Clusters, NEW d \in Clusters, new[c] = new[d], new[c] # 0
      PROVE  c = d
  <2>1. CASE c \in F /\ d \in F
    <3>1. Rank(c, F) = Rank(d, F)
      BY <2>1, <1>2, <1>3, <1>9
    <3>2. c \in Nat /\ d \in Nat
      BY DEF ListAssumption
    <3> QED
      BY <3>1, <3>2, <2>1, <1>2
  <2>2. CASE c \in F /\ d \notin F
    BY <2>2, <1>2, <1>3, <1>5, <1>9
  <2>3. CASE c \notin F /\ d \in F
    BY <2>3, <1>2, <1>3, <1>5, <1>9
  <2>4. CASE c \notin F /\ d \notin F
    BY <2>4, <1>3, <1>9 DEF Injective
  <2> QED
    BY <2>1, <2>2, <2>3, <2>4
<1> QED
  BY <1>4, <1>7, <1>8, <1>9 DEF new, Injective
-----------------------------------------------------------------------------
(* Types.                                                                  *)

LEMMA SeqExcept ==
    ASSUME NEW S, NEW s \in Seq(S), NEW i \in 1..Len(s), NEW x \in S
    PROVE  [s EXCEPT ![i] = x] \in Seq(S) /\ Len([s EXCEPT ![i] = x]) = Len(s)
OBVIOUS

LEMMA SeqElement ==
    ASSUME NEW S, NEW s \in Seq(S), NEW i \in DOMAIN s
    PROVE  s[i] \in S
OBVIOUS

LEMMA SeqAppend ==
    ASSUME NEW S, NEW s \in Seq(S), NEW x \in S
    PROVE  /\ Len(Append(s, x)) = Len(s) + 1
           /\ Append(s, x)[Len(s) + 1] = x
           /\ DOMAIN Append(s, x) = 1..Len(s) + 1
           /\ \A i \in DOMAIN s : i \in DOMAIN Append(s, x) /\ Append(s, x)[i] = s[i]
           /\ \A i \in DOMAIN Append(s, x) : i = Len(s) + 1 \/ i \in DOMAIN s
OBVIOUS

LEMMA LatestType ==
    ASSUME Typed
    PROVE  Latest \in Numbering
<1>1. CASE numbered = <<>>
  BY <1>1 DEF Latest, NoNumbers, Numbering
<1>2. CASE numbered # <<>>
  <2>1. Len(numbered) \in DOMAIN numbered
    BY <1>2 DEF Typed, TypeOK
  <2>2. numbered[Len(numbered)] \in DOMAIN file
    BY <2>1 DEF Typed, Saved, RecordedIsOnDisk
  <2> QED
    BY <1>2, <2>2 DEF Latest, Typed, TypeOK
<1> QED
  BY <1>1, <1>2

LEMMA FirstProperties ==
    ASSUME ListAssumption
    PROVE  /\ Listed[1][1] \in SUBSET Clusters
           /\ FirstNumbers \in Numbering
           /\ Covers(FirstNumbers, Listed[1][1])
           /\ Injective(FirstNumbers)
<1>1. Listed[1][1] \in SUBSET Clusters
  BY DEF ListAssumption
<1>2. NoNumbers \in Numbering /\ IsHighest(0, NoNumbers) /\ Injective(NoNumbers)
  BY DEF NoNumbers, Numbering, IsHighest, Injective
<1> QED
  BY <1>1, <1>2, RenumberProperties DEF FirstNumbers

LEMMA BlankType ==
    ASSUME ListAssumption
    PROVE  Blank \in IndexFile
<1>1. NoNumbers \in Numbering
  BY DEF NoNumbers, Numbering
<1>2. 0 \in 0..MaxProfile /\ 0 \in 0..MaxDecisions
  BY DEF ListAssumption
<1> QED
  BY <1>1, <1>2 DEF Blank, IndexFile

LEMMA InitTyped ==
    ASSUME ListAssumption, Init
    PROVE  Typed
<1>1. /\ NoNumbers \in Numbering
      /\ FirstNumbers \in Numbering
      /\ Listed[1][1] \in SUBSET Clusters
  BY FirstProperties DEF NoNumbers, Numbering
<1>2. OldIndex \in IndexFile
  <2>1. 1 \in 0..MaxProfile /\ 0 \in 0..MaxDecisions
    BY DEF ListAssumption
  <2> QED
    BY <1>1, <2>1 DEF OldIndex, IndexFile
<1>3. profile \in 1..MaxProfile /\ asked \in BOOLEAN /\ kills \in 0..MaxKills
  <2>1. profile = 1 /\ asked = FALSE /\ kills = 0
    BY DEF Init
  <2>2. MaxProfile \in Nat /\ MaxProfile # 0 /\ MaxKills \in Nat
    BY DEF ListAssumption
  <2>3. 1 \in 1..MaxProfile /\ 0 \in 0..MaxKills
    BY <2>2
  <2> QED
    BY <2>1, <2>3
<1>4. LocalsOK
  <2>1. 1 \in 1..MaxProfile /\ 1 \in 1..MaxRuns /\ 0 \in 0..Len(disk) /\ 0 \in 0..Len(decided)
    BY DEF Init, ListAssumption
  <2> QED
    BY <1>1, <2>1 DEF Init, LocalsOK, Steps
<1>5. /\ decided \in Seq(Decision) /\ building \in 0..Len(disk)
      /\ deciding \in [Deciders -> {"idle", "open", "mark"}]
      /\ opened \in [Deciders -> 0..Len(disk)]
      /\ noted \in [Deciders -> 0..Len(decided)]
  BY DEF Init
<1>6. CASE runs = 0 /\ numbered = <<>> /\ file = <<>> /\ disk = <<>> /\ path = 0 /\ issued = {}
  BY <1>3, <1>4, <1>5, <1>6, ListAssumption
  DEF Init, Typed, TypeOK, Saved, RecordedIsOnDisk, ListAssumption
<1>7. CASE /\ runs = 1 /\ numbered = <<1>> /\ file = <<FirstNumbers>> /\ disk = <<OldIndex>> /\ path = 1
           /\ issued = {<<FirstNumbers[c], c>> : c \in Listed[1][1]}
  <2>1. issued \subseteq (Nat \X Clusters)
    <3>1. \A c \in Listed[1][1] : FirstNumbers[c] \in Nat /\ c \in Clusters
      BY <1>1 DEF Numbering
    <3> QED
      BY <1>7, <3>1
  <2>2. disk \in Seq(IndexFile) /\ path \in 0..Len(disk)
    BY <1>2, <1>7
  <2>3. runs \in 0..MaxRuns /\ numbered \in Seq(Nat \ {0})
    BY <1>7 DEF ListAssumption
  <2>4. DOMAIN file \subseteq Nat /\ \A v \in DOMAIN file : file[v] \in Numbering
    BY <1>1, <1>7
  <2>5. Saved
    <3>1. RecordedIsOnDisk
      BY <1>7 DEF RecordedIsOnDisk
    <3>2. \A t \in Threads : pc[t] = "idle"
      BY DEF Init
    <3>3. Len(decided) <= MaxDecisions
      BY DEF Init, ListAssumption
    <3>4. \A d \in Deciders : deciding[d] = "idle"
      BY DEF Init
    <3>5. Job \in Threads
      BY DEF Threads
    <3> QED
      BY <3>1, <3>2, <3>3, <3>4, <3>5 DEF Saved
  <2> QED
    BY <1>3, <1>4, <1>5, <2>1, <2>2, <2>3, <2>4, <2>5 DEF Typed, TypeOK
<1> QED
  BY <1>6, <1>7 DEF Init

(* The parts of the types, by what changes together.                       *)
LedgerTyped ==
    /\ profile \in 1..MaxProfile
    /\ runs \in 0..MaxRuns
    /\ numbered \in Seq(Nat \ {0})
    /\ decided \in Seq(Decision)
    /\ Len(decided) <= MaxDecisions
    /\ issued \subseteq (Nat \X Clusters)
    /\ DOMAIN file \subseteq Nat
    /\ \A v \in DOMAIN file : file[v] \in Numbering
    /\ RecordedIsOnDisk

DiskTyped ==
    /\ disk \in Seq(IndexFile)
    /\ path \in 0..Len(disk)
    /\ building \in 0..Len(disk)

ThreadsTyped ==
    /\ LocalsOK
    /\ \A t \in Threads :
         /\ pc[t] = "record" => version[t] \in DOMAIN file
         /\ pc[t] = "reindex" => runs > 0
    /\ pc[Job] = "tools" => runs < MaxRuns

DecidersTyped ==
    /\ deciding \in [Deciders -> {"idle", "open", "mark"}]
    /\ opened \in [Deciders -> 0..Len(disk)]
    /\ noted \in [Deciders -> 0..Len(decided)]
    /\ \A d \in Deciders :
         /\ deciding[d] \in {"open", "mark"} => opened[d] # 0
         /\ deciding[d] = "mark" => noted[d] # 0

LEMMA TypedParts ==
    Typed <=> /\ LedgerTyped /\ DiskTyped /\ ThreadsTyped /\ DecidersTyped
              /\ asked \in BOOLEAN /\ kills \in 0..MaxKills
BY DEF Typed, TypeOK, Saved, LedgerTyped, DiskTyped, ThreadsTyped, DecidersTyped

(* A step that changes nothing but where a thread is (and `asked`).        *)
LEMMA MoveTyped ==
    ASSUME ListAssumption, Typed, NEW t \in Threads, NEW where \in {"idle", "tools", "other", "reindex"},
           pc' = [pc EXCEPT ![t] = where] \/ pc' = pc, where = "reindex" => runs > 0,
           where = "tools" => runs < MaxRuns, asked' \in BOOLEAN,
           grade' \in [Threads -> 1..MaxProfile], profile' \in 1..MaxProfile,
           UNCHANGED <<runs, numbered, decided, file, indexFiles, run, mine, version, handle, known, deciders,
                       issued, kills>>
    PROVE  Typed'
<1> USE DEF indexFiles, deciders
<1>0. LedgerTyped /\ DiskTyped /\ ThreadsTyped /\ DecidersTyped /\ asked \in BOOLEAN /\ kills \in 0..MaxKills
  BY TypedParts
<1>1. ThreadsTyped'
  <2>1. CASE pc' = pc
    BY <1>0, <2>1 DEF ThreadsTyped, LocalsOK
  <2>2. CASE pc' = [pc EXCEPT ![t] = where]
    <3>1. pc \in [Threads -> Steps \cup {"tools", "other"}]
      BY <1>0 DEF ThreadsTyped, LocalsOK
    <3>2. /\ pc' \in [Threads -> Steps \cup {"tools", "other"}]
          /\ pc'[t] = where /\ \A o \in Threads \ {t} : pc'[o] = pc[o]
      BY <2>2, <3>1 DEF Steps
    <3>3. LocalsOK'
      BY <1>0, <3>2 DEF ThreadsTyped, LocalsOK
    <3>4. \A o \in Threads :
            /\ pc'[o] = "record" => version'[o] \in DOMAIN file'
            /\ pc'[o] = "reindex" => runs' > 0
      BY <1>0, <3>2 DEF ThreadsTyped
    <3>5. pc'[Job] = "tools" => runs' < MaxRuns
      BY <1>0, <3>2 DEF ThreadsTyped, Threads
    <3> QED
      BY <3>3, <3>4, <3>5 DEF ThreadsTyped, Threads
  <2> QED
    BY <2>1, <2>2
<1>2. LedgerTyped' /\ DiskTyped' /\ DecidersTyped'
  BY <1>0 DEF LedgerTyped, DiskTyped, DecidersTyped, RecordedIsOnDisk
<1> QED
  BY <1>0, <1>1, <1>2 DEF Typed, TypeOK, Saved, LedgerTyped, DiskTyped, ThreadsTyped, DecidersTyped

(* A step sends one thread to another line and leaves the others.           *)
LEMMA OneMoves ==
    ASSUME ThreadsTyped, NEW t \in Threads, NEW where \in Steps \cup {"tools", "other"},
           pc' = [pc EXCEPT ![t] = where]
    PROVE  /\ pc' \in [Threads -> Steps \cup {"tools", "other"}]
           /\ pc'[t] = where /\ \A o \in Threads \ {t} : pc'[o] = pc[o]
BY DEF ThreadsTyped, LocalsOK

LEMMA IndexingTyped ==
    ASSUME ListAssumption, Typed, NEW t \in Threads, Indexing(t)
    PROVE  Typed'
<1> USE DEF Goto, ledger, indexFiles, locals, deciders
<1>0. LedgerTyped /\ DiskTyped /\ ThreadsTyped /\ DecidersTyped /\ asked \in BOOLEAN /\ kills \in 0..MaxKills
  BY TypedParts
<1>a. SUFFICES LedgerTyped' /\ DiskTyped' /\ ThreadsTyped' /\ DecidersTyped'
               /\ asked' \in BOOLEAN /\ kills' \in 0..MaxKills
  BY TypedParts DEF Typed, TypeOK, Saved, LedgerTyped, DiskTyped, ThreadsTyped, DecidersTyped
<1>b. asked' = asked /\ kills' = kills /\ decided' = decided /\ UNCHANGED deciders
  BY DEF Indexing, Reindex, Number, CountVersions, SaveFile, RecordNumbering, OpenBuilding, Load, Replace,
         ReadDecisions, Apply, FailWrite
<1>1. CASE Reindex(t)
  <2>1. runs \in 1..MaxRuns
    BY <1>0, <1>1 DEF LedgerTyped, ThreadsTyped, Reindex
  <2>2. ThreadsTyped'
    <3>1. /\ pc' \in [Threads -> Steps \cup {"tools", "other"}]
          /\ pc'[t] = "number" /\ \A o \in Threads \ {t} : pc'[o] = pc[o]
      BY <1>0, <1>1, OneMoves DEF Reindex, Steps
    <3>2. LocalsOK'
      BY <1>0, <1>1, <2>1, <3>1 DEF Reindex, ThreadsTyped, LocalsOK, LedgerTyped
    <3> QED
      BY <1>0, <1>1, <3>1, <3>2 DEF Reindex, ThreadsTyped, Threads
  <2> QED
    BY <1>0, <1>1, <1>b, <2>2 DEF Reindex, LedgerTyped, DiskTyped, DecidersTyped, RecordedIsOnDisk
<1>2. CASE Number(t)
  <2>1. Latest \in Numbering
    BY LatestType
  <2>2. Listed[grade[t]][run[t]] \in SUBSET Clusters
    BY <1>0 DEF ListAssumption, ThreadsTyped, LocalsOK
  <2>3. PICK h \in {0} \cup {Latest[c] : c \in Clusters} :
          /\ IsHighest(h, Latest)
          /\ mine' = [mine EXCEPT ![t] = Renumber(Listed[grade[t]][run[t]], Latest, h)]
    BY <1>2 DEF Number
  <2>4. h \in Nat
    BY <2>1 DEF Numbering
  <2>5. Renumber(Listed[grade[t]][run[t]], Latest, h) \in Numbering
    BY <2>1, <2>2, <2>3, <2>4, RenumberProperties
  <2>6. ThreadsTyped'
    BY <1>0, <1>2, <2>3, <2>5 DEF Number, ThreadsTyped, LocalsOK, Steps
  <2> QED
    BY <1>0, <1>2, <1>b, <2>6 DEF Number, LedgerTyped, DiskTyped, DecidersTyped, RecordedIsOnDisk
<1>3. CASE CountVersions(t)
  <2>1. Len(numbered) + 1 \in Nat \ {0}
    BY <1>0 DEF LedgerTyped
  <2>2. ThreadsTyped'
    BY <1>0, <1>3, <2>1 DEF CountVersions, ThreadsTyped, LocalsOK, Steps
  <2> QED
    BY <1>0, <1>3, <1>b, <2>2 DEF CountVersions, LedgerTyped, DiskTyped, DecidersTyped, RecordedIsOnDisk
<1>4. CASE SaveFile(t)
  <2>1. version[t] \in Nat \ {0} /\ mine[t] \in Numbering
    BY <1>0 DEF ThreadsTyped, LocalsOK
  <2>2. DOMAIN file' = DOMAIN file \cup {version[t]}
    BY <1>4 DEF SaveFile
  <2>3. \A v \in DOMAIN file' : file'[v] \in Numbering
    BY <1>0, <1>4, <2>1 DEF SaveFile, LedgerTyped
  <2>4. LedgerTyped'
    BY <1>0, <1>4, <2>1, <2>2, <2>3 DEF SaveFile, LedgerTyped, RecordedIsOnDisk
  <2>5. ThreadsTyped'
    <3>1. /\ pc' \in [Threads -> Steps \cup {"tools", "other"}]
          /\ pc'[t] = "record" /\ \A o \in Threads \ {t} : pc'[o] = pc[o]
      BY <1>0, <1>4, OneMoves DEF SaveFile, Steps
    <3>2. LocalsOK'
      BY <1>0, <1>4, <3>1 DEF SaveFile, ThreadsTyped, LocalsOK
    <3> QED
      BY <1>0, <1>4, <2>2, <3>1, <3>2 DEF SaveFile, ThreadsTyped, Threads
  <2> QED
    BY <1>0, <1>4, <1>b, <2>4, <2>5 DEF SaveFile, DiskTyped, DecidersTyped
<1>5. CASE RecordNumbering(t)
  <2>1. /\ version[t] \in Nat \ {0} /\ version[t] \in DOMAIN file
        /\ \A c \in Clusters : mine[t][c] \in Nat
    BY <1>0, <1>5 DEF ThreadsTyped, LocalsOK, Numbering, RecordNumbering
  <2>2. issued' \subseteq (Nat \X Clusters)
    BY <1>0, <1>5, <2>1 DEF RecordNumbering, LedgerTyped
  <2>3. LedgerTyped'
    BY <1>0, <1>5, <2>1, <2>2 DEF RecordNumbering, LedgerTyped, RecordedIsOnDisk
  <2>4. ThreadsTyped'
    BY <1>0, <1>5 DEF RecordNumbering, ThreadsTyped, LocalsOK, Steps
  <2> QED
    BY <1>0, <1>5, <1>b, <2>3, <2>4 DEF RecordNumbering, DiskTyped, DecidersTyped
<1>6. CASE OpenBuilding(t)
  <2>1. disk' \in Seq(IndexFile) /\ Len(disk') = Len(disk) + 1 /\ Len(disk) \in Nat
    BY <1>0, <1>6, BlankType DEF OpenBuilding, DiskTyped
  <2>2. DiskTyped'
    BY <1>0, <1>6, <2>1 DEF OpenBuilding, DiskTyped
  <2>3. ThreadsTyped'
    <3>1. handle' \in [Threads -> 0..Len(disk')] /\ handle'[t] # 0 /\ \A o \in Threads \ {t} : handle'[o] = handle[o]
      BY <1>0, <1>6, <2>1 DEF OpenBuilding, ThreadsTyped, LocalsOK
    <3>2. pc' \in [Threads -> Steps \cup {"tools", "other"}] /\ pc'[t] = "load"
          /\ \A o \in Threads \ {t} : pc'[o] = pc[o]
      BY <1>0, <1>6 DEF OpenBuilding, ThreadsTyped, LocalsOK, Steps
    <3> QED
      BY <1>0, <1>6, <3>1, <3>2 DEF OpenBuilding, ThreadsTyped, LocalsOK, Threads
  <2>4. DecidersTyped'
    BY <1>0, <1>b, <2>1 DEF DecidersTyped
  <2> QED
    BY <1>0, <1>6, <1>b, <2>2, <2>3, <2>4 DEF OpenBuilding, LedgerTyped, RecordedIsOnDisk
<1>7. CASE Load(t)
  <2> DEFINE new == [Blank EXCEPT !.state = "full", !.profile = grade[t], !.listed = Listed[grade[t]][run[t]],
                      !.number = [c \in Clusters |-> IF c \in Listed[grade[t]][run[t]] THEN mine[t][c] ELSE 0]]
  <2>1. new \in IndexFile
    <3>1. grade[t] \in 0..MaxProfile /\ Listed[grade[t]][run[t]] \in SUBSET Clusters /\ mine[t] \in Numbering
      BY <1>0 DEF ThreadsTyped, LocalsOK, ListAssumption
    <3>2. [c \in Clusters |-> IF c \in Listed[grade[t]][run[t]] THEN mine[t][c] ELSE 0] \in Numbering
      BY <3>1 DEF Numbering
    <3> QED
      BY <3>1, <3>2, BlankType DEF IndexFile
  <2>2. disk' = [disk EXCEPT ![handle[t]] = new]
    BY <1>7 DEF Load
  <2> HIDE DEF new
  <2>a. disk \in Seq(IndexFile) /\ handle[t] \in 1..Len(disk)
    BY <1>0, <1>7 DEF Load, DiskTyped, ThreadsTyped, LocalsOK
  <2>3. disk' \in Seq(IndexFile) /\ Len(disk') = Len(disk)
    BY <2>a, <2>1, <2>2, SeqExcept
  <2>4. ThreadsTyped'
    <3>1. /\ pc' \in [Threads -> Steps \cup {"tools", "other"}]
          /\ pc'[t] = "replace" /\ \A o \in Threads \ {t} : pc'[o] = pc[o]
      BY <1>0, <1>7, OneMoves DEF Load, Steps
    <3>2. LocalsOK'
      BY <1>0, <1>7, <2>a, <2>3, <3>1 DEF Load, ThreadsTyped, LocalsOK
    <3> QED
      BY <1>0, <1>7, <3>1, <3>2 DEF Load, ThreadsTyped, Threads
  <2> QED
    BY <1>0, <1>7, <1>b, <2>3, <2>4 DEF Load, LedgerTyped, DiskTyped, DecidersTyped, RecordedIsOnDisk
<1>8. CASE Replace(t)
  <2>1. ThreadsTyped'
    <3>0. UNCHANGED <<disk, decided, file, runs, grade, run, mine, version, known>>
      BY <1>8 DEF Replace
    <3>1. /\ \A o \in Threads \ {t} : pc'[o] = pc[o] /\ handle'[o] = handle[o]
          /\ \/ pc'[t] = "idle" /\ handle'[t] = handle[t]
             \/ pc'[t] = "read" /\ handle'[t] = building /\ building # 0
          /\ handle' \in [Threads -> 0..Len(disk)]
          /\ pc' \in [Threads -> Steps \cup {"tools", "other"}]
      <4>1. CASE building = 0
        BY <1>0, <1>8, <4>1 DEF Replace, ThreadsTyped, LocalsOK, Steps
      <4>2. CASE building # 0
        <5>1. pc' = [pc EXCEPT ![t] = "read"] /\ handle' = [handle EXCEPT ![t] = building]
          BY <1>8, <4>2 DEF Replace
        <5>2. /\ pc \in [Threads -> Steps \cup {"tools", "other"}] /\ handle \in [Threads -> 0..Len(disk)]
              /\ building \in 0..Len(disk)
          BY <1>0 DEF ThreadsTyped, LocalsOK, DiskTyped
        <5>3. /\ \A o \in Threads \ {t} : pc'[o] = pc[o] /\ handle'[o] = handle[o]
              /\ pc'[t] = "read" /\ handle'[t] = building
          BY <5>1, <5>2
        <5>4. handle' \in [Threads -> 0..Len(disk)] /\ pc' \in [Threads -> Steps \cup {"tools", "other"}]
          BY <5>1, <5>2 DEF Steps
        <5> QED
          BY <4>2, <5>3, <5>4
      <4> QED
        BY <4>1, <4>2
    <3>2. building = 0 \/ building \in 1..Len(disk)
      BY <1>0 DEF DiskTyped
    <3>3. pc[t] = "replace"
      BY <1>8 DEF Replace
    <3>4. \A o \in Threads : pc'[o] # pc[o] => o = t /\ pc'[o] \in {"idle", "read"}
      BY <3>1
    <3>5. \A o \in Threads : pc'[o] \in {"load", "replace", "read", "apply"} => handle'[o] # 0
      BY <1>0, <3>1 DEF ThreadsTyped, LocalsOK
    <3>6. LocalsOK'
      BY <1>0, <3>0, <3>1, <3>5 DEF ThreadsTyped, LocalsOK, Steps
    <3> QED
      BY <1>0, <3>0, <3>1, <3>4, <3>6 DEF ThreadsTyped, Threads
  <2>2. DiskTyped'
    BY <1>0, <1>8 DEF Replace, DiskTyped
  <2> QED
    BY <1>0, <1>8, <1>b, <2>1, <2>2 DEF Replace, LedgerTyped, DecidersTyped, RecordedIsOnDisk
<1>9. CASE ReadDecisions(t)
  <2>1. Len(decided) \in 0..Len(decided)
    BY <1>0 DEF LedgerTyped
  <2>2. ThreadsTyped'
    BY <1>0, <1>9, <2>1 DEF ReadDecisions, ThreadsTyped, LocalsOK, Steps
  <2> QED
    BY <1>0, <1>9, <1>b, <2>2 DEF ReadDecisions, LedgerTyped, DiskTyped, DecidersTyped, RecordedIsOnDisk
<1>10. CASE Apply(t)
  <2>1. PICK last \in [Clusters -> 0..known[t]] :
          disk' = [disk EXCEPT ![handle[t]] = Replayed(disk[handle[t]], last)]
    BY <1>10 DEF Apply
  <2>2. handle[t] \in 1..Len(disk) /\ known[t] \in 0..Len(decided)
    BY <1>0, <1>10 DEF Apply, ThreadsTyped, LocalsOK
  <2>3. Replayed(disk[handle[t]], last) \in IndexFile
    <3>1. disk[handle[t]] \in IndexFile
      BY <1>0, <2>2 DEF DiskTyped
    <3>2. \A c \in Clusters : last[c] \in 0..MaxDecisions
      BY <1>0, <2>2 DEF LedgerTyped, ListAssumption
    <3> QED
      BY <3>1, <3>2 DEF Replayed, IndexFile
  <2>4. disk' \in Seq(IndexFile) /\ Len(disk') = Len(disk)
    BY <1>0, <2>1, <2>2, <2>3, SeqExcept DEF DiskTyped
  <2>5. ThreadsTyped'
    BY <1>0, <1>10, <2>4 DEF Apply, ThreadsTyped, LocalsOK, Steps
  <2> QED
    BY <1>0, <1>10, <1>b, <2>4, <2>5 DEF Apply, LedgerTyped, DiskTyped, DecidersTyped, RecordedIsOnDisk
<1>11. CASE FailWrite(t)
  <2>1. ThreadsTyped'
    BY <1>0, <1>11 DEF FailWrite, ThreadsTyped, LocalsOK, Steps
  <2> QED
    BY <1>0, <1>11, <2>1 DEF FailWrite, LedgerTyped, DiskTyped, DecidersTyped, RecordedIsOnDisk
<1> QED
  BY <1>1, <1>2, <1>3, <1>4, <1>5, <1>6, <1>7, <1>8, <1>9, <1>10, <1>11 DEF Indexing

LEMMA OthersTyped ==
    ASSUME ListAssumption, Typed, [Next]_vars, ~ \E t \in Threads : Indexing(t)
    PROVE  Typed'
<1> USE DEF Goto, ledger, indexFiles, locals, deciders
<1>0. LedgerTyped /\ DiskTyped /\ ThreadsTyped /\ DecidersTyped /\ asked \in BOOLEAN /\ kills \in 0..MaxKills
  BY TypedParts
<1>a. ASSUME LedgerTyped', DiskTyped', ThreadsTyped', DecidersTyped', asked' \in BOOLEAN, kills' \in 0..MaxKills
      PROVE  Typed'
  BY <1>a DEF Typed, TypeOK, Saved, LedgerTyped, DiskTyped, ThreadsTyped, DecidersTyped
<1>b. Job \in Threads /\ grade \in [Threads -> 1..MaxProfile] /\ profile \in 1..MaxProfile
  BY <1>0 DEF Threads, LedgerTyped, ThreadsTyped, LocalsOK
<1>1. CASE StartTools
  <2>1. grade' \in [Threads -> 1..MaxProfile]
    BY <1>1, <1>b DEF StartTools
  <2> QED
    BY <1>0, <1>1, <1>b, <2>1, MoveTyped DEF StartTools
<1>2. CASE FinishTools
  <2>1. runs' \in 0..MaxRuns /\ runs + 1 \in 1..MaxRuns
    BY <1>0, <1>2 DEF FinishTools, LedgerTyped, ThreadsTyped, ListAssumption
  <2>2. LedgerTyped'
    BY <1>0, <1>2, <2>1 DEF FinishTools, LedgerTyped, RecordedIsOnDisk
  <2>3. ThreadsTyped'
    <3>1. /\ pc' \in [Threads -> Steps \cup {"tools", "other"}]
          /\ pc'[Job] = "number" /\ \A o \in Threads \ {Job} : pc'[o] = pc[o]
      BY <1>0, <1>2, <1>b, OneMoves DEF FinishTools, Steps
    <3>2. LocalsOK'
      BY <1>0, <1>2, <2>1, <1>b, <3>1 DEF FinishTools, ThreadsTyped, LocalsOK
    <3> QED
      BY <1>0, <1>2, <2>1, <1>b, <3>1, <3>2 DEF FinishTools, ThreadsTyped, Threads, LedgerTyped
  <2> QED
    BY <1>0, <1>2, <1>a, <2>2, <2>3 DEF FinishTools, DiskTyped, DecidersTyped
<1>3. CASE FailTools
  BY <1>0, <1>3, <1>b, MoveTyped DEF FailTools
<1>4. CASE StartOther
  BY <1>0, <1>4, <1>b, MoveTyped DEF StartOther
<1>5. ASSUME NEW where \in {"idle", "reindex"}, EndOther(where) PROVE Typed'
  BY <1>0, <1>5, <1>b, MoveTyped DEF EndOther
<1>6. CASE SelectProfile
  <2>1. profile' \in 1..MaxProfile
    BY <1>6, <1>b DEF SelectProfile, ListAssumption
  <2> QED
    BY <1>0, <1>6, <1>b, <2>1, MoveTyped DEF SelectProfile
<1>7. CASE Rebuild
  BY <1>0, <1>7, <1>b, MoveTyped DEF Rebuild
<1>8. CASE Refresh
  BY <1>0, <1>8, <1>b, MoveTyped DEF Refresh
<1>9. ASSUME NEW t \in Pages \cup Agents, EnsureIndex(t) PROVE Typed'
  <2>1. t \in Threads
    BY DEF Threads
  <2> QED
    BY <1>0, <1>9, <1>b, <2>1, MoveTyped DEF EnsureIndex
<1>10. ASSUME NEW d \in Deciders, OpenStore(d) PROVE Typed'
  <2>1. DecidersTyped'
    BY <1>0, <1>10 DEF OpenStore, DecidersTyped, DiskTyped
  <2> QED
    BY <1>0, <1>10, <1>a, <2>1 DEF OpenStore, LedgerTyped, DiskTyped, ThreadsTyped, LocalsOK, RecordedIsOnDisk
<1>11. ASSUME NEW d \in Deciders, NEW c \in Clusters, Decide(d, c) PROVE Typed'
  <2>1. disk[opened[d]] \in IndexFile
    BY <1>0, <1>11 DEF Decide, DecidersTyped, DiskTyped
  <2>2. [pv |-> disk[opened[d]].number[c], on |-> c] \in Decision
    BY <2>1 DEF IndexFile, Numbering, Decision
  <2>3. decided' \in Seq(Decision) /\ Len(decided') = Len(decided) + 1 /\ Len(decided') <= MaxDecisions
    BY <1>0, <1>11, <2>2 DEF Decide, LedgerTyped, ListAssumption
  <2>4. LedgerTyped'
    BY <1>0, <1>11, <2>3 DEF Decide, LedgerTyped, RecordedIsOnDisk
  <2>5. DecidersTyped'
    BY <1>0, <1>11, <2>3 DEF Decide, DecidersTyped, LedgerTyped
  <2>6. ThreadsTyped'
    BY <1>0, <1>11, <2>3 DEF Decide, ThreadsTyped, LocalsOK, LedgerTyped
  <2> QED
    BY <1>0, <1>11, <1>a, <2>4, <2>5, <2>6 DEF Decide, DiskTyped
<1>12. ASSUME NEW d \in Deciders, Mark(d) PROVE Typed'
  <2>1. /\ opened[d] \in 1..Len(disk)
        /\ noted[d] \in 0..MaxDecisions
        /\ disk[opened[d]] \in IndexFile
    BY <1>0, <1>12 DEF Mark, DecidersTyped, DiskTyped, LedgerTyped, ListAssumption
  <2> DEFINE f == disk[opened[d]]
             new == [f EXCEPT !.status = [c \in Clusters |->
                       IF c \in f.listed /\ f.number[c] = decided[noted[d]].pv THEN noted[d] ELSE f.status[c]]]
  <2>2. new \in IndexFile
    BY <2>1 DEF IndexFile
  <2>3. disk' = [disk EXCEPT ![opened[d]] = new]
    BY <1>12, <2>1 DEF Mark
  <2> HIDE DEF new
  <2>4. disk' \in Seq(IndexFile) /\ Len(disk') = Len(disk)
    BY <1>0, <2>1, <2>2, <2>3, SeqExcept DEF DiskTyped
  <2>5. DecidersTyped'
    BY <1>0, <1>12, <2>4 DEF Mark, DecidersTyped
  <2> QED
    BY <1>0, <1>12, <1>a, <2>4, <2>5 DEF Mark, LedgerTyped, DiskTyped, ThreadsTyped, LocalsOK, RecordedIsOnDisk
<1>15. ASSUME NEW d \in Deciders, FailMark(d) PROVE Typed'
  <2>1. DecidersTyped'
    BY <1>0, <1>15 DEF FailMark, DecidersTyped
  <2> QED
    BY <1>0, <1>15, <1>a, <2>1 DEF FailMark, LedgerTyped, DiskTyped, ThreadsTyped, LocalsOK, RecordedIsOnDisk
<1>13. CASE Kill
  <2>1. kills' \in 0..MaxKills
    BY <1>0, <1>13 DEF Kill, ListAssumption
  <2>2. ThreadsTyped'
    BY <1>0, <1>13, <1>b DEF Kill, ThreadsTyped, LocalsOK, Steps
  <2>3. DecidersTyped'
    BY <1>0, <1>13 DEF Kill, DecidersTyped
  <2> QED
    BY <1>0, <1>13, <1>a, <2>1, <2>2, <2>3 DEF Kill, LedgerTyped, DiskTyped, RecordedIsOnDisk
<1>14. CASE UNCHANGED vars
  BY <1>0, <1>14, <1>a DEF vars, LedgerTyped, DiskTyped, ThreadsTyped, DecidersTyped, LocalsOK, RecordedIsOnDisk
<1> QED
  BY <1>1, <1>2, <1>3, <1>4, <1>5, <1>6, <1>7, <1>8, <1>9, <1>10, <1>11, <1>12, <1>13, <1>14, <1>15 DEF Next

LEMMA TypedStep ==
    ASSUME ListAssumption, Typed, [Next]_vars
    PROVE  Typed'
BY IndexingTyped, OthersTyped

(* Types, and every recorded snapshot is on disk (analyze.py,              *)
(* _save_numbering), for any threads building at once.                     *)
THEOREM ListTypeCorrect == Spec => []TypeOK
<1>1. Init => Typed
  BY ListAssumption, InitTyped
<1>2. Typed /\ [Next]_vars => Typed'
  BY ListAssumption, TypedStep
<1>3. Typed => TypeOK
  BY DEF Typed
<1> QED
  BY <1>1, <1>2, <1>3, PTL DEF Spec

(* latest_numbering always finds the file it reads (analyze.py:188-194).   *)
THEOREM RecordedIsOnDiskTheorem == Spec => []RecordedIsOnDisk
<1>1. Init => Typed
  BY ListAssumption, InitTyped
<1>2. Typed /\ [Next]_vars => Typed'
  BY ListAssumption, TypedStep
<1>3. Typed => RecordedIsOnDisk
  BY DEF Typed, Saved
<1> QED
  BY <1>1, <1>2, <1>3, PTL DEF Spec
-----------------------------------------------------------------------------
(***************************************************************************)
(* Replay repairs, for any threads building and deciding at once: what an  *)
(* entry shows is a decision on the entry's own number (MarkedRight), so   *)
(* an entry no decision names shows none, and replay sets the others.      *)
(***************************************************************************)
Marked(f) ==
    \A c \in f.listed : f.status[c] # 0 =>
        f.status[c] \in DOMAIN decided /\ decided[f.status[c]].pv = f.number[c]
MarkedRight == \A i \in DOMAIN disk : Marked(disk[i])

LEMMA DecidedKept ==
    ASSUME Typed, NEW d \in Deciders, NEW c \in Clusters, Decide(d, c)
    PROVE  /\ DOMAIN decided \subseteq DOMAIN decided'
           /\ \A i \in DOMAIN decided : decided'[i] = decided[i]
<1>1. decided \in Seq(Decision) /\ opened[d] \in DOMAIN disk /\ disk \in Seq(IndexFile)
  BY DEF Typed, TypeOK, Saved, Decide
<1>2. disk[opened[d]] \in IndexFile
  BY <1>1, SeqElement
<1>3. disk[opened[d]].number[c] \in Nat
  BY <1>2 DEF IndexFile, Numbering
<1>4. [pv |-> disk[opened[d]].number[c], on |-> c] \in Decision
  BY <1>3 DEF Decision
<1> QED
  BY <1>1, <1>4, SeqAppend DEF Decide

LEMMA MarkedInit == ASSUME ListAssumption, Init PROVE MarkedRight
<1>1. CASE disk = <<>>
  BY <1>1 DEF MarkedRight
<1>2. CASE disk = <<OldIndex>>
  <2>1. \A c \in OldIndex.listed : OldIndex.status[c] = 0
    BY FirstProperties DEF OldIndex
  <2>2. \A i \in DOMAIN disk : disk[i] = OldIndex
    BY <1>2
  <2> QED
    BY <2>1, <2>2 DEF MarkedRight, Marked
<1> QED
  BY <1>1, <1>2 DEF Init

(* A file is created, or given new contents: marked right if they are.     *)
LEMMA MarkedFile ==
    ASSUME Typed, MarkedRight, UNCHANGED decided, NEW f, Marked(f),
           \/ disk' = Append(disk, f) /\ f \in IndexFile
           \/ \E i \in DOMAIN disk : disk' = [disk EXCEPT ![i] = f]
    PROVE  MarkedRight'
<1>1. disk \in Seq(IndexFile)
  BY DEF Typed, TypeOK
<1>2. \A i \in DOMAIN disk' : disk'[i] = f \/ (i \in DOMAIN disk /\ disk'[i] = disk[i])
  <2>1. CASE disk' = Append(disk, f) /\ f \in IndexFile
    BY <1>1, <2>1, SeqAppend
  <2>2. CASE \E i \in DOMAIN disk : disk' = [disk EXCEPT ![i] = f]
    BY <1>1, <2>2
  <2> QED
    BY <2>1, <2>2
<1> QED
  BY <1>2 DEF MarkedRight, Marked

LEMMA MarkedApply ==
    ASSUME ListAssumption, Typed, MarkedRight, NEW t \in Threads, Apply(t)
    PROVE  /\ MarkedRight'
           /\ known[t] = Len(decided) => ShowsDecisions'
<1> DEFINE f == disk[handle[t]]
<1>1. PICK last \in [Clusters -> 0..known[t]] :
        /\ \A c \in Clusters : IsLastOn(last[c], f.number[c], known[t])
        /\ disk' = [disk EXCEPT ![handle[t]] = Replayed(f, last)]
  BY DEF Apply
<1>2. /\ disk \in Seq(IndexFile) /\ handle[t] \in DOMAIN disk
      /\ known[t] \in 0..Len(decided) /\ decided \in Seq(Decision)
      /\ path = handle[t] /\ path' = path /\ decided' = decided
  BY DEF Typed, TypeOK, LocalsOK, Apply, ledger
<1>3. f \in IndexFile /\ Marked(f)
  BY <1>2, SeqElement DEF MarkedRight
<1> DEFINE g == Replayed(f, last)
<1>4. /\ g.listed = f.listed /\ g.number = f.number /\ f.listed \subseteq Clusters
      /\ \A c \in f.listed : g.status[c] = IF last[c] # 0 THEN last[c] ELSE f.status[c]
  BY <1>3 DEF Replayed, IndexFile
<1>5. \A i \in DOMAIN decided : i \in 1..Len(decided)
  BY <1>2
<1>6. \A c \in Clusters : last[c] \in 0..known[t] /\ (last[c] # 0 => last[c] \in DOMAIN decided)
  BY <1>1, <1>2
<1> HIDE DEF f, g
<1>7. Marked(g)
  BY <1>1, <1>3, <1>4, <1>6 DEF Marked, IsLastOn
<1>8. MarkedRight'
  BY <1>1, <1>2, <1>7, MarkedFile DEF g
<1>9. ASSUME known[t] = Len(decided) PROVE ShowsDecisions'
  <2>1. disk'[path'] = g
    BY <1>1, <1>2 DEF g
  <2>2. ASSUME NEW c \in g.listed PROVE IsLastOn(g.status[c], g.number[c], Len(decided))
    <3>1. IsLastOn(last[c], g.number[c], Len(decided)) /\ c \in Clusters
      BY <1>1, <1>4, <1>9, <2>2
    <3>2. CASE last[c] # 0
      BY <1>4, <2>2, <3>1, <3>2
    <3>3. CASE last[c] = 0
      <4>1. \A j \in 1..Len(decided) : decided[j].pv # g.number[c]
        BY <3>1, <3>3 DEF IsLastOn
      <4>2. g.status[c] = 0
        BY <1>3, <1>4, <1>5, <2>2, <3>3, <4>1 DEF Marked
      <4> QED
        BY <3>1, <3>3, <4>2
    <3> QED
      BY <3>2, <3>3
  <2> QED
    BY <1>2, <2>1, <2>2 DEF ShowsDecisions, IsLastOn
<1> QED
  BY <1>8, <1>9

LEMMA MarkedStep ==
    ASSUME ListAssumption, Typed, MarkedRight, [Next]_vars
    PROVE  MarkedRight'
<1> USE DEF ledger, indexFiles, locals, deciders
<1>0. disk \in Seq(IndexFile) /\ decided \in Seq(Decision)
  BY DEF Typed, TypeOK
<1>a. ASSUME UNCHANGED <<disk, decided>> PROVE MarkedRight'
  BY <1>a DEF MarkedRight, Marked
<1>1. ASSUME NEW t \in Threads, OpenBuilding(t) PROVE MarkedRight'
  <2>1. Marked(Blank)
    BY DEF Marked, Blank
  <2> QED
    BY <1>1, <2>1, BlankType, MarkedFile DEF OpenBuilding
<1>2. ASSUME NEW t \in Threads, Load(t) PROVE MarkedRight'
  <2> DEFINE entries == Listed[grade[t]][run[t]]
             new == [Blank EXCEPT !.state = "full", !.profile = grade[t], !.listed = entries,
                       !.number = [c \in Clusters |-> IF c \in entries THEN mine[t][c] ELSE 0]]
  <2>1. disk' = [disk EXCEPT ![handle[t]] = new] /\ UNCHANGED decided
    BY <1>2 DEF Load
  <2>2. handle[t] \in DOMAIN disk
    BY <1>2 DEF Load, Typed, TypeOK, LocalsOK
  <2>3. entries \subseteq Clusters
    BY DEF Typed, TypeOK, LocalsOK, ListAssumption
  <2>4. \A c \in new.listed : new.status[c] = 0
    BY <2>3 DEF Blank
  <2>5. Marked(new)
    BY <2>4 DEF Marked
  <2> HIDE DEF new
  <2> QED
    BY <2>1, <2>2, <2>5, MarkedFile
<1>3. ASSUME NEW d \in Deciders, Mark(d) PROVE MarkedRight'
  <2> DEFINE f == disk[opened[d]]
             new == [f EXCEPT !.status = [c \in Clusters |->
                       IF c \in f.listed /\ f.number[c] = decided[noted[d]].pv THEN noted[d] ELSE f.status[c]]]
  <2>1. disk' = [disk EXCEPT ![opened[d]] = new] /\ UNCHANGED decided
    BY <1>3 DEF Mark
  <2>2. opened[d] \in DOMAIN disk /\ noted[d] \in DOMAIN decided
    BY <1>3 DEF Mark, Typed, TypeOK, Saved
  <2>3. f \in IndexFile /\ Marked(f)
    BY <1>0, <2>2, SeqElement DEF MarkedRight
  <2>4. /\ new.listed = f.listed /\ new.number = f.number /\ f.listed \subseteq Clusters
        /\ \A c \in f.listed : new.status[c] = IF f.number[c] = decided[noted[d]].pv THEN noted[d] ELSE f.status[c]
    BY <2>3 DEF IndexFile
  <2> HIDE DEF new, f
  <2>5. Marked(new)
    BY <2>2, <2>3, <2>4 DEF Marked
  <2> QED
    BY <2>1, <2>2, <2>5, MarkedFile
<1>4. ASSUME NEW d \in Deciders, NEW c \in Clusters, Decide(d, c) PROVE MarkedRight'
  <2>1. disk' = disk
    BY <1>4 DEF Decide
  <2> QED
    BY <1>4, <2>1, DecidedKept DEF MarkedRight, Marked
<1>5. ASSUME NEW t \in Threads, Apply(t) PROVE MarkedRight'
  BY <1>5, MarkedApply
<1>6. ASSUME NEW t \in Threads,
             Reindex(t) \/ Number(t) \/ CountVersions(t) \/ SaveFile(t) \/ RecordNumbering(t)
             \/ Replace(t) \/ ReadDecisions(t) \/ FailWrite(t)
      PROVE  MarkedRight'
  BY <1>6, <1>a DEF Reindex, Number, CountVersions, SaveFile, RecordNumbering, Replace, ReadDecisions, FailWrite
<1>7. CASE StartTools \/ FinishTools \/ FailTools \/ StartOther \/ SelectProfile \/ Rebuild \/ Refresh \/ Kill
           \/ (\E where \in {"idle", "reindex"} : EndOther(where))
           \/ (\E t \in Pages \cup Agents : EnsureIndex(t))
           \/ (\E d \in Deciders : OpenStore(d) \/ FailMark(d))
  BY <1>7, <1>a DEF StartTools, FinishTools, FailTools, StartOther, SelectProfile, Rebuild, Refresh, Kill,
     EndOther, EnsureIndex, OpenStore, FailMark
<1>8. CASE UNCHANGED vars
  BY <1>8, <1>a DEF vars
<1> QED
  BY <1>1, <1>2, <1>3, <1>4, <1>5, <1>6, <1>7, <1>8 DEF Next, Indexing

(* replay() leaves every entry with the last decision on it, for any       *)
(* threads that build, replace and decide at the same time:                *)
(* RebuildRepairs, of overlays.py and Store.build.                         *)
THEOREM RebuildRepairsTheorem == Spec => RebuildRepairs
<1>1. Init => Typed /\ MarkedRight
  BY ListAssumption, InitTyped, MarkedInit
<1>2. Typed /\ MarkedRight /\ [Next]_vars => Typed' /\ MarkedRight'
  BY ListAssumption, TypedStep, MarkedStep
<1>3. Typed /\ MarkedRight /\ [Next]_vars
      => [\A t \in Threads : Apply(t) /\ known[t] = Len(decided) => ShowsDecisions']_vars
  BY ListAssumption, MarkedApply
<1> QED
  BY <1>1, <1>2, <1>3, PTL DEF Spec, RebuildRepairs
-----------------------------------------------------------------------------
(* One thread at a time.                                                   *)

Numbers ==
    /\ Injective(Latest)
    /\ \A x \in issued : x[1] # 0 /\ Latest[x[2]] = x[1]
    /\ \A i \in DOMAIN numbered : numbered[i] <= Len(numbered)

Pending ==
    /\ pc[Job] \in {"count", "save", "record"} => Extends(mine[Job], Latest) /\ Injective(mine[Job])
    /\ pc[Job] \in {"count", "save", "record", "open", "load"} => Covers(mine[Job], Listed[grade[Job]][run[Job]])
    /\ pc[Job] \in {"save", "record"} => version[Job] = Len(numbered) + 1
    /\ pc[Job] = "record" => file[version[Job]] = mine[Job]
    /\ pc[Job] \in {"open", "load"} => mine[Job] = Latest

FilesAgree ==
    \A i \in DOMAIN disk : \A c \in disk[i].listed : disk[i].number[c] # 0 /\ disk[i].number[c] = Latest[c]

DecisionsAgree ==
    \A i \in DOMAIN decided : decided[i].pv # 0 /\ decided[i].pv = Latest[decided[i].on]

StatusAgree ==
    \A i \in DOMAIN disk : \A c \in disk[i].listed :
        disk[i].status[c] # 0 => disk[i].status[c] \in DOMAIN decided /\ decided[disk[i].status[c]].on = c

Whole ==
    /\ pc[Job] \in {"load", "replace"} => building = handle[Job]
    /\ pc[Job] = "replace" => disk[handle[Job]].state = "full"

IInv == Typed /\ Numbers /\ Pending /\ FilesAgree /\ DecisionsAgree /\ StatusAgree /\ Whole

LEMMA SoloThread ==
    ASSUME Solo
    PROVE  Threads = {Job} /\ ~ \E t \in Pages \cup Agents : EnsureIndex(t)
BY DEF Solo, Threads

LEMMA InitInv ==
    ASSUME ListAssumption, Init
    PROVE  IInv
<1>1. Typed
  BY InitTyped
<1>2. pc[Job] = "idle" /\ decided = <<>>
  BY DEF Init, Threads
<1>3. Pending /\ Whole /\ DecisionsAgree
  BY <1>2 DEF Pending, Whole, DecisionsAgree
<1>4. CASE runs = 0 /\ numbered = <<>> /\ file = <<>> /\ disk = <<>> /\ path = 0 /\ issued = {}
  <2>1. Injective(Latest)
    BY <1>4 DEF Latest, NoNumbers, Injective
  <2> QED
    BY <1>1, <1>3, <1>4, <2>1 DEF IInv, Numbers, FilesAgree, StatusAgree
<1>5. CASE /\ runs = 1 /\ numbered = <<1>> /\ file = <<FirstNumbers>> /\ disk = <<OldIndex>> /\ path = 1
           /\ issued = {<<FirstNumbers[c], c>> : c \in Listed[1][1]}
  <2>1. Latest = FirstNumbers
    BY <1>5 DEF Latest
  <2>2. Numbers
    BY <1>5, <2>1, FirstProperties DEF Numbers, Covers
  <2>3. FilesAgree /\ StatusAgree
    <3>1. DOMAIN disk = {1} /\ disk[1] = OldIndex
      BY <1>5
    <3>2. Listed[1][1] \in SUBSET Clusters /\ Covers(FirstNumbers, Listed[1][1])
      BY FirstProperties
    <3>3. /\ OldIndex.listed = Listed[1][1]
          /\ \A c \in Clusters : OldIndex.number[c] = FirstNumbers[c] /\ OldIndex.status[c] = 0
      BY DEF OldIndex
    <3>4. FilesAgree
      BY <3>1, <3>2, <3>3, <2>1 DEF FilesAgree, Covers
    <3>5. StatusAgree
      BY <3>1, <3>2, <3>3 DEF StatusAgree
    <3> QED
      BY <3>4, <3>5
  <2> QED
    BY <1>1, <1>3, <2>2, <2>3 DEF IInv
<1> QED
  BY <1>4, <1>5 DEF Init

(* A step that leaves the snapshots, the files and the decisions alone.    *)
LEMMA AloneStep ==
    ASSUME IInv, Typed', UNCHANGED <<numbered, file, issued, decided, disk>>
    PROVE  Latest' = Latest /\ Numbers' /\ FilesAgree' /\ DecisionsAgree' /\ StatusAgree'
<1>1. Latest' = Latest
  BY DEF Latest
<1> QED
  BY <1>1 DEF IInv, Numbers, FilesAgree, DecisionsAgree, StatusAgree, Injective

LEMMA IndexingInv ==
    ASSUME ListAssumption, Solo, IInv, Typed', Indexing(Job)
    PROVE  IInv'
<1> USE DEF Goto, ledger, indexFiles, locals, deciders
<1>0. LedgerTyped /\ DiskTyped /\ ThreadsTyped /\ DecidersTyped /\ Threads = {Job}
  BY TypedParts, SoloThread DEF IInv
<1>t. pc \in [{Job} -> Steps \cup {"tools", "other"}] /\ mine \in [{Job} -> Numbering]
      /\ grade \in [{Job} -> 1..MaxProfile] /\ run \in [{Job} -> 1..MaxRuns]
      /\ version \in [{Job} -> Nat \ {0}] /\ handle \in [{Job} -> 0..Len(disk)]
  BY <1>0 DEF ThreadsTyped, LocalsOK
<1>1. CASE Reindex(Job)
  <2>1. Numbers' /\ FilesAgree' /\ DecisionsAgree' /\ StatusAgree'
    BY <1>1, AloneStep DEF Reindex
  <2>2. pc'[Job] = "number"
    BY <1>t, <1>1 DEF Reindex
  <2> QED
    BY <2>1, <2>2 DEF IInv, Pending, Whole
<1>2. CASE Number(Job)
  <2>1. Latest' = Latest /\ Numbers' /\ FilesAgree' /\ DecisionsAgree' /\ StatusAgree'
    BY <1>2, AloneStep DEF Number
  <2>2. Latest \in Numbering /\ Injective(Latest)
    BY LatestType DEF IInv, Numbers
  <2>3. Listed[grade[Job]][run[Job]] \in SUBSET Clusters
    BY <1>t DEF ListAssumption
  <2>4. PICK h \in {0} \cup {Latest[c] : c \in Clusters} :
          /\ IsHighest(h, Latest)
          /\ mine' = [mine EXCEPT ![Job] = Renumber(Listed[grade[Job]][run[Job]], Latest, h)]
    BY <1>2 DEF Number
  <2>5. h \in Nat
    BY <2>2 DEF Numbering
  <2>6. mine'[Job] = Renumber(Listed[grade[Job]][run[Job]], Latest, h) /\ pc'[Job] = "count"
        /\ grade' = grade /\ run' = run
    BY <1>t, <1>2, <2>4 DEF Number
  <2>7. /\ Extends(mine'[Job], Latest')
        /\ Injective(mine'[Job])
        /\ Covers(mine'[Job], Listed[grade'[Job]][run'[Job]])
    BY <2>1, <2>2, <2>3, <2>4, <2>5, <2>6, RenumberProperties
  <2>8. Pending' /\ Whole'
    BY <2>6, <2>7 DEF Pending, Whole
  <2> QED
    BY <2>1, <2>8 DEF IInv
<1>3. CASE CountVersions(Job)
  <2>1. Latest' = Latest /\ Numbers' /\ FilesAgree' /\ DecisionsAgree' /\ StatusAgree'
    BY <1>3, AloneStep DEF CountVersions
  <2>2. pc'[Job] = "save" /\ version'[Job] = Len(numbered) + 1 /\ pc[Job] = "count"
        /\ UNCHANGED <<mine, grade, run, numbered>>
    BY <1>t, <1>3 DEF CountVersions
  <2>3. Pending' /\ Whole'
    BY <2>1, <2>2 DEF IInv, Pending, Whole
  <2> QED
    BY <2>1, <2>3 DEF IInv
<1>4. CASE SaveFile(Job)
  <2>1. /\ pc[Job] = "save" /\ pc'[Job] = "record" /\ version[Job] = Len(numbered) + 1
        /\ UNCHANGED <<mine, grade, run, version, numbered, issued, decided, disk>>
    BY <1>t, <1>4 DEF SaveFile, IInv, Pending
  <2>2. Latest' = Latest
    <3>1. CASE numbered = <<>>
      BY <3>1, <2>1 DEF Latest
    <3>2. CASE numbered # <<>>
      <4>1. Len(numbered) \in DOMAIN numbered /\ numbered[Len(numbered)] \in DOMAIN file
        BY <1>0, <3>2 DEF LedgerTyped, RecordedIsOnDisk
      <4>2. numbered[Len(numbered)] # version[Job]
        BY <1>0, <4>1, <2>1 DEF IInv, Numbers, LedgerTyped
      <4>3. file'[numbered[Len(numbered)]] = file[numbered[Len(numbered)]]
        BY <1>4, <4>1, <4>2 DEF SaveFile
      <4> QED
        BY <3>2, <4>3, <2>1 DEF Latest
    <3> QED
      BY <3>1, <3>2
  <2>3. file'[version[Job]] = mine[Job]
    BY <1>4 DEF SaveFile
  <2>4. Numbers' /\ FilesAgree' /\ DecisionsAgree' /\ StatusAgree'
    BY <2>1, <2>2 DEF IInv, Numbers, FilesAgree, DecisionsAgree, StatusAgree, Injective
  <2>5. Pending' /\ Whole'
    BY <2>1, <2>2, <2>3 DEF IInv, Pending, Whole
  <2> QED
    BY <2>4, <2>5 DEF IInv
<1>5. CASE RecordNumbering(Job)
  <2>1. /\ pc[Job] = "record" /\ pc'[Job] = "open" /\ numbered' = Append(numbered, version[Job])
        /\ UNCHANGED <<mine, grade, run, version, file, decided, disk>>
        /\ issued' = issued \cup {<<mine[Job][c], c>> : c \in {e \in Clusters : mine[Job][e] # 0}}
    BY <1>t, <1>5 DEF RecordNumbering
  <2>2. /\ Extends(mine[Job], Latest) /\ Injective(mine[Job])
        /\ version[Job] = Len(numbered) + 1 /\ file[version[Job]] = mine[Job]
    BY <2>1 DEF IInv, Pending
  <2>3. numbered \in Seq(Nat \ {0}) /\ numbered' # <<>> /\ Len(numbered') = Len(numbered) + 1
        /\ numbered'[Len(numbered')] = version[Job]
        /\ \A i \in DOMAIN numbered' :
             i = Len(numbered) + 1 \/ (i \in DOMAIN numbered /\ numbered'[i] = numbered[i])
    <3>1. numbered \in Seq(Nat \ {0}) /\ version[Job] \in Nat \ {0}
      BY <1>0, <1>t DEF LedgerTyped
    <3>2. Len(numbered) \in Nat
      BY <3>1
    <3>3. /\ Len(numbered') = Len(numbered) + 1
          /\ numbered'[Len(numbered) + 1] = version[Job]
          /\ \A i \in DOMAIN numbered : numbered'[i] = numbered[i]
          /\ \A i \in DOMAIN numbered' : i = Len(numbered) + 1 \/ i \in DOMAIN numbered
      BY <3>1, <2>1, SeqAppend
    <3>4. numbered' # <<>>
      BY <3>2, <3>3
    <3> QED
      BY <3>1, <3>3, <3>4
  <2>4. Latest' = mine[Job]
    BY <2>1, <2>2, <2>3 DEF Latest
  <2>5. Numbers'
    <3>1. Injective(Latest')
      BY <2>2, <2>4
    <3>2. ASSUME NEW x \in issued' PROVE x[1] # 0 /\ Latest'[x[2]] = x[1]
      <4>1. CASE x \in issued
        <5>1. x[1] # 0 /\ Latest[x[2]] = x[1] /\ x[2] \in Clusters
          BY <4>1, <1>0 DEF IInv, Numbers, LedgerTyped
        <5> QED
          BY <5>1, <2>2, <2>4 DEF Extends
      <4>2. CASE x \notin issued
        BY <3>2, <4>2, <2>1, <2>4
      <4> QED
        BY <4>1, <4>2
    <3>3. ASSUME NEW i \in DOMAIN numbered' PROVE numbered'[i] <= Len(numbered')
      <4>1. CASE i = Len(numbered) + 1
        BY <4>1, <2>2, <2>3
      <4>2. CASE i \in DOMAIN numbered /\ numbered'[i] = numbered[i]
        <5>1. numbered[i] \in Nat /\ numbered[i] <= Len(numbered) /\ Len(numbered) \in Nat
          BY <4>2, <2>3, SeqElement DEF IInv, Numbers
        <5> QED
          BY <4>2, <5>1, <2>3
      <4> QED
        BY <4>1, <4>2, <2>3
    <3> QED
      BY <3>1, <3>2, <3>3 DEF Numbers, Injective
  <2>6. FilesAgree'
    <3>1. ASSUME NEW i \in DOMAIN disk, NEW c \in disk[i].listed
          PROVE  disk[i].number[c] # 0 /\ disk[i].number[c] = Latest'[c]
      <4>1. disk[i] \in IndexFile
        BY <1>0, SeqElement DEF DiskTyped
      <4>2. c \in Clusters
        BY <4>1 DEF IndexFile
      <4>3. disk[i].number[c] # 0 /\ disk[i].number[c] = Latest[c]
        BY DEF IInv, FilesAgree
      <4> QED
        BY <4>2, <4>3, <2>2, <2>4 DEF Extends
    <3> QED
      BY <3>1, <2>1 DEF FilesAgree
  <2>7. DecisionsAgree'
    <3>1. ASSUME NEW i \in DOMAIN decided
          PROVE  decided[i].pv # 0 /\ decided[i].pv = Latest'[decided[i].on]
      <4>1. decided[i] \in Decision
        BY <1>0, SeqElement DEF LedgerTyped
      <4>2. decided[i].on \in Clusters /\ decided[i].pv # 0 /\ decided[i].pv = Latest[decided[i].on]
        BY <4>1 DEF Decision, IInv, DecisionsAgree
      <4> QED
        BY <4>2, <2>2, <2>4 DEF Extends
    <3> QED
      BY <3>1, <2>1 DEF DecisionsAgree
  <2>8. StatusAgree'
    BY <2>1 DEF IInv, StatusAgree
  <2>9. Pending' /\ Whole'
    BY <2>1, <2>4 DEF IInv, Pending, Whole
  <2> QED
    BY <2>5, <2>6, <2>7, <2>8, <2>9 DEF IInv
<1>6. CASE OpenBuilding(Job)
  <2>1. /\ pc[Job] = "open" /\ pc'[Job] = "load" /\ disk' = Append(disk, Blank)
        /\ building' = handle'[Job]
        /\ UNCHANGED <<mine, grade, run, version, numbered, file, issued, decided>>
    BY <1>t, <1>6 DEF OpenBuilding
  <2>2. Latest' = Latest
    BY <2>1 DEF Latest
  <2>3. \A i \in DOMAIN disk' : disk'[i] = Blank \/ (i \in DOMAIN disk /\ disk'[i] = disk[i])
    <3>1. disk \in Seq(IndexFile) /\ Blank \in IndexFile
      BY <1>0, BlankType DEF DiskTyped
    <3>2. /\ disk'[Len(disk) + 1] = Blank
          /\ \A i \in DOMAIN disk : disk'[i] = disk[i]
          /\ \A i \in DOMAIN disk' : i = Len(disk) + 1 \/ i \in DOMAIN disk
      BY <3>1, <2>1, SeqAppend
    <3> QED
      BY <3>2
  <2>4. FilesAgree' /\ StatusAgree'
    <3>1. Blank.listed = {}
      BY DEF Blank
    <3> QED
      BY <2>1, <2>2, <2>3, <3>1 DEF IInv, FilesAgree, StatusAgree
  <2>5. Numbers' /\ DecisionsAgree'
    BY <2>1, <2>2 DEF IInv, Numbers, DecisionsAgree, Injective
  <2>6. Pending' /\ Whole'
    BY <2>1, <2>2 DEF IInv, Pending, Whole
  <2> QED
    BY <2>4, <2>5, <2>6 DEF IInv
<1>7. CASE Load(Job)
  <2> DEFINE entries == Listed[grade[Job]][run[Job]]
             new == [Blank EXCEPT !.state = "full", !.profile = grade[Job], !.listed = entries,
                      !.number = [c \in Clusters |-> IF c \in entries THEN mine[Job][c] ELSE 0]]
  <2>1. /\ pc[Job] = "load" /\ pc'[Job] = "replace" /\ disk' = [disk EXCEPT ![handle[Job]] = new]
        /\ UNCHANGED <<mine, grade, run, version, handle, building, numbered, file, issued, decided>>
    BY <1>t, <1>7 DEF Load
  <2>2. Latest' = Latest
    BY <2>1 DEF Latest
  <2>3. entries \subseteq Clusters /\ Covers(mine[Job], entries) /\ mine[Job] = Latest
    BY <1>t, <2>1 DEF IInv, Pending, ListAssumption
  <2>4. /\ new.listed = entries /\ new.state = "full"
        /\ \A c \in entries : new.number[c] = mine[Job][c] /\ new.status[c] = 0
    BY <2>3 DEF Blank
  <2> HIDE DEF new
  <2>5. handle[Job] \in DOMAIN disk /\ disk'[handle[Job]] = new
        /\ \A i \in DOMAIN disk' : i \in DOMAIN disk /\ (i # handle[Job] => disk'[i] = disk[i])
    BY <1>0, <2>1 DEF DiskTyped, ThreadsTyped, LocalsOK
  <2>6. FilesAgree' /\ StatusAgree'
    BY <2>1, <2>2, <2>3, <2>4, <2>5 DEF IInv, FilesAgree, StatusAgree, Covers
  <2>7. Numbers' /\ DecisionsAgree'
    BY <2>1, <2>2 DEF IInv, Numbers, DecisionsAgree, Injective
  <2>8. Pending' /\ Whole'
    BY <2>1, <2>4, <2>5 DEF IInv, Pending, Whole
  <2> QED
    BY <2>6, <2>7, <2>8 DEF IInv
<1>8. CASE Replace(Job)
  <2>1. Numbers' /\ FilesAgree' /\ DecisionsAgree' /\ StatusAgree'
    BY <1>8, AloneStep DEF Replace
  <2>2. pc'[Job] \in {"idle", "read"}
    BY <1>t, <1>8 DEF Replace
  <2> QED
    BY <2>1, <2>2 DEF IInv, Pending, Whole
<1>9. CASE ReadDecisions(Job)
  <2>1. Numbers' /\ FilesAgree' /\ DecisionsAgree' /\ StatusAgree'
    BY <1>9, AloneStep DEF ReadDecisions
  <2>2. pc'[Job] = "apply"
    BY <1>t, <1>9 DEF ReadDecisions
  <2> QED
    BY <2>1, <2>2 DEF IInv, Pending, Whole
<1>10. CASE Apply(Job)
  <2> DEFINE f == disk[handle[Job]]
  <2>1. PICK last \in [Clusters -> 0..known[Job]] :
          /\ \A c \in Clusters : IsLastOn(last[c], f.number[c], known[Job])
          /\ disk' = [disk EXCEPT ![handle[Job]] = Replayed(f, last)]
    BY <1>10 DEF Apply
  <2>2. /\ handle[Job] \in DOMAIN disk /\ f \in IndexFile
        /\ known[Job] \in 0..Len(decided) /\ disk \in Seq(IndexFile) /\ decided \in Seq(Decision)
    BY <1>0, <1>10 DEF Apply, ThreadsTyped, LocalsOK, DiskTyped, LedgerTyped
  <2>3. /\ pc'[Job] = "idle"
        /\ UNCHANGED <<numbered, file, issued, decided>>
    BY <1>t, <1>10 DEF Apply
  <2>4. Latest' = Latest
    BY <2>3 DEF Latest
  <2>5. /\ Replayed(f, last).listed = f.listed /\ Replayed(f, last).number = f.number
        /\ \A c \in f.listed : Replayed(f, last).status[c] = IF last[c] # 0 THEN last[c] ELSE f.status[c]
    BY <2>2 DEF Replayed, IndexFile
  <2>6. ASSUME NEW c \in f.listed, last[c] # 0
        PROVE  last[c] \in DOMAIN decided /\ decided[last[c]].on = c
    <3>0. c \in Clusters
      BY <2>2 DEF IndexFile
    <3>a. last[c] \in 0..known[Job] /\ known[Job] \in Nat /\ Len(decided) \in Nat /\ known[Job] <= Len(decided)
      BY <3>0, <2>2
    <3>1. c \in Clusters /\ last[c] \in DOMAIN decided
      BY <2>2, <2>6, <3>0, <3>a
    <3>2. decided[last[c]].pv = f.number[c] /\ f.number[c] = Latest[c] /\ Latest[c] # 0
      BY <2>1, <2>2, <2>6, <3>1 DEF IsLastOn, IInv, FilesAgree
    <3>3. decided[last[c]].pv = Latest[decided[last[c]].on] /\ decided[last[c]].on \in Clusters
      <4>1. decided[last[c]] \in Decision
        BY <2>2, <3>1, SeqElement
      <4> QED
        BY <3>1, <4>1 DEF IInv, DecisionsAgree, Decision
    <3> QED
      BY <3>1, <3>2, <3>3 DEF IInv, Numbers, Injective
  <2>7. disk'[handle[Job]] = Replayed(f, last)
        /\ \A i \in DOMAIN disk' : i \in DOMAIN disk /\ (i # handle[Job] => disk'[i] = disk[i])
    BY <2>1, <2>2
  <2>8. FilesAgree'
    BY <2>2, <2>4, <2>5, <2>7 DEF IInv, FilesAgree
  <2>9. StatusAgree'
    <3>1. ASSUME NEW i \in DOMAIN disk', NEW c \in disk'[i].listed, disk'[i].status[c] # 0
          PROVE  disk'[i].status[c] \in DOMAIN decided /\ decided[disk'[i].status[c]].on = c
      <4>1. CASE i = handle[Job]
        <5>1. c \in f.listed /\ disk'[i].status[c] = IF last[c] # 0 THEN last[c] ELSE f.status[c]
          BY <3>1, <4>1, <2>5, <2>7
        <5>2. CASE last[c] # 0
          BY <5>1, <5>2, <2>6
        <5>3. CASE last[c] = 0
          <6>1. disk'[i].status[c] = f.status[c] /\ f.status[c] # 0
            BY <3>1, <5>1, <5>3
          <6> QED
            BY <5>1, <6>1, <2>2 DEF IInv, StatusAgree
        <5> QED
          BY <5>2, <5>3
      <4>2. CASE i # handle[Job]
        BY <3>1, <4>2, <2>7 DEF IInv, StatusAgree
      <4> QED
        BY <4>1, <4>2
    <3> QED
      BY <3>1, <2>3 DEF StatusAgree
  <2>10. Numbers' /\ DecisionsAgree'
    BY <2>3, <2>4 DEF IInv, Numbers, DecisionsAgree, Injective
  <2> QED
    BY <2>3, <2>8, <2>9, <2>10 DEF IInv, Pending, Whole
<1>11. CASE FailWrite(Job)
  <2>1. Numbers' /\ FilesAgree' /\ DecisionsAgree' /\ StatusAgree'
    BY <1>11, AloneStep DEF FailWrite
  <2>2. pc'[Job] = "idle"
    BY <1>t, <1>11 DEF FailWrite
  <2> QED
    BY <2>1, <2>2 DEF IInv, Pending, Whole
<1> QED
  BY <1>1, <1>2, <1>3, <1>4, <1>5, <1>6, <1>7, <1>8, <1>9, <1>10, <1>11 DEF Indexing

(* The steps outside index().                                              *)
LEMMA OthersInv ==
    ASSUME ListAssumption, Solo, IInv, Typed', [Next]_vars, ~Indexing(Job)
    PROVE  IInv'
<1> USE DEF Goto, ledger, indexFiles, locals, deciders
<1>0. LedgerTyped /\ DiskTyped /\ ThreadsTyped /\ DecidersTyped /\ Threads = {Job}
  BY TypedParts, SoloThread DEF IInv
<1>t. pc \in [{Job} -> Steps \cup {"tools", "other"}]
  BY <1>0 DEF ThreadsTyped, LocalsOK
<1>q. ASSUME pc'[Job] \in {"idle", "reindex", "number", "tools", "other"},
             UNCHANGED <<numbered, file, issued, decided, disk>>
      PROVE  IInv'
  <2>1. Numbers' /\ FilesAgree' /\ DecisionsAgree' /\ StatusAgree'
    BY <1>q, AloneStep
  <2> QED
    BY <1>q, <2>1 DEF IInv, Pending, Whole
<1>p. ASSUME UNCHANGED <<pc, mine, grade, run, version, handle, building, numbered, file, issued, decided, disk>>
      PROVE  IInv'
  <2>1. Latest' = Latest /\ Numbers' /\ FilesAgree' /\ DecisionsAgree' /\ StatusAgree'
    BY <1>p, AloneStep
  <2> QED
    BY <1>p, <2>1 DEF IInv, Pending, Whole
<1>1. CASE StartTools
  BY <1>1, <1>t, <1>q DEF StartTools
<1>2. CASE FinishTools
  BY <1>2, <1>t, <1>q DEF FinishTools
<1>3. CASE FailTools
  BY <1>3, <1>t, <1>q DEF FailTools
<1>4. CASE StartOther
  BY <1>4, <1>t, <1>q DEF StartOther
<1>5. ASSUME NEW where \in {"idle", "reindex"}, EndOther(where) PROVE IInv'
  BY <1>5, <1>t, <1>q DEF EndOther
<1>6. CASE SelectProfile
  BY <1>6, <1>p DEF SelectProfile
<1>7. CASE Rebuild
  <2>1. CASE pc' = pc
    BY <1>7, <2>1, <1>p DEF Rebuild
  <2>2. CASE pc' = [pc EXCEPT ![Job] = "reindex"]
    BY <1>7, <2>2, <1>t, <1>q DEF Rebuild
  <2> QED
    BY <1>7, <2>1, <2>2 DEF Rebuild
<1>8. CASE Refresh
  BY <1>8, <1>t, <1>q DEF Refresh
<1>9. ASSUME NEW d \in Deciders, OpenStore(d) PROVE IInv'
  BY <1>9, <1>p DEF OpenStore
<1>10. ASSUME NEW d \in Deciders, NEW c \in Clusters, Decide(d, c) PROVE IInv'
  <2> DEFINE f == disk[opened[d]]
             new == [pv |-> f.number[c], on |-> c]
  <2>1. /\ decided' = Append(decided, new)
        /\ c \in f.listed
        /\ deciding[d] = "open"
        /\ UNCHANGED <<pc, mine, grade, run, version, handle, building, numbered, file, issued, disk>>
    BY <1>10 DEF Decide
  <2>2. opened[d] \in DOMAIN disk
    BY <1>0, <2>1 DEF DecidersTyped, DiskTyped
  <2>3. f.number[c] # 0 /\ f.number[c] = Latest[c]
    BY <2>1, <2>2 DEF IInv, FilesAgree
  <2>4. f \in IndexFile
    BY <1>0, <2>2, SeqElement DEF DiskTyped
  <2>5. decided \in Seq(Decision) /\ new \in Decision
    BY <1>0, <2>4 DEF LedgerTyped, IndexFile, Numbering, Decision
  <2>6. new.pv = f.number[c] /\ new.on = c
    OBVIOUS
  <2> HIDE DEF new
  <2>7. /\ decided'[Len(decided) + 1] = new
        /\ \A i \in DOMAIN decided : i \in DOMAIN decided' /\ decided'[i] = decided[i]
        /\ \A i \in DOMAIN decided' : i = Len(decided) + 1 \/ i \in DOMAIN decided
    BY <2>1, <2>5, SeqAppend
  <2>8. Latest' = Latest
    BY <2>1 DEF Latest
  <2>9. DecisionsAgree'
    <3>1. ASSUME NEW i \in DOMAIN decided'
          PROVE  decided'[i].pv # 0 /\ decided'[i].pv = Latest[decided'[i].on]
      <4>1. CASE i = Len(decided) + 1
        BY <4>1, <2>3, <2>6, <2>7
      <4>2. CASE i \in DOMAIN decided
        BY <4>2, <2>7 DEF IInv, DecisionsAgree
      <4> QED
        BY <4>1, <4>2, <2>7
    <3> QED
      BY <3>1, <2>8 DEF DecisionsAgree
  <2>10. StatusAgree'
    BY <2>1, <2>7 DEF IInv, StatusAgree
  <2>11. Numbers' /\ FilesAgree' /\ Pending' /\ Whole'
    BY <2>1, <2>8 DEF IInv, Numbers, FilesAgree, Pending, Whole, Injective
  <2> QED
    BY <2>9, <2>10, <2>11 DEF IInv
<1>11. ASSUME NEW d \in Deciders, Mark(d) PROVE IInv'
  <2> DEFINE f == disk[opened[d]]
             new == [f EXCEPT !.status = [c \in Clusters |->
                       IF c \in f.listed /\ f.number[c] = decided[noted[d]].pv THEN noted[d] ELSE f.status[c]]]
  <2>1. /\ disk' = [disk EXCEPT ![opened[d]] = new]
        /\ deciding[d] = "mark"
        /\ UNCHANGED <<pc, mine, grade, run, version, handle, building, numbered, file, issued, decided>>
    BY <1>11 DEF Mark
  <2>2. opened[d] \in DOMAIN disk /\ noted[d] \in DOMAIN decided
    <3>1. opened[d] # 0 /\ noted[d] # 0 /\ opened[d] \in 0..Len(disk) /\ noted[d] \in 0..Len(decided)
      BY <1>0, <2>1 DEF DecidersTyped
    <3> QED
      BY <3>1, <1>0 DEF DiskTyped, LedgerTyped
  <2>3. f \in IndexFile /\ disk \in Seq(IndexFile) /\ decided[noted[d]] \in Decision
    BY <1>0, <2>2, SeqElement DEF DiskTyped, LedgerTyped
  <2>4. f.listed \subseteq Clusters
    BY <2>3 DEF IndexFile
  <2>5. /\ new.listed = f.listed /\ new.number = f.number /\ new.state = f.state
        /\ \A c \in f.listed : new.status[c] = IF f.number[c] = decided[noted[d]].pv THEN noted[d] ELSE f.status[c]
    BY <2>3, <2>4 DEF IndexFile
  <2> HIDE DEF new
  <2>6. disk'[opened[d]] = new
        /\ \A i \in DOMAIN disk' : i \in DOMAIN disk /\ (i # opened[d] => disk'[i] = disk[i])
    BY <2>1, <2>2, <2>3
  <2>7. Latest' = Latest
    BY <2>1 DEF Latest
  <2>8. ASSUME NEW c \in f.listed, f.number[c] = decided[noted[d]].pv
        PROVE  decided[noted[d]].on = c
    <3>1. c \in Clusters /\ f.number[c] = Latest[c] /\ Latest[c] # 0
      BY <2>2, <2>4 DEF IInv, FilesAgree
    <3>2. decided[noted[d]].pv = Latest[decided[noted[d]].on] /\ decided[noted[d]].on \in Clusters
      BY <2>2, <2>3 DEF IInv, DecisionsAgree, Decision
    <3> QED
      BY <2>8, <3>1, <3>2 DEF IInv, Numbers, Injective
  <2>9. FilesAgree'
    BY <2>2, <2>5, <2>6, <2>7 DEF IInv, FilesAgree
  <2>10. StatusAgree'
    <3>1. ASSUME NEW i \in DOMAIN disk', NEW c \in disk'[i].listed, disk'[i].status[c] # 0
          PROVE  disk'[i].status[c] \in DOMAIN decided /\ decided[disk'[i].status[c]].on = c
      <4>1. CASE i = opened[d]
        <5>1. c \in f.listed /\ disk'[i].status[c] = new.status[c]
          BY <4>1, <2>5, <2>6
        <5>2. CASE f.number[c] = decided[noted[d]].pv
          <6>1. disk'[i].status[c] = noted[d]
            BY <5>1, <5>2, <2>5
          <6> QED
            BY <6>1, <5>1, <5>2, <2>2, <2>8
        <5>3. CASE f.number[c] # decided[noted[d]].pv
          <6>1. disk'[i].status[c] = f.status[c]
            BY <5>1, <5>3, <2>5
          <6>2. disk[opened[d]].status[c] # 0
            BY <3>1, <6>1
          <6>3. c \in disk[opened[d]].listed
            BY <5>1
          <6>4. /\ disk[opened[d]].status[c] \in DOMAIN decided
                /\ decided[disk[opened[d]].status[c]].on = c
            BY <6>2, <6>3, <2>2 DEF IInv, StatusAgree
          <6> QED
            BY <6>1, <6>4
        <5> QED
          BY <5>2, <5>3
      <4>2. CASE i # opened[d]
        BY <3>1, <4>2, <2>6 DEF IInv, StatusAgree
      <4> QED
        BY <4>1, <4>2
    <3> QED
      BY <3>1, <2>1 DEF StatusAgree
  <2>11. Numbers' /\ DecisionsAgree' /\ Pending'
    BY <2>1, <2>7 DEF IInv, Numbers, DecisionsAgree, Pending, Injective
  <2>12. Whole'
    <3>1. CASE pc[Job] = "replace"
      <4>1. handle[Job] \in DOMAIN disk
        BY <1>0, <3>1 DEF ThreadsTyped, LocalsOK, DiskTyped
      <4>2. disk[handle[Job]].state = "full"
        BY <3>1 DEF IInv, Whole
      <4>3. disk'[handle[Job]].state = "full"
        BY <4>1, <4>2, <2>1, <2>3, <2>5, <2>6
      <4> QED
        BY <3>1, <4>3, <2>1 DEF IInv, Whole
    <3>2. CASE pc[Job] # "replace"
      BY <3>2, <2>1 DEF IInv, Whole
    <3> QED
      BY <3>1, <3>2
  <2> QED
    BY <2>9, <2>10, <2>11, <2>12 DEF IInv
<1>14. ASSUME NEW d \in Deciders, FailMark(d) PROVE IInv'
  BY <1>14, <1>p DEF FailMark
<1>12. CASE Kill
  <2>1. pc'[Job] = "idle"
    BY <1>0, <1>12 DEF Kill
  <2> QED
    BY <1>12, <2>1, <1>q DEF Kill
<1>13. CASE UNCHANGED vars
  BY <1>13, <1>p DEF vars
<1> QED
  BY <1>0, <1>1, <1>2, <1>3, <1>4, <1>5, <1>6, <1>7, <1>8, <1>9, <1>10, <1>11, <1>12, <1>13, <1>14, SoloThread DEF Next

LEMMA StepInv ==
    ASSUME ListAssumption, Solo, IInv, [Next]_vars
    PROVE  IInv'
<1>1. Typed'
  BY TypedStep DEF IInv
<1> QED
  BY <1>1, IndexingInv, OthersInv

(* No number is ever given to two defects, and a defect keeps its number   *)
(* (number(), _save_numbering), when index() runs in one thread.           *)
THEOREM NumberedForGoodTheorem == Solo => (Spec => []NumberedForGood)
<1> SUFFICES ASSUME Solo PROVE Spec => []NumberedForGood
  OBVIOUS
<1>1. Init => IInv
  BY ListAssumption, InitInv
<1>2. IInv /\ [Next]_vars => IInv'
  BY ListAssumption, StepInv
<1>3. IInv => NumberedForGood
  <2>1. SUFFICES ASSUME IInv, NEW x \in issued, NEW y \in issued PROVE x[1] = y[1] <=> x[2] = y[2]
    BY DEF NumberedForGood
  <2>2. /\ x[1] # 0 /\ Latest[x[2]] = x[1] /\ y[1] # 0 /\ Latest[y[2]] = y[1]
        /\ x[2] \in Clusters /\ y[2] \in Clusters
    BY <2>1, TypedParts DEF IInv, Numbers, LedgerTyped
  <2> QED
    BY <2>1, <2>2 DEF IInv, Numbers, Injective
<1> QED
  BY <1>1, <1>2, <1>3, PTL DEF Spec

(* What the list shows under a number is what the last snapshot keeps      *)
(* under it (analyze.index), when index() runs in one thread.              *)
THEOREM ListIsNumberedTheorem == Solo => (Spec => []ListIsNumbered)
<1> SUFFICES ASSUME Solo PROVE Spec => []ListIsNumbered
  OBVIOUS
<1>1. Init => IInv
  BY ListAssumption, InitInv
<1>2. IInv /\ [Next]_vars => IInv'
  BY ListAssumption, StepInv
<1>3. IInv => ListIsNumbered
  <2>1. SUFFICES ASSUME IInv, path # 0 PROVE path \in DOMAIN disk
    BY DEF IInv, FilesAgree, ListIsNumbered
  <2> QED
    BY <2>1, TypedParts DEF IInv, DiskTyped
<1> QED
  BY <1>1, <1>2, <1>3, PTL DEF Spec

(* A decision is shown only on the defect it was made on (overlays.py),    *)
(* when index() runs in one thread.                                        *)
THEOREM FollowsTheDefectTheorem == Solo => (Spec => []FollowsTheDefect)
<1> SUFFICES ASSUME Solo PROVE Spec => []FollowsTheDefect
  OBVIOUS
<1>1. Init => IInv
  BY ListAssumption, InitInv
<1>2. IInv /\ [Next]_vars => IInv'
  BY ListAssumption, StepInv
<1>3. IInv => FollowsTheDefect
  <2>1. SUFFICES ASSUME IInv, path # 0 PROVE path \in DOMAIN disk
    BY DEF IInv, StatusAgree, FollowsTheDefect
  <2> QED
    BY <2>1, TypedParts DEF IInv, DiskTyped
<1> QED
  BY <1>1, <1>2, <1>3, PTL DEF Spec
LEMMA CurrentStep ==
    ASSUME ListAssumption, Solo, IInv, [Next]_vars, Current
    PROVE  Current'
<1> USE DEF ledger, indexFiles, locals, deciders
<1>0. LedgerTyped /\ DiskTyped /\ ThreadsTyped /\ DecidersTyped /\ Threads = {Job}
  BY TypedParts, SoloThread DEF IInv
<1>1. path \in DOMAIN disk /\ disk[path].state = "full" /\ disk \in Seq(IndexFile)
  BY <1>0 DEF Current, DiskTyped
<1>a. ASSUME UNCHANGED <<disk, path>> PROVE Current'
  BY <1>a DEF Current
<1>2. CASE OpenBuilding(Job)
  <2>1. disk' = Append(disk, Blank) /\ path' = path
    BY <1>2 DEF OpenBuilding
  <2>2. disk'[path] = disk[path]
    BY <2>1, <1>1, BlankType, SeqAppend
  <2> QED
    BY <2>1, <2>2 DEF Current
<1>3. CASE Load(Job)
  <2> DEFINE entries == Listed[grade[Job]][run[Job]]
             new == [Blank EXCEPT !.state = "full", !.profile = grade[Job], !.listed = entries,
                      !.number = [c \in Clusters |-> IF c \in entries THEN mine[Job][c] ELSE 0]]
  <2>0. new.state = "full"
    BY DEF Blank
  <2>1. disk' = [disk EXCEPT ![handle[Job]] = new] /\ path' = path
    BY <1>3 DEF Load
  <2> HIDE DEF new
  <2>2. disk'[path].state = "full"
    BY <2>0, <2>1, <1>1
  <2> QED
    BY <2>1, <2>2, <1>1 DEF Current
<1>4. CASE Replace(Job)
  <2>1. pc[Job] = "replace" /\ disk' = disk
    BY <1>4 DEF Replace
  <2>2. building = handle[Job] /\ disk[handle[Job]].state = "full" /\ handle[Job] # 0
    BY <1>0, <2>1 DEF IInv, Whole, ThreadsTyped, LocalsOK
  <2>3. path' = building \/ path' = path
    BY <1>4 DEF Replace
  <2> QED
    BY <2>1, <2>2, <2>3, <1>1 DEF Current
<1>5. CASE Apply(Job)
  <2>1. PICK last : disk' = [disk EXCEPT ![handle[Job]] = Replayed(disk[handle[Job]], last)] /\ path' = path
    BY <1>5 DEF Apply
  <2>2. handle[Job] \in DOMAIN disk
    BY <1>0, <1>5 DEF Apply, ThreadsTyped, LocalsOK, DiskTyped
  <2>3. disk[handle[Job]] \in IndexFile
    BY <1>1, <2>2, SeqElement
  <2>4. Replayed(disk[handle[Job]], last).state = disk[handle[Job]].state
    BY <2>3 DEF Replayed, IndexFile
  <2>5. disk'[path].state = "full"
    BY <2>1, <2>4, <1>1
  <2> QED
    BY <2>1, <2>5, <1>1 DEF Current
<1>6. ASSUME NEW d \in Deciders, Mark(d) PROVE Current'
  <2>1. /\ opened[d] \in DOMAIN disk
        /\ path' = path
    BY <1>0, <1>6 DEF Mark, DecidersTyped, DiskTyped
  <2>2. disk[opened[d]] \in IndexFile
    BY <1>1, <2>1, SeqElement
  <2> DEFINE f == disk[opened[d]]
             new == [f EXCEPT !.status = [c \in Clusters |->
                       IF c \in f.listed /\ f.number[c] = decided[noted[d]].pv THEN noted[d] ELSE f.status[c]]]
  <2>3. disk' = [disk EXCEPT ![opened[d]] = new]
    BY <1>6 DEF Mark
  <2>a. new.state = f.state
    BY <2>2 DEF IndexFile
  <2> HIDE DEF new
  <2>4. disk'[path].state = "full"
    BY <2>3, <2>a, <1>1
  <2> QED
    BY <2>1, <2>4, <1>1 DEF Current
<1>7. CASE Reindex(Job) \/ Number(Job) \/ CountVersions(Job) \/ SaveFile(Job) \/ RecordNumbering(Job)
           \/ ReadDecisions(Job) \/ FailWrite(Job)
  BY <1>7, <1>a DEF FailWrite, Reindex, Number, CountVersions, SaveFile, RecordNumbering, ReadDecisions
<1>8. CASE StartTools \/ FinishTools \/ FailTools \/ StartOther \/ SelectProfile \/ Rebuild \/ Refresh \/ Kill
  BY <1>8, <1>a DEF StartTools, FinishTools, FailTools, StartOther, SelectProfile, Rebuild, Refresh, Kill
<1>9. ASSUME NEW where \in {"idle", "reindex"}, EndOther(where) PROVE Current'
  BY <1>9, <1>a DEF EndOther
<1>10. ASSUME NEW d \in Deciders, OpenStore(d) PROVE Current'
  BY <1>10, <1>a DEF OpenStore
<1>11. ASSUME NEW d \in Deciders, NEW c \in Clusters, Decide(d, c) PROVE Current'
  BY <1>11, <1>a DEF Decide
<1>13. ASSUME NEW d \in Deciders, FailMark(d) PROVE Current'
  BY <1>13, <1>a DEF FailMark
<1>12. CASE UNCHANGED vars
  BY <1>12, <1>a DEF vars
<1> QED
  BY <1>0, <1>2, <1>3, <1>4, <1>5, <1>6, <1>7, <1>8, <1>9, <1>10, <1>11, <1>12, <1>13, SoloThread DEF Next, Indexing

(* "A half-built index never replaces a good one" (store.py:84), when      *)
(* index() runs in one thread.                                             *)
THEOREM GoodStaysGoodTheorem == Solo => (Spec => GoodStaysGood)
<1> SUFFICES ASSUME Solo PROVE Spec => GoodStaysGood
  OBVIOUS
<1>1. Init => IInv
  BY ListAssumption, InitInv
<1>2. IInv /\ [Next]_vars => IInv'
  BY ListAssumption, StepInv
<1>3. IInv /\ [Next]_vars => [Current => Current']_vars
  BY ListAssumption, CurrentStep
<1> QED
  BY <1>1, <1>2, <1>3, PTL DEF Spec, GoodStaysGood
=============================================================================
