------------------------------ MODULE ListIndex ------------------------------
(***************************************************************************)
(* The vulnerability list: index.sqlite, the PV numbering behind it and    *)
(* the decisions replayed onto it (evidence/analyze.py, store.py,          *)
(* overlays.py, sesip/pv.py, and the places of web/server.py and           *)
(* kernel/tools.py that rebuild it).                                       *)
(*                                                                         *)
(* The index is derived.  index() grades the evidence of a run under a     *)
(* profile, numbers it against the last pv_numbered snapshot, writes a     *)
(* fresh SQLite file next to the old one, renames it over it and replays   *)
(* the ledger's decisions.  One job runs at a time, but ensure_index runs  *)
(* index() in whatever thread needs the list, and a decision goes to the   *)
(* ledger and to the file the request has open.                            *)
(*                                                                         *)
(* A file is an inode: an entry of `disk` that a thread may hold open      *)
(* after index.sqlite (`path`) or index.sqlite.building (`building`) names *)
(* another; SQLite still reads such a file, and refuses to write it        *)
(* ("attempt to write a readonly database").  A cluster stands for one     *)
(* defect, followed across runs by number()'s matching; its numeral is its *)
(* place in the order in which new entries are numbered.                   *)
(***************************************************************************)
EXTENDS Naturals, Sequences, FiniteSets

CONSTANTS
    Clusters,       \* the defects
    Listed,         \* Listed[p][r]: what run r found and profile p lists
    Job,            \* the thread of the evaluation's one job
    Pages,          \* request threads (Handler._store, export)
    Agents,         \* conversation threads (kernel/tools.py)
    Deciders,       \* requests that record a decision
    MaxProfile, MaxRuns, MaxBuilds, MaxDecisions, MaxKills   \* bounds

ASSUME ListAssumption ==
    /\ Clusters \subseteq Nat
    /\ IsFiniteSet(Clusters)
    /\ MaxProfile \in Nat \ {0}
    /\ MaxRuns \in Nat \ {0}
    /\ MaxBuilds \in Nat /\ MaxDecisions \in Nat /\ MaxKills \in Nat
    /\ Listed \in [1..MaxProfile -> [1..MaxRuns -> SUBSET Clusters]]
    /\ Job \notin Pages \cup Agents

Threads == {Job} \cup Pages \cup Agents

VARIABLES
    profile,    \* the last profile_selected record
    asked,      \* a request has selected a profile and not yet called rebuild()
    runs,       \* call_finished records with a run directory
    numbered,   \* the versions of the pv_numbered records, in ledger order
    file,       \* pv/numbering.v<n>.jsonl, by n
    decided,    \* the decisions in the ledger: the number, and the defect it was for
    disk,       \* the index files ever created
    path,       \* the inode of index.sqlite, 0 if there is none
    building,   \* the inode of index.sqlite.building
    pc,         \* where a thread is: busy outside index(), or a step of index()
    grade,      \* index()'s profile
    run,        \* index()'s run_dir
    mine,       \* index()'s new numbering
    version,    \* _save_numbering's version
    handle,     \* the file index() has open
    known,      \* how many decisions replay() read
    deciding,   \* where a decision is: "idle", "open" (it has the file), "mark"
    opened,     \* the file it has open
    noted,      \* the record it appended
    issued,     \* history: every <<number, defect>> a pv_numbered record gave
    kills       \* how often the process died

ledger == <<profile, runs, numbered, decided>>
indexFiles == <<disk, path, building>>
locals == <<grade, run, mine, version, handle, known>>
deciders == <<deciding, opened, noted>>
vars == <<ledger, asked, file, indexFiles, pc, locals, deciders, issued, kills>>

NoNumbers == [c \in Clusters |-> 0]

Blank == [state |-> "partial", profile |-> 0, listed |-> {}, number |-> NoNumbers,
          status |-> [c \in Clusters |-> 0]]

Latest == IF numbered = <<>> THEN NoNumbers ELSE file[numbered[Len(numbered)]]

IsHighest(h, old) == \A c \in Clusters : old[c] <= h

Fresh(entries, old) == {c \in entries : old[c] = 0}
Rank(c, new) == Cardinality({d \in new : d <= c})

Renumber_Anew(entries, old, h) == [c \in Clusters |-> IF c \in entries THEN Rank(c, entries) ELSE 0]

Renumber(entries, old, h) ==
    [c \in Clusters |-> IF c \in Fresh(entries, old) THEN h + Rank(c, Fresh(entries, old)) ELSE old[c]]

Current == path # 0 /\ disk[path].state = "full"

JobIdle == pc[Job] = "idle"

(* A fresh evaluation, or one whose list an older version of the program   *)
(* built from its one run.                                                 *)
FirstNumbers == Renumber(Listed[1][1], NoNumbers, 0)

OldIndex == [state |-> "old", profile |-> 1, listed |-> Listed[1][1],
             number |-> FirstNumbers, status |-> [c \in Clusters |-> 0]]

Init ==
    /\ profile = 1
    /\ asked = FALSE
    /\ \/ /\ runs = 0
          /\ numbered = <<>>
          /\ file = <<>>
          /\ disk = <<>>
          /\ path = 0
          /\ issued = {}
       \/ /\ runs = 1
          /\ numbered = <<1>>
          /\ file = <<FirstNumbers>>
          /\ disk = <<OldIndex>>
          /\ path = 1
          /\ issued = {<<FirstNumbers[c], c>> : c \in Listed[1][1]}
    /\ decided = <<>>
    /\ building = 0
    /\ pc = [t \in Threads |-> "idle"]
    /\ grade = [t \in Threads |-> 1]
    /\ run = [t \in Threads |-> 1]
    /\ mine = [t \in Threads |-> NoNumbers]
    /\ version = [t \in Threads |-> 1]
    /\ handle = [t \in Threads |-> 0]
    /\ known = [t \in Threads |-> 0]
    /\ deciding = [d \in Deciders |-> "idle"]
    /\ opened = [d \in Deciders |-> 0]
    /\ noted = [d \in Deciders |-> 0]
    /\ kills = 0

Goto(t, where) == pc' = [pc EXCEPT ![t] = where]
-----------------------------------------------------------------------------
(* The job: the tools, a rebuild, or another kind of job, one at a time.   *)

(* evaluate() chooses the profile before the tools run.                    *)
StartTools ==
    /\ JobIdle
    /\ runs < MaxRuns
    /\ grade' = [grade EXCEPT ![Job] = profile]
    /\ Goto(Job, "tools")
    /\ UNCHANGED <<ledger, asked, file, indexFiles, run, mine, version, handle, known, deciders, issued, kills>>

FinishTools ==
    /\ pc[Job] = "tools"
    /\ runs' = runs + 1
    /\ run' = [run EXCEPT ![Job] = runs + 1]
    /\ Goto(Job, "number")
    /\ UNCHANGED <<profile, numbered, decided, asked, file, indexFiles, grade, mine, version, handle, known,
                   deciders, issued, kills>>

(* The run was cancelled (exit code 130) or it raised.                     *)
FailTools ==
    /\ pc[Job] = "tools"
    /\ Goto(Job, "idle")
    /\ UNCHANGED <<ledger, asked, file, indexFiles, locals, deciders, issued, kills>>

(* A review, a profile extraction, a build configuration or a patch.       *)
StartOther ==
    /\ JobIdle
    /\ Goto(Job, "other")
    /\ UNCHANGED <<ledger, asked, file, indexFiles, locals, deciders, issued, kills>>

(* Only a review that promoted something and a patch reindex at the end.   *)
EndOther(where) ==
    /\ pc[Job] = "other"
    /\ where = "reindex" => runs > 0
    /\ Goto(Job, where)
    /\ UNCHANGED <<ledger, asked, file, indexFiles, locals, deciders, issued, kills>>

(* post_profile, post_confirm, the agent's profile_edit: the record first, *)
(* then App.rebuild.                                                       *)
SelectProfile ==
    /\ ~asked
    /\ profile < MaxProfile
    /\ profile' = profile + 1
    /\ asked' = TRUE
    /\ UNCHANGED <<runs, numbered, decided, file, indexFiles, pc, locals, deciders, issued, kills>>

Rebuild ==
    /\ asked
    /\ asked' = FALSE
    /\ IF runs > 0 /\ JobIdle THEN Goto(Job, "reindex") ELSE UNCHANGED pc
    /\ UNCHANGED <<ledger, file, indexFiles, locals, deciders, issued, kills>>

(* get_evaluation: an index this code cannot read is rebuilt by a job.     *)
Refresh ==
    /\ ~Current
    /\ runs > 0
    /\ JobIdle
    /\ Goto(Job, "reindex")
    /\ UNCHANGED <<ledger, asked, file, indexFiles, locals, deciders, issued, kills>>

(* ensure_index in another thread.  A page asks whether a job runs first;  *)
(* the agent's tools do not.                                               *)
EnsureIndex(t) ==
    /\ pc[t] = "idle"
    /\ t \in Pages => JobIdle
    /\ ~Current
    /\ runs > 0
    /\ Goto(t, "reindex")
    /\ UNCHANGED <<ledger, asked, file, indexFiles, locals, deciders, issued, kills>>
-----------------------------------------------------------------------------
(* index(), step by step, in any thread.                                   *)

(* reindex: the last completed call's evidence, the profile of now.        *)
Reindex(t) ==
    /\ pc[t] = "reindex"
    /\ grade' = [grade EXCEPT ![t] = profile]
    /\ run' = [run EXCEPT ![t] = runs]
    /\ Goto(t, "number")
    /\ UNCHANGED <<ledger, asked, file, indexFiles, mine, version, handle, known, deciders, issued, kills>>

(* latest_numbering, then number().                                        *)
Number(t) ==
    /\ pc[t] = "number"
    /\ \E h \in {0} \cup {Latest[c] : c \in Clusters} :
         /\ IsHighest(h, Latest)
         /\ mine' = [mine EXCEPT ![t] = Renumber(Listed[grade[t]][run[t]], Latest, h)]
    /\ Goto(t, "count")
    /\ UNCHANGED <<ledger, asked, file, indexFiles, grade, run, version, handle, known, deciders, issued, kills>>

CountVersions(t) ==
    /\ pc[t] = "count"
    /\ version' = [version EXCEPT ![t] = Len(numbered) + 1]
    /\ Goto(t, "save")
    /\ UNCHANGED <<ledger, asked, file, indexFiles, grade, run, mine, handle, known, deciders, issued, kills>>

(* The snapshot's file, atomically; a file of that version is replaced.    *)
SaveFile(t) ==
    /\ pc[t] = "save"
    /\ file' = [v \in DOMAIN file \cup {version[t]} |-> IF v = version[t] THEN mine[t] ELSE file[v]]
    /\ Goto(t, "record")
    /\ UNCHANGED <<ledger, asked, indexFiles, locals, deciders, issued, kills>>

RecordNumbering(t) ==
    /\ pc[t] = "record"
    /\ numbered' = Append(numbered, version[t])
    /\ issued' = issued \cup {<<mine[t][c], c>> : c \in {e \in Clusters : mine[t][e] # 0}}
    /\ Goto(t, "open")
    /\ UNCHANGED <<profile, runs, decided, asked, file, indexFiles, locals, deciders, kills>>

OpenBuilding_InPlace(t) ==
    /\ pc[t] = "open"
    /\ Len(disk) < MaxBuilds
    /\ disk' = Append(disk, Blank)
    /\ building' = Len(disk) + 1
    /\ path' = Len(disk) + 1
    /\ handle' = [handle EXCEPT ![t] = Len(disk) + 1]
    /\ Goto(t, "load")
    /\ UNCHANGED <<ledger, asked, file, grade, run, mine, version, known, deciders, issued, kills>>

(* Store.build: unlink what is left at the temporary name, create a file   *)
(* there and its tables.                                                   *)
OpenBuilding(t) ==
    /\ pc[t] = "open"
    /\ Len(disk) < MaxBuilds
    /\ disk' = Append(disk, Blank)
    /\ building' = Len(disk) + 1
    /\ handle' = [handle EXCEPT ![t] = Len(disk) + 1]
    /\ Goto(t, "load")
    /\ UNCHANGED <<ledger, asked, file, path, grade, run, mine, version, known, deciders, issued, kills>>

(* The rows, in one transaction.                                           *)
Load(t) ==
    /\ pc[t] = "load"
    /\ building = handle[t]
    /\ LET entries == Listed[grade[t]][run[t]]
       IN  disk' = [disk EXCEPT ![handle[t]] =
                      [Blank EXCEPT !.state = "full", !.profile = grade[t], !.listed = entries,
                                    !.number = [c \in Clusters |-> IF c \in entries THEN mine[t][c] ELSE 0]]]
    /\ Goto(t, "replace")
    /\ UNCHANGED <<ledger, asked, file, path, building, locals, deciders, issued, kills>>

(* os.replace moves whatever has the temporary name now, and the result is *)
(* opened; without a file of that name it raises.                          *)
Replace(t) ==
    /\ pc[t] = "replace"
    /\ IF building = 0
         THEN /\ Goto(t, "idle")
              /\ UNCHANGED <<path, building, handle>>
         ELSE /\ path' = building
              /\ building' = 0
              /\ handle' = [handle EXCEPT ![t] = building]
              /\ Goto(t, "read")
    /\ UNCHANGED <<ledger, asked, file, disk, grade, run, mine, version, known, deciders, issued, kills>>

(* replay() reads the ledger once ...                                      *)
ReadDecisions(t) ==
    /\ pc[t] = "read"
    /\ known' = [known EXCEPT ![t] = Len(decided)]
    /\ Goto(t, "apply")
    /\ UNCHANGED <<ledger, asked, file, indexFiles, grade, run, mine, version, handle, deciders, issued, kills>>

(* The decision the first n records leave an entry with, 0 for none.       *)
IsLastOn(i, pv, n) ==
    /\ i # 0 => decided[i].pv = pv
    /\ \A j \in 1..n : decided[j].pv = pv => j <= i

(* ... and applies what it read, a later record over an earlier one; rows  *)
(* it read nothing about keep what they have.                              *)
Replayed(f, last) ==
    [f EXCEPT !.status = [c \in Clusters |-> IF c \in f.listed /\ last[c] # 0 THEN last[c] ELSE f.status[c]]]

Apply_First(t) ==
    /\ pc[t] = "apply"
    /\ path = handle[t]
    /\ \E last \in [Clusters -> 0..known[t]] :
         /\ \A c \in Clusters :
              LET pv == disk[handle[t]].number[c]
              IN  /\ last[c] # 0 => decided[last[c]].pv = pv
                  /\ \A j \in 1..known[t] : decided[j].pv = pv => last[c] # 0 /\ last[c] <= j
         /\ disk' = [disk EXCEPT ![handle[t]] = Replayed(disk[handle[t]], last)]
    /\ Goto(t, "idle")
    /\ UNCHANGED <<ledger, asked, file, path, building, locals, deciders, issued, kills>>

Apply(t) ==
    /\ pc[t] = "apply"
    /\ path = handle[t]
    /\ \E last \in [Clusters -> 0..known[t]] :
         /\ \A c \in Clusters : IsLastOn(last[c], disk[handle[t]].number[c], known[t])
         /\ disk' = [disk EXCEPT ![handle[t]] = Replayed(disk[handle[t]], last)]
    /\ Goto(t, "idle")
    /\ UNCHANGED <<ledger, asked, file, path, building, locals, deciders, issued, kills>>

(* The name is another thread's file by now: the write raises.             *)
Displaced(t) ==
    \/ pc[t] = "load" /\ building # handle[t]
    \/ pc[t] = "apply" /\ path # handle[t]

FailWrite(t) ==
    /\ Displaced(t)
    /\ Goto(t, "idle")
    /\ UNCHANGED <<ledger, asked, file, indexFiles, locals, deciders, issued, kills>>
-----------------------------------------------------------------------------
(* A decision (post_status, post_accept, a review's grounded opinion): the *)
(* file is opened, the entry looked up there, the ledger written, then the *)
(* file that was opened, if index.sqlite is still that one.                *)

OpenStore(d) ==
    /\ deciding[d] = "idle"
    /\ path # 0
    /\ disk[path].state # "old"
    /\ JobIdle => Current
    /\ opened' = [opened EXCEPT ![d] = path]
    /\ deciding' = [deciding EXCEPT ![d] = "open"]
    /\ UNCHANGED <<ledger, asked, file, indexFiles, pc, locals, noted, issued, kills>>

Decide(d, c) ==
    /\ deciding[d] = "open"
    /\ c \in disk[opened[d]].listed
    /\ Len(decided) < MaxDecisions
    /\ decided' = Append(decided, [pv |-> disk[opened[d]].number[c], on |-> c])
    /\ noted' = [noted EXCEPT ![d] = Len(decided) + 1]
    /\ deciding' = [deciding EXCEPT ![d] = "mark"]
    /\ UNCHANGED <<profile, runs, numbered, asked, file, indexFiles, pc, locals, opened, issued, kills>>

Mark(d) ==
    /\ deciding[d] = "mark"
    /\ path = opened[d]
    /\ LET f == disk[opened[d]]
       IN  disk' = [disk EXCEPT ![opened[d]].status = [c \in Clusters |->
              IF c \in f.listed /\ f.number[c] = decided[noted[d]].pv THEN noted[d] ELSE f.status[c]]]
    /\ deciding' = [deciding EXCEPT ![d] = "idle"]
    /\ UNCHANGED <<ledger, asked, file, path, building, pc, locals, opened, noted, issued, kills>>

FailMark(d) ==
    /\ deciding[d] = "mark"
    /\ path # opened[d]
    /\ deciding' = [deciding EXCEPT ![d] = "idle"]
    /\ UNCHANGED <<ledger, asked, file, indexFiles, pc, locals, opened, noted, issued, kills>>

(* The server dies and is started again; only its threads are lost.        *)
Kill ==
    /\ kills < MaxKills
    /\ kills' = kills + 1
    /\ asked' = FALSE
    /\ pc' = [t \in Threads |-> "idle"]
    /\ deciding' = [d \in Deciders |-> "idle"]
    /\ UNCHANGED <<ledger, file, indexFiles, locals, opened, noted, issued>>

Indexing(t) ==
    \/ Reindex(t)
    \/ Number(t)
    \/ CountVersions(t)
    \/ SaveFile(t)
    \/ RecordNumbering(t)
    \/ OpenBuilding(t)
    \/ Load(t)
    \/ Replace(t)
    \/ ReadDecisions(t)
    \/ Apply(t)
    \/ FailWrite(t)

Next ==
    \/ StartTools
    \/ FinishTools
    \/ FailTools
    \/ StartOther
    \/ \E where \in {"idle", "reindex"} : EndOther(where)
    \/ SelectProfile
    \/ Rebuild
    \/ Refresh
    \/ \E t \in Pages \cup Agents : EnsureIndex(t)
    \/ \E t \in Threads : Indexing(t)
    \/ \E d \in Deciders : OpenStore(d)
    \/ \E d \in Deciders, c \in Clusters : Decide(d, c)
    \/ \E d \in Deciders : Mark(d)
    \/ \E d \in Deciders : FailMark(d)
    \/ Kill

Spec == Init /\ [][Next]_vars
-----------------------------------------------------------------------------
(* Properties.                                                             *)

Steps == {"idle", "reindex", "number", "count", "save", "record", "open", "load", "replace", "read", "apply"}

Numbering == [Clusters -> Nat]

IndexFile == [state: {"partial", "full", "old"}, profile: 0..MaxProfile, listed: SUBSET Clusters,
              number: Numbering, status: [Clusters -> 0..MaxDecisions]]

Decision == [pv: Nat, on: Clusters]

(* What index() keeps between its steps.                                   *)
LocalsOK ==
    /\ pc \in [Threads -> Steps \cup {"tools", "other"}]
    /\ grade \in [Threads -> 1..MaxProfile]
    /\ run \in [Threads -> 1..MaxRuns]
    /\ mine \in [Threads -> Numbering]
    /\ version \in [Threads -> Nat \ {0}]
    /\ handle \in [Threads -> 0..Len(disk)]
    /\ known \in [Threads -> 0..Len(decided)]
    /\ \A t \in Threads : pc[t] \in {"load", "replace", "read", "apply"} => handle[t] # 0

(* The variables have their types, and every name of an index file, and    *)
(* every open one, is a file that exists (evidence/analyze.py, store.py).  *)
TypeOK ==
    /\ profile \in 1..MaxProfile
    /\ asked \in BOOLEAN
    /\ runs \in 0..MaxRuns
    /\ numbered \in Seq(Nat \ {0})
    /\ DOMAIN file \subseteq Nat
    /\ \A v \in DOMAIN file : file[v] \in Numbering
    /\ decided \in Seq(Decision)
    /\ disk \in Seq(IndexFile)
    /\ path \in 0..Len(disk)
    /\ building \in 0..Len(disk)
    /\ LocalsOK
    /\ deciding \in [Deciders -> {"idle", "open", "mark"}]
    /\ opened \in [Deciders -> 0..Len(disk)]
    /\ noted \in [Deciders -> 0..Len(decided)]
    /\ issued \subseteq (Nat \X Clusters)
    /\ kills \in 0..MaxKills

(* "PV-0007 is never reused" (sesip/pv.py:15), and a defect keeps its      *)
(* number: over every snapshot the ledger ever recorded, whatever was      *)
(* retired and came back, and wherever the process died in between.        *)
NumberedForGood ==
    \A x, y \in issued : x[1] = y[1] <=> x[2] = y[2]

(* Every snapshot the ledger names is on disk: latest_numbering reads the  *)
(* last one, and a record without its file would fail every later index(). *)
RecordedIsOnDisk ==
    \A i \in DOMAIN numbered : numbered[i] \in DOMAIN file

(* What the list shows under a number is what the last snapshot keeps      *)
(* under it, so the next run matches the entry the analyst saw.            *)
ListIsNumbered ==
    path # 0 => \A c \in disk[path].listed : disk[path].number[c] # 0 /\ disk[path].number[c] = Latest[c]

(* "a disposition follows the finding, not a line number" (overlays.py:8): *)
(* an entry shows a decision only if the ledger has it, and it was made on *)
(* that defect.                                                            *)
FollowsTheDefect ==
    path # 0 => \A c \in disk[path].listed :
        disk[path].status[c] # 0 =>
            /\ disk[path].status[c] \in DOMAIN decided
            /\ decided[disk[path].status[c]].on = c

(* "a half-built index never replaces a good one" (store.py:84): once      *)
(* there is a list to read, there always is.                               *)
GoodStaysGood == [][Current => Current']_vars

(* The list shows the last decision on every entry.                        *)
ShowsDecisions ==
    path # 0 => \A c \in disk[path].listed :
        IsLastOn(disk[path].status[c], disk[path].number[c], Len(decided))

(* A rebuild that has read every decision leaves the list with the last    *)
(* one on every entry, whatever an earlier rebuild lost, and also while a  *)
(* decision is still to be marked: replay repairs.                         *)
RebuildRepairs ==
    [][\A t \in Threads : Apply(t) /\ known[t] = Len(decided) => ShowsDecisions']_vars

=============================================================================
