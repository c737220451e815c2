------------------------------ MODULE Aftercare ------------------------------
(***************************************************************************)
(* What is done with a report directory once its run has ended or was      *)
(* killed: llm-resume scans the units that were left, assess has the       *)
(* candidates judged, recover-report derives the report anew from the      *)
(* evidence, rebuild-dashboard draws the page.  One command at a time,     *)
(* which may be killed or meet a full disk between any two of its writes.  *)
(*                                                                         *)
(* A unit finds one defect, on a line of its own; the native tools found   *)
(* theirs on the lines Native; all are of one path and one category.       *)
(***************************************************************************)
EXTENDS Naturals, FiniteSets, Sequences

CONSTANTS
    Units,          \* the units of the LLM plan
    Line,           \* the line of the defect a unit finds
    Native,         \* the lines of the native tools' findings
    Reach,          \* OVERLAP_LINE_DISTANCE
    MaxCommands, MaxKills, MaxFaults,   \* bounds
    Missing, Torn   \* a file that is not there; one that does not parse

ASSUME LinesAssumption == Native \subseteq Nat /\ Line \in [Units -> Nat] /\ Reach \in Nat

Files == {"manifest", "review", "sarif", "assessment", "index"}

\* What meta.json says of a session that ended, and what a manifest says of a unit.
Ended == {"completed", "failed", "transport", "interrupted"}
Evidence == {"none", "asked"} \cup Ended
Status == {"absent", "unscheduled"} \cup Ended

VARIABLES
    file,       \* the files of the report
    evidence,   \* llm/sessions/<producer>/<unit>
    reply,      \* llm/sessions/llm-validator/<id>: the candidate the last session there judged
    cmd, pc,    \* the command that runs and where it is
    mine, old,  \* the manifest and the assessment it has read
    left, out,  \* what it has yet to ask, and what it is asking
    got,        \* the verdicts it has got
    before,     \* what it read of the files it is replacing
    done,       \* how many of them it has replaced
    commands, kills, faults

local == <<cmd, pc, mine, old, left, out, got, before, done>>
vars == <<file, evidence, reply, local, commands, kills, faults>>

(***************************************************************************)
(* Candidates: findings no further than Reach from the first of their      *)
(* cluster.  A candidate is known by its lines; its id is its place.       *)
(***************************************************************************)
Lines(shown) == Native \cup {Line[u] : u \in shown}

Firsts(lines) ==
    LET first[l \in Nat] == l \in lines /\ \A m \in lines : m < l /\ l - m <= Reach => ~first[m]
    IN  {l \in lines : first[l]}

Last(l, lines) == CHOOSE m \in lines : l <= m /\ m <= l + Reach /\ ~\E n \in lines : m < n /\ n <= l + Reach

Candidates == [shown \in SUBSET Units |->
    {[from |-> l, to |-> Last(l, Lines(shown))] : l \in Firsts(Lines(shown))}]

Id(key, shown) == Cardinality({c \in Candidates[shown] : c.from <= key.from})

Keys == UNION {Candidates[shown] : shown \in SUBSET Units}
Ids == 1..Cardinality(Native \cup {Line[u] : u \in Units})

(***************************************************************************)
(* What is derived from a manifest and the evidence.                       *)
(***************************************************************************)
Resumable(status) == status \in {"unscheduled", "interrupted", "transport"}
Pending(m) == {u \in Units : Resumable(m.unit[u])}

\* build_review: the units whose report the manifest declares valid.
Review(m) == {u \in Units : m.unit[u] = "completed"}

BuildAssessment(review) == [shown |-> review, verdicts |-> {}]

CarryVerdicts_ById(fresh, previous) ==
    IF previous \in {Missing, Torn} THEN fresh
    ELSE [shown |-> fresh.shown,
          verdicts |-> {[key |-> p[1], of |-> p[2].of, at |-> p[2].at] : p \in
             {q \in Candidates[fresh.shown] \X previous.verdicts :
                Id(q[1], fresh.shown) = Id(q[2].key, previous.shown)}}]

CarryVerdicts(fresh, previous) ==
    IF previous \in {Missing, Torn} THEN fresh
    ELSE [shown |-> fresh.shown,
          verdicts |-> {v \in previous.verdicts : v.key \in Candidates[fresh.shown]}]

ApplyVerdicts_Only(assessment, new) == [shown |-> assessment.shown, verdicts |-> new]

ApplyVerdicts(assessment, new) ==
    [shown |-> assessment.shown,
     verdicts |-> new \cup {v \in assessment.verdicts : \A n \in new : n.key # v.key}]

Unjudged(assessment) ==
    {c \in Candidates[assessment.shown] : \A v \in assessment.verdicts : v.key # c}

\* The page: what it shows of the review and of the assessment.
Render(review, assessment) ==
    [review |-> review, assessment |-> IF assessment = Torn THEN Missing ELSE assessment]

Unfinished_Never(m) == FALSE
Unfinished(m) == \A u \in Units : m.unit[u] = "absent"

\* meta.json does not say why a session failed, so one that the provider never
\* carried is recovered as a plain failure, which is not resumed.
FromSession == [none |-> "absent", asked |-> "interrupted", completed |-> "completed", failed |-> "failed",
                transport |-> "failed", interrupted |-> "interrupted"]

Recovered(m) == IF Unfinished(m) THEN [m EXCEPT !.unit = [u \in Units |-> FromSession[evidence[u]]]] ELSE m

(***************************************************************************)
(* A run that ended has written everything; one that was killed has left   *)
(* the evidence of its units and a manifest that lists none.               *)
(***************************************************************************)
EndedAs(unit) ==
    LET review == Review([unit |-> unit])
        assessment == BuildAssessment(review)
        page == Render(review, assessment)
    IN  [manifest |-> [unit |-> unit, page |-> page], review |-> review, sarif |-> review,
         assessment |-> assessment, index |-> page]

KilledRun == [f \in Files |-> IF f = "manifest" THEN [unit |-> [u \in Units |-> "absent"], page |-> Missing] ELSE Missing]

Agrees(status, left_) ==
    \/ status = left_ /\ status \in Ended
    \/ status \in {"unscheduled", "interrupted"} /\ left_ = "none"

Idle == /\ cmd = "none" /\ pc = "idle"
        /\ mine = Missing /\ old = Missing /\ before = Missing
        /\ left = {} /\ out = {} /\ got = {} /\ done = 0

Init == /\ evidence \in [Units -> Evidence]
        /\ \/ file = KilledRun
           \/ \E unit \in [Units -> Status \ {"absent"}] :
                (\A u \in Units : Agrees(unit[u], evidence[u])) /\ file = EndedAs(unit)
        /\ reply = [i \in Ids |-> Missing]
        /\ Idle /\ commands = 0 /\ kills = 0 /\ faults = 0

Readable(f) == file[f] \notin {Missing, Torn}

Begin(c, p) == /\ cmd = "none" /\ commands < MaxCommands
               /\ cmd' = c /\ pc' = p /\ commands' = commands + 1
               /\ UNCHANGED <<file, evidence, reply, got, out, done, kills, faults>>

End == /\ cmd' = "none" /\ pc' = "idle"
       /\ mine' = Missing /\ old' = Missing /\ before' = Missing
       /\ left' = {} /\ out' = {} /\ got' = {} /\ done' = 0

(***************************************************************************)
(* llm-resume: with nothing left to scan it changes nothing.               *)
(***************************************************************************)
StartResume ==
    /\ Begin("resume", "scan")
    /\ Readable("manifest")
    /\ Pending(file["manifest"]) # {}
    /\ mine' = file["manifest"] /\ left' = Pending(file["manifest"])
    /\ UNCHANGED <<old, before>>

Ask(u) ==
    /\ pc = "scan" /\ u \in left
    /\ left' = left \ {u} /\ out' = out \cup {u}
    /\ evidence' = [evidence EXCEPT ![u] = IF @ = "none" THEN "asked" ELSE @]
    /\ UNCHANGED <<file, reply, cmd, pc, mine, old, got, before, done, commands, kills, faults>>

Answer(u) ==
    /\ pc = "scan" /\ u \in out
    /\ out' = out \ {u}
    /\ \E status \in Ended :
         /\ evidence' = [evidence EXCEPT ![u] = status]
         /\ mine' = [mine EXCEPT !.unit[u] = status]
    /\ UNCHANGED <<file, reply, cmd, pc, old, left, got, before, done, commands, kills, faults>>

\* The budget, the deadline, the breaker or a stop, or no stored prompt: the
\* unit is not asked.
Pass(u) ==
    /\ pc = "scan" /\ u \in left
    /\ left' = left \ {u}
    /\ \E status \in {"unscheduled", "interrupted", mine.unit[u]} : mine' = [mine EXCEPT !.unit[u] = status]
    /\ UNCHANGED <<file, evidence, reply, cmd, pc, old, out, got, before, done, commands, kills, faults>>

Goto(from, to) ==
    /\ pc = from /\ pc' = to
    /\ UNCHANGED <<evidence, reply, cmd, mine, old, left, out, got, done, commands, kills, faults>>

Write(f, value) == file' = [file EXCEPT ![f] = value]

EndScan == left = {} /\ out = {} /\ Goto("scan", "review") /\ UNCHANGED <<file, before>>

WriteReview == Goto("review", "sarif") /\ Write("review", Review(mine)) /\ UNCHANGED before
WriteSarif == Goto("sarif", "assessment") /\ Write("sarif", Review(mine)) /\ UNCHANGED before

Reassessed(previous) == CarryVerdicts(BuildAssessment(Review(mine)), previous)

WriteAssessment ==
    /\ Goto("assessment", "manifest")
    /\ Write("assessment", Reassessed(file["assessment"]))
    /\ UNCHANGED before

WriteManifest ==
    /\ Goto("manifest", "refresh")
    /\ Write("manifest", [mine EXCEPT !.page = file["index"]])
    /\ UNCHANGED before

(***************************************************************************)
(* assess: a session for each candidate without a verdict, in a directory  *)
(* named after the candidate's id.                                         *)
(***************************************************************************)
StartAssess ==
    /\ Begin("assess", "judge")
    /\ Readable("manifest") /\ Readable("review") /\ Readable("assessment")
    /\ mine' = file["manifest"] /\ old' = file["assessment"]
    /\ left' = Unjudged(file["assessment"])
    /\ UNCHANGED before

Judge(key) ==
    /\ pc = "judge" /\ key \in left
    /\ left' = left \ {key}
    /\ reply' = [reply EXCEPT ![Id(key, old.shown)] = key]
    /\ got' \in {got, got \cup {[key |-> key, of |-> key, at |-> Id(key, old.shown)]}}
    /\ UNCHANGED <<file, evidence, cmd, pc, mine, old, out, before, done, commands, kills, faults>>

\* What is left is over the cap or the budget, or the command was stopped.
EndJudging ==
    /\ pc = "judge" /\ pc' = "verdicts"
    /\ left' = {}
    /\ UNCHANGED <<file, evidence, reply, cmd, mine, old, out, got, before, done, commands, kills, faults>>

WriteVerdicts ==
    /\ Goto("verdicts", "save")
    /\ Write("assessment", ApplyVerdicts(old, got))
    /\ UNCHANGED before

SaveManifest ==
    /\ Goto("save", "refresh")
    /\ Write("manifest", [mine EXCEPT !.page = file["index"]])
    /\ UNCHANGED before

(***************************************************************************)
(* refresh_reports and rebuild-dashboard: the page and the manifest with   *)
(* its digest are replaced as a pair.                                      *)
(***************************************************************************)
Refresh ==
    /\ Goto("refresh", "index")
    /\ Write("manifest", [file["manifest"] EXCEPT !.page = file["index"]])
    /\ UNCHANGED before

StartRebuild ==
    /\ Begin("rebuild", "index")
    /\ Readable("manifest") /\ file["review"] # Torn
    /\ UNCHANGED <<mine, old, left, before>>

ReplaceIndex ==
    /\ Goto("index", "pair")
    /\ before' = file
    /\ Write("index", Render(file["review"], file["assessment"]))

ReplaceManifest ==
    /\ pc = "pair"
    /\ Write("manifest", [file["manifest"] EXCEPT !.page = file["index"]])
    /\ End
    /\ UNCHANGED <<evidence, reply, commands, kills, faults>>

(***************************************************************************)
(* recover-report: everything is derived first, then replaced file by file *)
(* and put back if a replacement fails.                                    *)
(***************************************************************************)
StartRecover ==
    /\ Begin("recover", "commit")
    /\ Readable("manifest")
    /\ mine' = Recovered(file["manifest"]) /\ old' = file["assessment"] /\ before' = file
    /\ UNCHANGED left

Order == <<"review", "assessment", "sarif", "index", "manifest">>

Derived ==
    LET page == Render(Review(mine), Reassessed(old))
    IN  [review |-> Review(mine), assessment |-> Reassessed(old), sarif |-> Review(mine), index |-> page,
         manifest |-> [mine EXCEPT !.page = page]]

Commit ==
    /\ pc = "commit"
    /\ LET f == Order[done + 1] IN Write(f, Derived[f])
    /\ IF done + 1 = Len(Order) THEN End
       ELSE done' = done + 1 /\ UNCHANGED <<cmd, pc, mine, old, left, out, got, before>>
    /\ UNCHANGED <<evidence, reply, commands, kills, faults>>

CommitFails ==
    /\ pc = "commit" /\ faults < MaxFaults
    /\ pc' = "undo" /\ faults' = faults + 1
    /\ UNCHANGED <<file, evidence, reply, cmd, mine, old, left, out, got, before, done, commands, kills>>

Undo ==
    /\ pc = "undo"
    /\ IF done = 0 THEN End /\ UNCHANGED file
       ELSE /\ Write(Order[done], before[Order[done]])
            /\ done' = done - 1
            /\ UNCHANGED <<cmd, pc, mine, old, left, out, got, before>>
    /\ UNCHANGED <<evidence, reply, commands, kills, faults>>

(***************************************************************************)
(* Write errors and kills.  A file that is written in place is cut short;  *)
(* one that is replaced stays as it was.                                   *)
(***************************************************************************)
InPlace == [review |-> "review", sarif |-> "sarif", assessment |-> "assessment", verdicts |-> "assessment",
            manifest |-> "manifest", refresh |-> "manifest"]

CutShort == IF pc \in DOMAIN InPlace THEN file' \in {file, [file EXCEPT ![InPlace[pc]] = Torn]}
            ELSE UNCHANGED file

WriteFails ==
    /\ pc \in DOMAIN InPlace \cup {"save", "index"} /\ faults < MaxFaults
    /\ faults' = faults + 1
    /\ CutShort /\ End
    /\ UNCHANGED <<evidence, reply, commands, kills>>

PairFails_Kept ==
    /\ pc = "pair" /\ faults < MaxFaults
    /\ faults' = faults + 1
    /\ End
    /\ UNCHANGED <<file, evidence, reply, commands, kills>>

PairFails ==
    /\ pc = "pair" /\ faults < MaxFaults
    /\ faults' = faults + 1
    /\ Write("index", before["index"])
    /\ End
    /\ UNCHANGED <<evidence, reply, commands, kills>>

Kill ==
    /\ cmd # "none" /\ kills < MaxKills
    /\ kills' = kills + 1
    /\ CutShort /\ End
    /\ UNCHANGED <<evidence, reply, commands, faults>>

Next == \/ StartResume \/ EndScan \/ WriteReview \/ WriteSarif \/ WriteAssessment \/ WriteManifest
        \/ \E u \in Units : Ask(u) \/ Answer(u) \/ Pass(u)
        \/ StartAssess \/ EndJudging \/ WriteVerdicts \/ SaveManifest
        \/ \E key \in Keys : Judge(key)
        \/ Refresh \/ StartRebuild \/ ReplaceIndex \/ ReplaceManifest
        \/ StartRecover \/ Commit \/ CommitFails \/ Undo
        \/ WriteFails \/ PairFails \/ Kill

Spec == Init /\ [][Next]_vars

(***************************************************************************)
(* Properties.                                                             *)
(***************************************************************************)
Reviews == SUBSET Units \cup {Missing, Torn}
Verdicts == [key : Keys, of : Keys, at : Ids]
Assessments == [shown : SUBSET Units, verdicts : SUBSET Verdicts]
Pages == [review : Reviews \ {Torn}, assessment : Assessments \cup {Missing}]
Manifests == [unit : [Units -> Status], page : Pages \cup {Missing}]

\* The types of the variables.
TypeOK ==
    /\ DOMAIN file = Files
    /\ file["review"] \in Reviews /\ file["sarif"] \in Reviews
    /\ file["assessment"] \in Assessments \cup {Missing, Torn}
    /\ file["index"] \in Pages \cup {Missing}
    /\ file["manifest"] \in Manifests \cup {Torn}
    /\ evidence \in [Units -> Evidence]
    /\ reply \in [Ids -> Keys \cup {Missing}]
    /\ mine \in Manifests \cup {Missing}
    /\ old \in Assessments \cup {Missing, Torn}
    /\ got \subseteq Verdicts
    /\ out \subseteq Units
    /\ left \subseteq (IF pc = "judge" THEN Keys ELSE Units)
    /\ done \in 0..Len(Order)

\* Whatever was derived is of one piece: the review, the SARIF and the
\* candidates are those of the manifest, and the page shows them.
InStep(f) ==
    LET m == f["manifest"]
    IN  /\ f["review"] = Review(m) /\ f["sarif"] = Review(m)
        /\ f["assessment"].shown = Review(m)
        /\ f["index"] = Render(f["review"], f["assessment"]) /\ m.page = f["index"]

AnswersShow(f, g) ==
    (\A u \in Units : f["manifest"].unit[u] = "absent") =>
        \A u \in Units : evidence[u] = "completed" => u \in g["review"]

VerdictsShow(f, g) ==
    {f["assessment"], g["assessment"]} \cap {Missing, Torn} = {} =>
        \A v \in f["assessment"].verdicts :
            v.key \in Candidates[g["assessment"].shown] => v \in g["assessment"].verdicts

\* recover-report either leaves every file as it found it or brings all of
\* them in step, and in that case no answer on disk is missing from a
\* manifest that listed no unit, and no verdict is dropped whose candidate
\* is still one (recovery.py:193-228, llm/recover.py:47).  A kill in the
\* middle of the replacements leaves them mixed; so does a rollback that fails
\* (recovery.py:216-222), which is not modelled.
RecoverIsWhole ==
    [][cmd = "recover" /\ cmd' = "none" /\ kills' = kills =>
         file' = before \/ (InStep(file') /\ AnswersShow(before, file') /\ VerdictsShow(before, file'))]_vars

\* The step is a kill or a full disk in the middle of writing this file in
\* place.
CutIn(f) ==
    /\ kills' + faults' > kills + faults
    /\ pc \in DOMAIN InPlace /\ InPlace[pc] = f
    /\ file'[f] = Torn

Listed(f) == IF f["manifest"] \in {Missing, Torn} THEN {} ELSE Review(f["manifest"])

ResultsStay ==
    \A u \in Units :
        /\ u \in Listed(file) =>
             evidence[u] = "completed" /\ (CutIn("manifest") \/ u \in Review(file'["manifest"]))
        /\ evidence[u] = "completed" /\ evidence'[u] # "completed" =>
             Readable("manifest") /\ Resumable(file["manifest"].unit[u])

VerdictsStay ==
    Readable("assessment") =>
        \A v \in file["assessment"].verdicts :
            \/ CutIn("assessment")
            \/ v.key \in Candidates[file'["assessment"].shown] => v \in file'["assessment"].verdicts

\* What a model was paid for is lost in one way only.  A listed result is on
\* disk and stays listed, and a verdict stays while its candidate is one,
\* whatever commands do, fail or are killed, except where the kill or the full
\* disk cuts the very write of the manifest or the assessment: llm-resume,
\* assess and the refresh write both in place (persist.py:18-19, audit.py:291),
\* so that cut does lose every verdict, and leaves a manifest every command
\* refuses, against audit.py:206-208.  The answers stay on disk even then: one is
\* written over only where the manifest says its unit is still to be scanned.
\* (The formulas read the files the step leaves: nothing else makes them
\* unreadable, and TLC would stop there.)
NothingPaidIsLost == [][ResultsStay /\ VerdictsStay]_vars

\* A verdict stands under the candidate it was given to, over any number of
\* resumed units that renumber the candidates (audit.py:209).
VerdictIsForIt ==
    file["assessment"] \notin {Missing, Torn} =>
        /\ \A v \in file["assessment"].verdicts : v.of = v.key
        /\ \A v, w \in file["assessment"].verdicts : v.key = w.key => v = w

\* Unless a command was killed, the manifest has the digest of the page that
\* is there, also after commands that failed (dashboard.py:74-88).
PageIsListed ==
    cmd = "none" /\ kills = 0 /\ Readable("manifest") => file["manifest"].page = file["index"]

\* The session a verdict cites is the one that gave it (validate.py:457).
RationaleIsItsOwn ==
    cmd = "none" /\ Readable("assessment") =>
        \A v \in file["assessment"].verdicts : reply[v.at] = v.of
=============================================================================
