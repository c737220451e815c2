--------------------------- MODULE AftercareProofs ---------------------------
(* What holds of a report directory for any plan of units, any findings    *)
(* and any number of commands, kills and write errors.                     *)
EXTENDS Aftercare, TLAPS

There(x) == x \notin {Missing, Torn}

IsManifest(m) == {"unit", "page"} \subseteq DOMAIN m /\ DOMAIN m.unit = Units

(* The verdicts are each for the candidate they are filed under, one each. *)
Sound(verdicts) ==
    /\ \A v \in verdicts : v.of = v.key
    /\ \A v, w \in verdicts : v.key = w.key => v = w

Where == [none |-> {"idle"}, rebuild |-> {"index", "pair"}, recover |-> {"commit", "undo"},
          resume |-> {"scan", "review", "sarif", "assessment", "manifest", "refresh", "index", "pair"},
          assess |-> {"judge", "verdicts", "save", "refresh", "index", "pair"}]

(***************************************************************************)
(* The inductive invariant.                                                *)
(***************************************************************************)
InPlaces ==
    /\ cmd \in DOMAIN Where /\ pc \in Where[cmd]
    /\ cmd = "none" => got = {} /\ out = {} /\ done = 0
    /\ file = [f \in Files |-> file[f]]
    /\ There(file["manifest"]) => IsManifest(file["manifest"])
    /\ pc \in {"refresh", "index", "pair"} => IsManifest(file["manifest"])

(* A resumed unit is listed as resumable; every result the manifest lists is in the *)
(* command's copy of it.                                                   *)
Resuming ==
    pc \in {"scan", "review", "sarif", "assessment", "manifest"} =>
        /\ There(file["manifest"]) /\ IsManifest(mine)
        /\ \A u \in Units : file["manifest"].unit[u] = "completed" => mine.unit[u] = "completed"
        /\ pc = "scan" => \A u \in left \cup out : u \in Units /\ Resumable(file["manifest"].unit[u])

(* A listed result is on disk, and so is one that is about to be listed.   *)
Answered(m) == \A u \in Units : m.unit[u] = "completed" => evidence[u] = "completed"
Answers ==
    /\ evidence \in [Units -> Evidence]
    /\ There(file["manifest"]) \/ pc \in {"refresh", "index", "pair"} => Answered(file["manifest"])
    /\ pc \in {"scan", "review", "sarif", "assessment", "manifest", "commit", "undo"} => Answered(mine)

(* A candidate that is judged had no verdict and is judged once.           *)
Judging ==
    /\ pc \in {"judge", "verdicts", "save"} => There(file["manifest"]) /\ mine = file["manifest"]
    /\ pc \in {"judge", "verdicts"} =>
         /\ There(old) /\ old = file["assessment"]
         /\ \A g \in got : \A v \in old.verdicts : g.key # v.key
    /\ pc = "judge" =>
         /\ \A g \in got : g.key \notin left
         /\ \A key \in left : \A v \in old.verdicts : key # v.key

Sounds ==
    /\ Sound(got)
    /\ There(file["assessment"]) => Sound(file["assessment"].verdicts)
    /\ There(old) => Sound(old.verdicts)

Replaced(n) == {Order[i] : i \in 1..n}
Mixed(n) == [f \in Files |-> IF f \in Replaced(n) THEN Derived[f] ELSE before[f]]

(* The first files of the order are the new ones, the others the old ones. *)
Recovering ==
    pc \in {"commit", "undo"} =>
        /\ done \in 0..4
        /\ file = Mixed(done)
        /\ before = [f \in Files |-> before[f]]
        /\ There(before["manifest"]) /\ IsManifest(before["manifest"])
        /\ mine = Recovered(before["manifest"]) /\ old = before["assessment"]

(* Short of a kill, only the replacement of the pair is ahead of the       *)
(* manifest, and then what it replaced is the page the manifest lists.     *)
Paging ==
    /\ kills \in Nat
    /\ kills = 0 =>
        /\ There(file["manifest"]) /\ pc \notin {"pair", "commit", "undo"} => file["manifest"].page = file["index"]
        /\ pc = "pair" /\ There(file["manifest"]) => file["manifest"].page = before["index"]
        /\ pc \in {"commit", "undo"} => before["manifest"].page = before["index"]

IInv == InPlaces /\ Resuming /\ Answers /\ Judging /\ Sounds /\ Recovering /\ Paging

(***************************************************************************)
(* What is derived.                                                        *)
(***************************************************************************)
LEMMA Carried ==
    ASSUME NEW shown, NEW previous
    PROVE  LET a == CarryVerdicts(BuildAssessment(shown), previous)
           IN  /\ a.shown = shown
               /\ There(previous) => a.verdicts = {v \in previous.verdicts : v.key \in Candidates[shown]}
               /\ ~There(previous) => a.verdicts = {}
BY DEF CarryVerdicts, BuildAssessment, There

LEMMA Applied ==
    ASSUME NEW a, NEW new, Sound(new), Sound(a.verdicts)
    PROVE  /\ ApplyVerdicts(a, new).shown = a.shown
           /\ Sound(ApplyVerdicts(a, new).verdicts)
           /\ (\A n \in new : \A v \in a.verdicts : n.key # v.key) => a.verdicts \subseteq ApplyVerdicts(a, new).verdicts
BY DEF ApplyVerdicts, Sound

LEMMA Ordering ==
    /\ Order[1] = "review" /\ Order[2] = "assessment" /\ Order[3] = "sarif" /\ Order[4] = "index" /\ Order[5] = "manifest"
    /\ Len(Order) = 5
BY DEF Order

LEMMA ReplacedAre ==
    /\ Replaced(0) = {}
    /\ Replaced(1) = {"review"}
    /\ Replaced(2) = {"review", "assessment"}
    /\ Replaced(3) = {"review", "assessment", "sarif"}
    /\ Replaced(4) = {"review", "assessment", "sarif", "index"}
<1>1. 1..0 = {} /\ 1..1 = {1} /\ 1..2 = {1, 2} /\ 1..3 = {1, 2, 3} /\ 1..4 = {1, 2, 3, 4}
  OBVIOUS
<1>2. Replaced(0) = {}
  BY <1>1 DEF Replaced
<1>3. Replaced(1) = {Order[1]}
  BY <1>1 DEF Replaced
<1>4. Replaced(2) = {Order[1], Order[2]}
  BY <1>1 DEF Replaced
<1>5. Replaced(3) = {Order[1], Order[2], Order[3]}
  BY <1>1 DEF Replaced
<1>6. Replaced(4) = {Order[1], Order[2], Order[3], Order[4]}
  BY <1>1 DEF Replaced
<1> QED
  BY <1>2, <1>3, <1>4, <1>5, <1>6, Ordering

(* A recovered manifest is one, lists what the old one did, and keeps its  *)
(* page's digest until it is replaced.                                     *)
LEMMA RecoveredIs ==
    ASSUME NEW m, IsManifest(m)
    PROVE  /\ IsManifest(Recovered(m))
           /\ \A u \in Units : m.unit[u] = "completed" => Recovered(m).unit[u] = "completed"
           /\ (\A u \in Units : m.unit[u] = "absent") => \A u \in Units : Recovered(m).unit[u] = FromSession[evidence[u]]
           /\ evidence \in [Units -> Evidence] /\ Answered(m) => Answered(Recovered(m))
<1>1. evidence \in [Units -> Evidence] => \A u \in Units : FromSession[evidence[u]] = "completed" => evidence[u] = "completed"
  BY DEF Evidence, Ended, FromSession
<1>2. Recovered(m) = m \/ Recovered(m) = [m EXCEPT !.unit = [u \in Units |-> FromSession[evidence[u]]]]
  BY DEF Recovered
<1>3. evidence \in [Units -> Evidence] /\ Answered(m) => Answered(Recovered(m))
  BY <1>1, <1>2 DEF Answered, IsManifest
<1> QED
  BY <1>3 DEF IsManifest, Recovered, Unfinished

LEMMA DerivedAre ==
    ASSUME IsManifest(mine)
    PROVE  /\ Derived["review"] = Review(mine) /\ Derived["sarif"] = Review(mine)
           /\ Derived["assessment"] = Reassessed(old)
           /\ Derived["index"] = Render(Review(mine), Reassessed(old))
           /\ IsManifest(Derived["manifest"])
           /\ Derived["manifest"].unit = mine.unit
           /\ Derived["manifest"].page = Derived["index"]
BY DEF Derived, IsManifest

(***************************************************************************)
(* It holds at the start.                                                  *)
(***************************************************************************)
LEMMA Starts == Init => IInv
<1> SUFFICES ASSUME Init PROVE IInv
  OBVIOUS
<1> USE DEF Init, Idle
<1> DEFINE Fresh == /\ IsManifest(file["manifest"]) /\ file = [f \in Files |-> file[f]]
                    /\ file["manifest"].page = file["index"]
                    /\ There(file["assessment"]) => file["assessment"].verdicts = {}
<1>1. Fresh
  <2>1. CASE file = KilledRun
    BY <2>1 DEF KilledRun, Files, IsManifest, There
  <2>2. ASSUME NEW unit \in [Units -> Status \ {"absent"}], file = EndedAs(unit)
        PROVE  Fresh
    BY <2>2 DEF EndedAs, Files, IsManifest, BuildAssessment
  <2> QED
    BY <2>1, <2>2
<1>2. InPlaces /\ Resuming /\ Judging /\ Recovering
  BY <1>1 DEF InPlaces, Where, Resuming, Judging, Recovering
<1>3. Sounds
  BY <1>1 DEF Sounds, Sound, There
<1>4. Paging
  BY <1>1 DEF Paging
<1>5. Answers
  <2>1. CASE file = KilledRun
    BY <2>1 DEF KilledRun, Files, Answers, Answered
  <2>2. ASSUME NEW unit \in [Units -> Status \ {"absent"}], file = EndedAs(unit), \A u \in Units : Agrees(unit[u], evidence[u])
        PROVE  Answers
    <3>1. \A u \in Units : unit[u] = "completed" => evidence[u] = "completed"
      BY <2>2 DEF Agrees
    <3>2. file["manifest"].unit = unit
      BY <2>2 DEF EndedAs, Files
    <3> QED
      BY <3>1, <3>2 DEF Answers, Answered
  <2> QED
    BY <2>1, <2>2
<1> QED
  BY <1>2, <1>3, <1>4, <1>5 DEF IInv

(***************************************************************************)
(* Every step keeps it.  First the steps that write no file.               *)
(***************************************************************************)
LEMMA Starting ==
    ASSUME IInv, StartResume \/ StartAssess \/ StartRebuild \/ StartRecover
    PROVE  IInv'
<1> USE DEF Begin, Readable
<1>1. cmd = "none" /\ got = {} /\ file' = file /\ got' = got /\ kills' = kills /\ evidence' = evidence
  BY DEF IInv, InPlaces, StartResume, StartAssess, StartRebuild, StartRecover
<1>2. pc = "idle"
  BY <1>1 DEF IInv, InPlaces, Where
<1>3. CASE StartResume
  <2>1. InPlaces' /\ Judging' /\ Sounds' /\ Recovering' /\ Paging'
    BY <1>1, <1>2, <1>3 DEF StartResume, IInv, InPlaces, Where, Judging, Sounds, Recovering, Paging
  <2>2. Resuming'
    <3>1. mine' = file["manifest"] /\ There(file["manifest"]) /\ left' = Pending(file["manifest"]) /\ out' = {}
      BY <1>1, <1>3 DEF StartResume, IInv, InPlaces, There
    <3>2. \A u \in left' \cup out' : u \in Units /\ Resumable(file["manifest"].unit[u])
      BY <3>1 DEF Pending
    <3> QED
      BY <1>1, <3>1, <3>2 DEF IInv, InPlaces, Resuming
  <2>3. Answers'
    BY <1>1, <1>3 DEF StartResume, IInv, Answers, Answered, There
  <2> QED
    BY <2>1, <2>2, <2>3 DEF IInv
<1>4. CASE StartAssess
  <2>1. InPlaces' /\ Resuming' /\ Recovering' /\ Paging'
    BY <1>1, <1>2, <1>4 DEF StartAssess, IInv, InPlaces, Where, Resuming, Recovering, Paging
  <2>2. Judging' /\ Sounds'
    BY <1>1, <1>2, <1>4 DEF StartAssess, IInv, Judging, Sounds, There, Unjudged
  <2>3. Answers'
    BY <1>1, <1>4 DEF StartAssess, IInv, Answers, Answered
  <2> QED
    BY <2>1, <2>2, <2>3 DEF IInv
<1>5. CASE StartRebuild
  <2>1. InPlaces' /\ Resuming' /\ Judging' /\ Sounds' /\ Recovering' /\ Paging'
    BY <1>1, <1>2, <1>5 DEF StartRebuild, IInv, InPlaces, Where, Resuming, Judging, Sounds, Recovering, Paging, There
  <2>2. Answers'
    BY <1>1, <1>5 DEF StartRebuild, IInv, Answers, Answered, There
  <2> QED
    BY <2>1, <2>2 DEF IInv
<1>6. CASE StartRecover
  <2>1. InPlaces' /\ Resuming' /\ Judging' /\ Sounds' /\ Paging'
    BY <1>1, <1>2, <1>6 DEF StartRecover, IInv, InPlaces, Where, Resuming, Judging, Sounds, Paging, There
  <2>2. Recovering'
    <3>1. done = 0 /\ done' = done
      BY <1>1, <1>2, <1>6 DEF StartRecover, IInv, InPlaces
    <3> QED
      BY <1>1, <1>2, <1>6, <3>1, ReplacedAre DEF StartRecover, IInv, InPlaces, Recovering, There, Mixed, Recovered
  <2>3. Answers'
    <3>1. There(file["manifest"]) /\ mine' = Recovered(file["manifest"]) /\ IsManifest(file["manifest"]) /\ Answered(file["manifest"])
      BY <1>6 DEF StartRecover, IInv, InPlaces, Answers, There
    <3>2. Answered(mine')
      BY <3>1, RecoveredIs DEF IInv, Answers
    <3> QED
      BY <1>1, <3>1, <3>2 DEF IInv, Answers, Answered
  <2> QED
    BY <2>1, <2>2, <2>3 DEF IInv
<1> QED
  BY <1>3, <1>4, <1>5, <1>6

LEMMA Scanning ==
    ASSUME IInv, NEW u \in Units, Ask(u) \/ Answer(u) \/ Pass(u)
    PROVE  IInv'
<1>1. pc = "scan" /\ pc' = pc /\ file' = file /\ cmd' = cmd /\ got' = got /\ old' = old /\ kills' = kills /\ before' = before
  BY DEF Ask, Answer, Pass
<1>0. cmd = "resume" /\ done' = done
  BY <1>1 DEF IInv, InPlaces, Where, Ask, Answer, Pass
<1>2. InPlaces' /\ Judging' /\ Sounds' /\ Recovering' /\ Paging'
  BY <1>0, <1>1 DEF IInv, InPlaces, Judging, Sounds, Recovering, Paging
<1>3. Resuming'
  BY <1>1 DEF IInv, Resuming, Resumable, Ask, Answer, Pass, IsManifest
<1>4. Answers'
  <2>1. evidence' \in [Units -> Evidence]
    BY DEF IInv, Answers, Ask, Answer, Pass, Evidence
  <2>2. IsManifest(mine) /\ There(file["manifest"]) /\ (u \in left \cup out => file["manifest"].unit[u] # "completed")
    BY <1>1 DEF IInv, Resuming, Resumable
  <2>3. Answered(mine)'
    <3>1. CASE Ask(u)
      BY <1>1, <3>1 DEF IInv, Answers, Answered, Ask
    <3>2. CASE Answer(u)
      BY <1>1, <2>2, <3>2 DEF IInv, Answers, Answered, Answer, IsManifest
    <3>3. CASE Pass(u)
      BY <1>1, <2>2, <3>3 DEF IInv, Answers, Answered, Pass, IsManifest
    <3> QED
      BY <3>1, <3>2, <3>3
  <2>4. Answered(file["manifest"])'
    BY <1>1, <2>2 DEF IInv, Answers, Answered, Ask, Answer, Pass
  <2> QED
    BY <1>1, <2>1, <2>3, <2>4 DEF Answers
<1> QED
  BY <1>2, <1>3, <1>4 DEF IInv

LEMMA Judged ==
    ASSUME IInv, EndJudging \/ \E key \in Keys : Judge(key)
    PROVE  IInv'
<1>1. /\ pc = "judge" /\ pc' \in {"judge", "verdicts"} /\ file' = file /\ cmd' = cmd
      /\ mine' = mine /\ old' = old /\ kills' = kills /\ before' = before
  BY DEF EndJudging, Judge
<1>2. cmd = "assess"
  BY <1>1 DEF IInv, InPlaces, Where
<1>3. InPlaces' /\ Resuming' /\ Recovering' /\ Paging'
  BY <1>1, <1>2 DEF IInv, InPlaces, Where, Resuming, Recovering, Paging
<1>4. Judging' /\ Sounds'
  <2>1. CASE EndJudging
    BY <1>1, <2>1 DEF IInv, Judging, Sounds, EndJudging
  <2>2. ASSUME NEW key \in Keys, Judge(key)
        PROVE  Judging' /\ Sounds'
    BY <1>1, <2>2 DEF IInv, Judging, Sounds, Sound, Judge
  <2> QED
    BY <2>1, <2>2
<1>5. Answers'
  BY <1>1 DEF IInv, Answers, Answered, EndJudging, Judge
<1> QED
  BY <1>3, <1>4, <1>5 DEF IInv

(***************************************************************************)
(* Then the files that are written in place.                               *)
(***************************************************************************)
LEMMA Deriving ==
    ASSUME IInv, EndScan \/ WriteReview \/ WriteSarif \/ WriteAssessment
    PROVE  IInv'
<1> USE DEF Goto, Write
<1>1. /\ pc \in {"scan", "review", "sarif", "assessment"} /\ pc' \in {"review", "sarif", "assessment", "manifest"}
      /\ cmd' = cmd /\ mine' = mine /\ old' = old /\ got' = got /\ left' = left /\ out' = out /\ done' = done /\ kills' = kills /\ before' = before
  BY DEF EndScan, WriteReview, WriteSarif, WriteAssessment
<1>2. cmd = "resume"
  BY <1>1 DEF IInv, InPlaces, Where
<1>3. /\ file' = [f \in Files |-> file'[f]]
      /\ file'["manifest"] = file["manifest"] /\ file'["index"] = file["index"]
      /\ file'["assessment"] = file["assessment"] \/ file'["assessment"] = Reassessed(file["assessment"])
  BY DEF IInv, InPlaces, EndScan, WriteReview, WriteSarif, WriteAssessment, Files
<1>4. InPlaces' /\ Resuming' /\ Judging' /\ Recovering' /\ Paging'
  BY <1>1, <1>2, <1>3 DEF IInv, InPlaces, Where, Resuming, Judging, Recovering, Paging
<1>5. Sounds'
  <2>1. There(file["assessment"]) => Sound(file["assessment"].verdicts)
    BY DEF IInv, Sounds
  <2>2. Sound(Reassessed(file["assessment"]).verdicts)
    BY <2>1, Carried DEF Reassessed, Sound
  <2> QED
    BY <1>1, <1>3, <2>1, <2>2 DEF IInv, Sounds
<1>6. Answers'
  BY <1>1, <1>3 DEF IInv, Answers, Answered, EndScan, WriteReview, WriteSarif, WriteAssessment
<1> QED
  BY <1>4, <1>5, <1>6 DEF IInv

LEMMA Listing ==
    ASSUME IInv, WriteManifest \/ SaveManifest \/ Refresh
    PROVE  IInv'
<1> USE DEF Goto, Write
<1>1. /\ pc \in {"manifest", "save", "refresh"} /\ pc' \in {"refresh", "index"}
      /\ cmd' = cmd /\ mine' = mine /\ old' = old /\ got' = got /\ left' = left /\ out' = out /\ done' = done /\ kills' = kills /\ before' = before
  BY DEF WriteManifest, SaveManifest, Refresh
<1>2. /\ cmd \in {"resume", "assess", "rebuild"}
      /\ cmd = "rebuild" => pc' = "index"
  BY <1>1 DEF IInv, InPlaces, Where
<1>3. PICK m : IsManifest(m) /\ Answered(m) /\ file' = [file EXCEPT !["manifest"] = [m EXCEPT !.page = file["index"]]]
  BY DEF IInv, InPlaces, Resuming, Judging, Answers, WriteManifest, SaveManifest, Refresh
<1>4. /\ file' = [f \in Files |-> file'[f]]
      /\ IsManifest(file'["manifest"]) /\ file'["manifest"].page = file["index"]
      /\ file'["index"] = file["index"] /\ file'["assessment"] = file["assessment"]
      /\ file'["manifest"].unit = m.unit
  BY <1>3 DEF IInv, InPlaces, Files, IsManifest
<1>5. InPlaces' /\ Resuming' /\ Judging' /\ Recovering' /\ Paging'
  BY <1>1, <1>2, <1>4 DEF IInv, InPlaces, Where, Resuming, Judging, Recovering, Paging
<1>6. Sounds'
  BY <1>1, <1>4 DEF IInv, Sounds
<1>7. Answers'
  BY <1>1, <1>3, <1>4 DEF IInv, Answers, Answered, WriteManifest, SaveManifest, Refresh
<1> QED
  BY <1>5, <1>6, <1>7 DEF IInv

LEMMA Filing ==
    ASSUME IInv, WriteVerdicts
    PROVE  IInv'
<1> USE DEF Goto, Write, WriteVerdicts
<1>1. cmd = "assess"
  BY DEF IInv, InPlaces, Where
<1>2. /\ file' = [f \in Files |-> file'[f]]
      /\ file'["manifest"] = file["manifest"] /\ file'["index"] = file["index"]
      /\ file'["assessment"] = ApplyVerdicts(old, got)
  BY DEF IInv, InPlaces, Files
<1>3. InPlaces' /\ Resuming' /\ Judging' /\ Recovering' /\ Paging'
  BY <1>1, <1>2 DEF IInv, InPlaces, Where, Resuming, Judging, Recovering, Paging
<1>4. Sounds'
  BY <1>2, Applied DEF IInv, Judging, Sounds
<1>5. Answers'
  BY <1>2 DEF IInv, Answers, Answered
<1> QED
  BY <1>3, <1>4, <1>5 DEF IInv

(* Once a command has ended nothing is left of it.                         *)
LEMMA Ending ==
    ASSUME IInv, End,
           file' = [f \in Files |-> file'[f]],
           There(file'["manifest"]) => IsManifest(file'["manifest"]),
           There(file'["manifest"]) => Answered(file["manifest"])',
           evidence' = evidence,
           There(file'["assessment"]) => Sound(file'["assessment"].verdicts),
           kills' \in Nat,
           kills' = 0 /\ There(file'["manifest"]) => file'["manifest"].page = file'["index"]
    PROVE  IInv'
BY DEF End, IInv, InPlaces, Where, Resuming, Answers, Judging, Sounds, Sound, Recovering, Paging, There

(***************************************************************************)
(* Then the files that are replaced.                                       *)
(***************************************************************************)
LEMMA Pairing ==
    ASSUME IInv, ReplaceIndex \/ ReplaceManifest
    PROVE  IInv'
<1> USE DEF Write
<1>1. CASE ReplaceIndex
  <2>1. cmd \in {"resume", "assess", "rebuild"}
    BY <1>1 DEF IInv, InPlaces, Where, ReplaceIndex, Goto
  <2>2. /\ file' = [f \in Files |-> file'[f]]
        /\ file'["manifest"] = file["manifest"] /\ file'["assessment"] = file["assessment"]
    BY <1>1 DEF IInv, InPlaces, Files, ReplaceIndex
  <2>3. Answers'
    BY <1>1, <2>2 DEF ReplaceIndex, Goto, IInv, Answers, Answered
  <2> QED
    BY <1>1, <2>1, <2>2, <2>3 DEF ReplaceIndex, Goto, IInv, InPlaces, Where, Resuming, Judging, Sounds, Recovering, Paging
<1>2. CASE ReplaceManifest
  <2>1. /\ file' = [f \in Files |-> file'[f]]
        /\ IsManifest(file'["manifest"]) /\ file'["manifest"].page = file["index"]
        /\ file'["index"] = file["index"] /\ file'["assessment"] = file["assessment"]
        /\ file'["manifest"].unit = file["manifest"].unit
    BY <1>2 DEF ReplaceManifest, IInv, InPlaces, Files, IsManifest
  <2>2. End /\ evidence' = evidence /\ kills' = kills
    BY <1>2 DEF ReplaceManifest
  <2>3. Answered(file["manifest"])'
    BY <1>2, <2>1, <2>2 DEF ReplaceManifest, IInv, Answers, Answered
  <2>4. There(file'["assessment"]) => Sound(file'["assessment"].verdicts)
    BY <2>1 DEF IInv, Sounds
  <2> QED
    BY <2>1, <2>2, <2>3, <2>4, Ending DEF IInv, Paging
<1> QED
  BY <1>1, <1>2

(* A step of the recovery turns Mixed(n) into Mixed(n + 1), its undoing    *)
(* turns it back.                                                          *)
LEMMA MixedSteps ==
    ASSUME NEW n \in 0..4
    PROVE  /\ n < 4 => [Mixed(n) EXCEPT ![Order[n + 1]] = Derived[Order[n + 1]]] = Mixed(n + 1)
           /\ n > 0 => [Mixed(n) EXCEPT ![Order[n]] = before[Order[n]]] = Mixed(n - 1)
           /\ n = 4 => [Mixed(n) EXCEPT ![Order[n + 1]] = Derived[Order[n + 1]]] = [f \in Files |-> Derived[f]]
<1>1. /\ n < 4 => Replaced(n + 1) = Replaced(n) \cup {Order[n + 1]}
      /\ n > 0 => Replaced(n - 1) = Replaced(n) \ {Order[n]}
      /\ n = 4 => Files = Replaced(n) \cup {Order[n + 1]}
  <2>1. n \in {0, 1, 2, 3, 4}
    OBVIOUS
  <2>2. CASE n = 0
    <3>1. n + 1 = 1
      BY <2>2
    <3> QED
      BY <2>2, <3>1, Ordering, ReplacedAre
  <2>3. CASE n = 1
    <3>1. n + 1 = 2 /\ n - 1 = 0
      BY <2>3
    <3> QED
      BY <2>3, <3>1, Ordering, ReplacedAre
  <2>4. CASE n = 2
    <3>1. n + 1 = 3 /\ n - 1 = 1
      BY <2>4
    <3> QED
      BY <2>4, <3>1, Ordering, ReplacedAre
  <2>5. CASE n = 3
    <3>1. n + 1 = 4 /\ n - 1 = 2
      BY <2>5
    <3> QED
      BY <2>5, <3>1, Ordering, ReplacedAre
  <2>6. CASE n = 4
    <3>1. n + 1 = 5 /\ n - 1 = 3
      BY <2>6
    <3> QED
      BY <2>6, <3>1, Ordering, ReplacedAre DEF Files
  <2> QED
    BY <2>1, <2>2, <2>3, <2>4, <2>5, <2>6
<1>2. n < 4 => Order[n + 1] \in Files
  BY Ordering DEF Files
<1>3. n > 0 => Order[n] \in Files
  BY Ordering DEF Files
<1>4. n = 4 => Order[n + 1] \in Files
  BY Ordering DEF Files
<1>5. n < 4 => [Mixed(n) EXCEPT ![Order[n + 1]] = Derived[Order[n + 1]]] = Mixed(n + 1)
  BY <1>1, <1>2 DEF Mixed
<1>6. n > 0 => [Mixed(n) EXCEPT ![Order[n]] = before[Order[n]]] = Mixed(n - 1)
  BY <1>1, <1>3 DEF Mixed
<1>7. n = 4 => [Mixed(n) EXCEPT ![Order[n + 1]] = Derived[Order[n + 1]]] = [f \in Files |-> Derived[f]]
  BY <1>1, <1>4 DEF Mixed
<1> QED
  BY <1>5, <1>6, <1>7

(* What the mixture has of the files the other commands care for.          *)
LEMMA MixedHas ==
    ASSUME NEW n \in 0..4
    PROVE  /\ Mixed(n) = [f \in Files |-> Mixed(n)[f]]
           /\ Mixed(n)["manifest"] = before["manifest"]
           /\ Mixed(n)["assessment"] = (IF n > 1 THEN Derived["assessment"] ELSE before["assessment"])
<1> n \in {0, 1, 2, 3, 4}
  OBVIOUS
<1> QED
  BY ReplacedAre DEF Mixed, Files

(* The last file makes the report the derived one.                         *)
LEMMA Committed ==
    ASSUME IInv, Commit
    PROVE  \/ done < 4 /\ file' = Mixed(done + 1) /\ done' = done + 1
              /\ UNCHANGED <<cmd, pc, mine, old, left, out, got, before>>
           \/ done = 4 /\ file' = [f \in Files |-> Derived[f]] /\ End
<1>1. done \in 0..4 /\ file = Mixed(done)
  BY DEF IInv, Recovering, Commit
<1>2. file' = [Mixed(done) EXCEPT ![Order[done + 1]] = Derived[Order[done + 1]]]
  BY <1>1 DEF Commit, Write
<1>3. CASE done = 4
  BY <1>1, <1>2, <1>3, MixedSteps, Ordering DEF Commit
<1>4. CASE done < 4
  <2>1. done + 1 # Len(Order)
    BY <1>1, <1>4, Ordering
  <2>2. file' = Mixed(done + 1)
    BY <1>1, <1>2, <1>4, MixedSteps
  <2> QED
    BY <1>4, <2>1, <2>2 DEF Commit
<1> QED
  BY <1>1, <1>3, <1>4

LEMMA Undone ==
    ASSUME IInv, Undo
    PROVE  \/ done > 0 /\ file' = Mixed(done - 1) /\ done' = done - 1
              /\ UNCHANGED <<cmd, pc, mine, old, left, out, got, before>>
           \/ done = 0 /\ file' = file /\ file = before /\ End
<1>1. /\ done \in 0..4 /\ file = Mixed(done)
      /\ before = [f \in Files |-> before[f]]
  BY DEF IInv, Recovering, Undo
<1>2. CASE done = 0
  BY <1>1, <1>2, ReplacedAre DEF Undo, Mixed
<1>3. CASE done > 0
  BY <1>1, <1>3, MixedSteps DEF Undo, Write
<1> QED
  BY <1>1, <1>2, <1>3

LEMMA Replacing ==
    ASSUME IInv, Commit \/ CommitFails \/ Undo
    PROVE  IInv'
<1>1. /\ pc \in {"commit", "undo"} /\ kills' = kills /\ kills \in Nat /\ evidence' = evidence
      /\ done \in 0..4 /\ file = Mixed(done)
      /\ before = [f \in Files |-> before[f]]
      /\ There(before["manifest"]) /\ IsManifest(before["manifest"])
      /\ mine = Recovered(before["manifest"]) /\ old = before["assessment"]
  BY DEF IInv, Recovering, Paging, Commit, CommitFails, Undo
<1>2. cmd = "recover"
  BY <1>1 DEF IInv, InPlaces, Where
<1>3. IsManifest(mine)
  BY <1>1, RecoveredIs
<1>4. Sound(Derived["assessment"].verdicts) /\ (There(old) => Sound(old.verdicts))
  <2>1. There(old) => Sound(old.verdicts)
    BY DEF IInv, Sounds
  <2>2. Derived["assessment"] = CarryVerdicts(BuildAssessment(Review(mine)), old)
    BY <1>3, DerivedAre DEF Reassessed
  <2>3. Derived["assessment"].verdicts = {} \/ (There(old) /\ Derived["assessment"].verdicts \subseteq old.verdicts)
    BY <2>2, Carried
  <2> QED
    BY <2>1, <2>3 DEF Sound
<1>5. ASSUME NEW n \in 0..4, file' = Mixed(n), done' = n, pc' \in {"commit", "undo"},
             UNCHANGED <<cmd, mine, old, left, out, got, before>>
      PROVE  IInv'
  <2>1. /\ Derived' = Derived
        /\ Mixed(n)' = Mixed(n)
        /\ Recovered(before["manifest"])' = Recovered(before["manifest"])
    <3>1. Derived' = Derived
      BY <1>5 DEF Derived, Reassessed
    <3>2. Mixed(n)' = Mixed(n)
      BY <1>5, <3>1 DEF Mixed
    <3>3. Recovered(before["manifest"])' = Recovered(before["manifest"])
      BY <1>1, <1>5 DEF Recovered
    <3> QED
      BY <3>1, <3>2, <3>3
  <2>2. /\ file' = [f \in Files |-> file'[f]] /\ file'["manifest"] = before["manifest"]
        /\ There(file'["assessment"]) => Sound(file'["assessment"].verdicts)
    BY <1>1, <1>4, <1>5, MixedHas
  <2>3. InPlaces' /\ Resuming' /\ Judging' /\ Sounds' /\ Paging'
    BY <1>1, <1>2, <1>5, <2>2 DEF IInv, InPlaces, Where, Resuming, Judging, Sounds, Paging
  <2>4. Recovering'
    BY <1>1, <1>5, <2>1 DEF Recovering, There, IsManifest
  <2>5. Answers'
    <3>1. file["manifest"] = before["manifest"]
      BY <1>1, MixedHas
    <3> QED
      BY <1>1, <1>5, <2>2, <3>1 DEF IInv, Answers, Answered
  <2> QED
    BY <2>3, <2>4, <2>5 DEF IInv
<1>6. CASE Commit
  <2>1. CASE done < 4
    BY <1>1, <1>5, <1>6, <2>1, Committed DEF Commit
  <2>2. CASE done = 4
    <3>1. file' = [f \in Files |-> Derived[f]] /\ End
      BY <1>1, <1>6, <2>2, Committed
    <3>2. Answered(file["manifest"])'
      BY <1>1, <1>3, <3>1, DerivedAre DEF IInv, Answers, Answered, Files
    <3> QED
      BY <1>1, <1>3, <1>4, <3>1, <3>2, DerivedAre, Ending DEF Files
  <2> QED
    BY <1>1, <2>1, <2>2
<1>7. CASE CommitFails
  BY <1>1, <1>5, <1>7 DEF CommitFails
<1>8. CASE Undo
  <2>1. CASE done > 0
    BY <1>1, <1>5, <1>8, <2>1, Undone DEF Undo
  <2>2. CASE done = 0
    <3>1. file' = before /\ file' = file /\ End
      BY <1>1, <1>8, <2>2, Undone
    <3>3. There(file'["manifest"]) => Answered(file["manifest"])'
      BY <1>1, <3>1 DEF IInv, Answers, Answered
    <3>2. kills = 0 => before["manifest"].page = before["index"]
      BY <1>1 DEF IInv, Paging
    <3> QED
      BY <1>1, <1>4, <3>1, <3>2, <3>3, Ending
  <2> QED
    BY <1>1, <2>1, <2>2
<1> QED
  BY <1>6, <1>7, <1>8

LEMMA Failing ==
    ASSUME IInv, WriteFails \/ PairFails \/ Kill
    PROVE  IInv'
<1> USE DEF Write, CutShort, InPlace
<1>1. CASE PairFails
  <2>1. /\ file' = [f \in Files |-> file'[f]] /\ file'["index"] = before["index"]
        /\ file'["manifest"] = file["manifest"] /\ file'["assessment"] = file["assessment"]
    BY <1>1 DEF PairFails, IInv, InPlaces, Files
  <2>2. /\ There(file'["manifest"]) => IsManifest(file'["manifest"])
        /\ There(file'["assessment"]) => Sound(file'["assessment"].verdicts)
        /\ kills' \in Nat
        /\ kills' = 0 /\ There(file'["manifest"]) => file'["manifest"].page = file'["index"]
    BY <1>1, <2>1 DEF PairFails, IInv, InPlaces, Sounds, Paging
  <2>3. evidence' = evidence /\ Answered(file["manifest"])'
    BY <1>1, <2>1 DEF PairFails, IInv, Answers, Answered
  <2> QED
    BY <1>1, <2>1, <2>2, <2>3, Ending DEF PairFails
<1>2. CASE WriteFails \/ Kill
  <2>1. CutShort /\ End
    BY <1>2 DEF WriteFails, Kill
  <2>2. /\ file' = [f \in Files |-> file'[f]]
        /\ \A f \in Files : file'[f] = file[f] \/ file'[f] = Torn
        /\ file'["index"] = file["index"]
    BY <2>1 DEF IInv, InPlaces, Files
  <2>3. kills' \in Nat /\ (kills' = 0 => kills = 0 /\ pc \notin {"pair", "commit", "undo"})
    BY <1>2 DEF WriteFails, Kill, IInv, Paging
  <2>4. /\ There(file'["manifest"]) => IsManifest(file'["manifest"])
        /\ There(file'["assessment"]) => Sound(file'["assessment"].verdicts)
        /\ kills' = 0 /\ There(file'["manifest"]) => file'["manifest"].page = file'["index"]
    BY <2>2, <2>3 DEF IInv, InPlaces, Sounds, Paging, There, Files
  <2>5. evidence' = evidence /\ (There(file'["manifest"]) => Answered(file["manifest"])')
    BY <1>2, <2>2 DEF WriteFails, Kill, IInv, Answers, Answered, There, Files
  <2> QED
    BY <2>1, <2>2, <2>3, <2>4, <2>5, Ending
<1> QED
  BY <1>1, <1>2

LEMMA Keeps == IInv /\ [Next]_vars => IInv'
<1> SUFFICES ASSUME IInv, [Next]_vars PROVE IInv'
  OBVIOUS
<1>1. CASE Next
  BY <1>1, Starting, Scanning, Judged, Deriving, Listing, Filing, Pairing, Replacing, Failing DEF Next
<1>2. CASE UNCHANGED vars
  <2>1. InPlaces' /\ Resuming' /\ Answers' /\ Judging' /\ Sounds' /\ Paging'
    BY <1>2 DEF vars, local, IInv, InPlaces, Resuming, Answers, Answered, Judging, Sounds, Paging
  <2>2. Derived' = Derived /\ Recovered(before["manifest"])' = Recovered(before["manifest"])
    BY <1>2 DEF vars, local, Derived, Reassessed, Recovered
  <2>3. Recovering'
    BY <1>2, <2>2 DEF vars, local, IInv, Recovering, Mixed
  <2> QED
    BY <2>1, <2>2, <2>3 DEF IInv
<1> QED
  BY <1>1, <1>2

THEOREM Inductive == Spec => []IInv
<1>1. Init => IInv
  BY Starts
<1>2. IInv /\ [Next]_vars => IInv'
  BY Keeps
<1> QED
  BY <1>1, <1>2, PTL DEF Spec

(* A verdict stands under the candidate it was given to, and there is one  *)
(* for a candidate (audit.carry_verdicts, audit.apply_verdicts).           *)
THEOREM VerdictsAreRight == Spec => []VerdictIsForIt
<1>1. IInv => VerdictIsForIt
  BY DEF IInv, Sounds, Sound, There, VerdictIsForIt
<1> QED
  BY <1>1, Inductive, PTL

(* Between commands, short of a kill, the manifest has the digest of the   *)
(* page that is there (dashboard.rebuild_dashboard).                       *)
THEOREM PagesAreListed == Spec => []PageIsListed
<1>1. IInv => PageIsListed
  <2> SUFFICES ASSUME IInv, cmd = "none" PROVE PageIsListed
    BY DEF PageIsListed
  <2>1. pc = "idle"
    BY DEF IInv, InPlaces, Where
  <2> QED
    BY <2>1 DEF IInv, Paging, There, PageIsListed, Readable
<1> QED
  BY <1>1, Inductive, PTL

(***************************************************************************)
(* Nothing that was paid for is lost.                                      *)
(***************************************************************************)
LEMMA ListedAre ==
    ASSUME NEW f
    PROVE  Listed(f) = {u \in Units : There(f["manifest"]) /\ f["manifest"].unit[u] = "completed"}
BY DEF Listed, Review, There

(* Only the answer to a unit that was to be scanned is written over.       *)
LEMMA AnswersStay ==
    ASSUME IInv, Next, NEW u \in Units, evidence[u] = "completed", evidence'[u] # "completed"
    PROVE  Readable("manifest") /\ Resumable(file["manifest"].unit[u])
<1>1. PICK v \in Units : Answer(v)
  <2>1. evidence' = evidence \/ \E v \in Units : Ask(v) \/ Answer(v)
    BY DEF Next, StartResume, StartAssess, StartRebuild, StartRecover, Begin, Goto, EndScan, WriteReview, WriteSarif,
           WriteAssessment, WriteManifest, Pass, EndJudging, WriteVerdicts, SaveManifest, Judge, Refresh,
           ReplaceIndex, ReplaceManifest, Commit, CommitFails, Undo, WriteFails, PairFails, Kill
  <2>2. ASSUME NEW v \in Units, Ask(v) PROVE evidence'[u] = evidence[u]
    BY <2>2 DEF Ask, IInv, Answers
  <2> QED
    BY <2>1, <2>2
<1>2. u = v /\ u \in out /\ pc = "scan"
  BY <1>1 DEF Answer, IInv, Answers
<1> QED
  BY <1>2 DEF IInv, Resuming, Readable, There

LEMMA SameVerdicts == ASSUME file'["assessment"] = file["assessment"] PROVE VerdictsStay
BY DEF VerdictsStay, Readable

(* A re-derivation keeps the verdicts of the candidates there still are.   *)
LEMMA ReassessedKeeps ==
    ASSUME NEW f, NEW g, g["assessment"] = Reassessed(f["assessment"])
    PROVE  /\ VerdictsShow(f, g)
           /\ There(f["assessment"]) =>
                \A v \in f["assessment"].verdicts :
                    v.key \in Candidates[g["assessment"].shown] => v \in g["assessment"].verdicts
<1>1. g["assessment"] = CarryVerdicts(BuildAssessment(Review(mine)), f["assessment"])
  BY DEF Reassessed
<1>2. /\ g["assessment"].shown = Review(mine)
      /\ There(f["assessment"]) =>
            g["assessment"].verdicts = {v \in f["assessment"].verdicts : v.key \in Candidates[Review(mine)]}
  BY <1>1, Carried
<1> QED
  BY <1>2 DEF VerdictsShow, There

ListStays == \A u \in Units : u \in Listed(file) => CutIn("manifest") \/ u \in Review(file'["manifest"])

LEMMA FilesStay ==
    ASSUME IInv, faults \in Nat, Next
    PROVE  ListStays /\ VerdictsStay
<1> USE DEF Goto, Write
<1>0. file = [f \in Files |-> file[f]]
  BY DEF IInv, InPlaces
<1>s. file'["manifest"] = file["manifest"] => ListStays
  BY DEF Listed, ListStays
<1>1. CASE StartResume \/ StartAssess \/ StartRebuild \/ StartRecover \/ EndScan \/ EndJudging \/ CommitFails
           \/ (\E u \in Units : Ask(u) \/ Answer(u) \/ Pass(u)) \/ (\E key \in Keys : Judge(key))
  <2>1. file' = file
    BY <1>1 DEF StartResume, StartAssess, StartRebuild, StartRecover, Begin, EndScan, EndJudging, CommitFails, Ask, Answer, Pass, Judge
  <2> QED
    BY <1>s, <2>1, SameVerdicts
<1>2. CASE WriteReview \/ WriteSarif \/ ReplaceIndex \/ PairFails
  <2>1. file'["manifest"] = file["manifest"] /\ file'["assessment"] = file["assessment"]
    BY <1>0, <1>2 DEF WriteReview, WriteSarif, ReplaceIndex, PairFails, Files
  <2> QED
    BY <1>s, <2>1, SameVerdicts
<1>3. CASE WriteFails \/ Kill
  <2>1. CutShort /\ kills' + faults' > kills + faults
    BY <1>3 DEF WriteFails, Kill, IInv, Paging
  <2>2. \A f \in Files : file'[f] = file[f] \/ CutIn(f)
    BY <1>0, <2>1 DEF CutShort, CutIn, InPlace, Files
  <2>3. file'["manifest"] = file["manifest"] \/ CutIn("manifest")
    BY <2>2 DEF Files
  <2>4. file'["assessment"] = file["assessment"] \/ CutIn("assessment")
    BY <2>2 DEF Files
  <2>5. VerdictsStay
    BY <2>4, SameVerdicts DEF VerdictsStay
  <2> QED
    BY <1>s, <2>3, <2>5 DEF ListStays
<1>4. CASE WriteAssessment
  <2>1. file'["manifest"] = file["manifest"] /\ file'["assessment"] = Reassessed(file["assessment"])
    BY <1>0, <1>4 DEF WriteAssessment, Files
  <2> QED
    BY <1>s, <2>1, ReassessedKeeps DEF VerdictsStay, Readable, There
<1>5. CASE WriteVerdicts
  <2>1. /\ file'["manifest"] = file["manifest"] /\ file'["assessment"] = ApplyVerdicts(old, got)
        /\ There(old) /\ old = file["assessment"]
        /\ \A g \in got : \A v \in old.verdicts : g.key # v.key
        /\ Sound(got) /\ Sound(old.verdicts)
    BY <1>0, <1>5 DEF WriteVerdicts, Files, IInv, Judging, Sounds
  <2> QED
    BY <1>s, <2>1, Applied DEF VerdictsStay
<1>6. CASE WriteManifest \/ SaveManifest \/ Refresh \/ ReplaceManifest
  <2>1. PICK m : /\ IsManifest(m) /\ file' = [file EXCEPT !["manifest"] = [m EXCEPT !.page = file["index"]]]
                 /\ There(file["manifest"]) => \A u \in Units : file["manifest"].unit[u] = "completed" => m.unit[u] = "completed"
    BY <1>6 DEF WriteManifest, SaveManifest, Refresh, ReplaceManifest, IInv, InPlaces, Resuming, Judging
  <2>2. file'["manifest"].unit = m.unit /\ file'["assessment"] = file["assessment"]
    BY <1>0, <2>1 DEF Files, IsManifest
  <2>3. ListStays
    BY <2>1, <2>2, ListedAre DEF ListStays, Review
  <2> QED
    BY <2>2, <2>3, SameVerdicts
<1>7. CASE Commit \/ Undo
  <2>1. /\ done \in 0..4 /\ file = Mixed(done)
        /\ before = [f \in Files |-> before[f]]
        /\ There(before["manifest"]) /\ IsManifest(before["manifest"])
        /\ mine = Recovered(before["manifest"]) /\ old = before["assessment"]
    BY <1>7 DEF IInv, Recovering, Commit, Undo
  <2>2. IsManifest(mine) /\ \A u \in Units : before["manifest"].unit[u] = "completed" => mine.unit[u] = "completed"
    BY <2>1, RecoveredIs
  <2>3. file["manifest"] = before["manifest"]
        /\ file["assessment"] = (IF done > 1 THEN Derived["assessment"] ELSE before["assessment"])
    BY <2>1, MixedHas
  <2>4. Derived["assessment"] = Reassessed(before["assessment"])
    BY <2>1, <2>2, DerivedAre
  <2>5. ASSUME NEW n \in 0..4, file' = Mixed(n), n = done + 1 \/ n = done - 1
        PROVE  ListStays /\ VerdictsStay
    <3>1. file'["manifest"] = before["manifest"]
          /\ file'["assessment"] = (IF n > 1 THEN Derived["assessment"] ELSE before["assessment"])
      BY <2>5, MixedHas
    <3>2. ListStays
      BY <1>s, <2>3, <3>1
    <3>3. CASE file'["assessment"] = file["assessment"]
      BY <3>2, <3>3, SameVerdicts
    <3>4. CASE file["assessment"] = before["assessment"] /\ file'["assessment"] = Derived["assessment"]
      BY <3>2, <2>4, <3>4, ReassessedKeeps DEF VerdictsStay, Readable, There
    <3>5. CASE file["assessment"] = Derived["assessment"] /\ file'["assessment"] = before["assessment"]
      <4>1. /\ There(before["assessment"]) => Derived["assessment"].verdicts \subseteq before["assessment"].verdicts
            /\ ~There(before["assessment"]) => Derived["assessment"].verdicts = {}
        BY <2>4, Carried DEF Reassessed
      <4> QED
        BY <3>2, <3>5, <4>1 DEF VerdictsStay
    <3> QED
      BY <2>3, <3>1, <3>2, <3>3, <3>4, <3>5
  <2>6. CASE Commit /\ done = 4
    <3>1. file' = [f \in Files |-> Derived[f]]
      BY <2>6, Committed
    <3>2. /\ file'["manifest"].unit = mine.unit
          /\ file'["assessment"] = file["assessment"]
      BY <2>2, <2>3, <2>6, <3>1, DerivedAre DEF Files
    <3>3. ListStays
      BY <2>2, <2>3, <3>2, ListedAre DEF ListStays, Review
    <3> QED
      BY <3>2, <3>3, SameVerdicts
  <2>7. CASE Commit /\ done < 4
    BY <2>1, <2>5, <2>7, Committed
  <2>8. CASE Undo /\ done > 0
    BY <2>1, <2>5, <2>8, Undone
  <2>9. CASE Undo /\ done = 0
    <3>1. file' = file
      BY <2>1, <2>9, Undone
    <3> QED
      BY <1>s, <3>1, SameVerdicts
  <2> QED
    BY <1>7, <2>1, <2>6, <2>7, <2>8, <2>9
<1> QED
  BY <1>1, <1>2, <1>3, <1>4, <1>5, <1>6, <1>7 DEF Next

LEMMA PaidStays ==
    ASSUME IInv, faults \in Nat, Next
    PROVE  ResultsStay /\ VerdictsStay
<1>1. \A u \in Units : u \in Listed(file) => evidence[u] = "completed"
  BY ListedAre DEF IInv, Answers, Answered
<1> QED
  BY <1>1, FilesStay, AnswersStay DEF ListStays, ResultsStay

LEMMA FaultsAreCounted == Spec => [](faults \in Nat)
<1>1. Init => faults \in Nat
  BY DEF Init
<1>2. faults \in Nat /\ [Next]_vars => (faults \in Nat)'
  <2>1. Next => faults' = faults \/ faults' = faults + 1
    BY DEF Next, StartResume, StartAssess, StartRebuild, StartRecover, Begin, Goto, EndScan, WriteReview, WriteSarif,
           WriteAssessment, WriteManifest, Ask, Answer, Pass, EndJudging, WriteVerdicts, SaveManifest, Judge, Refresh,
           ReplaceIndex, ReplaceManifest, Commit, CommitFails, Undo, WriteFails, PairFails, Kill
  <2> QED
    BY <2>1 DEF vars
<1> QED
  BY <1>1, <1>2, PTL DEF Spec

(* A listed result is on disk and stays listed, a verdict stays while its  *)
(* candidate is one, and an answer stays unless its unit is to be scanned  *)
(* again: whatever commands do, fail or are killed, but for the kill or    *)
(* the full disk that cuts the very write of the manifest or of the        *)
(* assessment (persist._write_json, audit.write_assessment).               *)
THEOREM PaidIsKept == Spec => NothingPaidIsLost
<1>1. IInv /\ faults \in Nat /\ [Next]_vars => [ResultsStay /\ VerdictsStay]_vars
  BY PaidStays
<1> QED
  BY <1>1, Inductive, FaultsAreCounted, PTL DEF Spec, NothingPaidIsLost

(***************************************************************************)
(* A recovery is all or nothing.                                           *)
(***************************************************************************)
LEMMA Whole ==
    ASSUME IInv, Next, cmd = "recover", cmd' = "none", kills' = kills
    PROVE  file' = before \/ (InStep(file') /\ AnswersShow(before, file') /\ VerdictsShow(before, file'))
<1>1. pc \in {"commit", "undo"} /\ kills \in Nat
  BY DEF IInv, InPlaces, Where, Paging
<1>2. ~Kill
  BY <1>1 DEF Kill
<1>3. (Commit /\ done = 4) \/ (Undo /\ done = 0)
  <2>1. Commit \/ CommitFails \/ Undo
    BY <1>1, <1>2 DEF Next, StartResume, StartAssess, StartRebuild, StartRecover, Begin, Goto, EndScan, WriteReview, WriteSarif,
         WriteAssessment, WriteManifest, Ask, Answer, Pass, EndJudging, WriteVerdicts, SaveManifest, Judge, Refresh,
         ReplaceIndex, ReplaceManifest, WriteFails, InPlace, PairFails
  <2> QED
    BY <2>1, Committed, Undone DEF CommitFails
<1>4. CASE Undo /\ done = 0
  <2>1. ~(done > 0)
    BY <1>4
  <2>2. file' = before
    BY <1>4, <2>1, Undone
  <2> QED
    BY <2>2
<1>5. CASE Commit /\ done = 4
  <2>1. IsManifest(before["manifest"]) /\ mine = Recovered(before["manifest"]) /\ old = before["assessment"]
    BY <1>5 DEF IInv, Recovering, Commit
  <2>2. /\ IsManifest(mine)
        /\ (\A u \in Units : before["manifest"].unit[u] = "absent") => \A u \in Units : mine.unit[u] = FromSession[evidence[u]]
    BY <2>1, RecoveredIs
  <2>3. file' = [f \in Files |-> Derived[f]]
    BY <1>5, Committed
  <2>4. /\ file'["review"] = Review(mine) /\ file'["sarif"] = Review(mine)
        /\ file'["assessment"] = Reassessed(before["assessment"])
        /\ file'["index"] = Render(file'["review"], file'["assessment"])
        /\ file'["manifest"].unit = mine.unit /\ file'["manifest"].page = file'["index"]
    BY <2>1, <2>2, <2>3, DerivedAre DEF Files
  <2>5. InStep(file')
    <3>1. file'["assessment"].shown = Review(mine)
      BY <2>4, Carried DEF Reassessed
    <3> QED
      BY <2>4, <3>1 DEF InStep, Review
  <2>6. AnswersShow(before, file')
    BY <2>2, <2>4 DEF AnswersShow, Review, FromSession
  <2>7. VerdictsShow(before, file')
    BY <2>4, ReassessedKeeps
  <2> QED
    BY <2>5, <2>6, <2>7
<1> QED
  BY <1>3, <1>4, <1>5

(* recover-report puts every file back or brings all in step, with all the *)
(* answers of a killed run and all the verdicts that still have their      *)
(* candidate (recovery.recover_report, recovery._replace_transaction).     *)
THEOREM RecoveriesAreWhole == Spec => RecoverIsWhole
<1> DEFINE Step ==
        cmd = "recover" /\ cmd' = "none" /\ kills' = kills =>
            file' = before \/ (InStep(file') /\ AnswersShow(before, file') /\ VerdictsShow(before, file'))
<1>1. IInv /\ [Next]_vars => [Step]_vars
  BY Whole
<1> QED
  BY <1>1, Inductive, PTL DEF Spec, RecoverIsWhole
=============================================================================
