----------------------------- MODULE RunProofs ------------------------------
(***************************************************************************)
(* Proofs about one analysis run: the pipeline of stages (Pipeline) and    *)
(* the run of a native tool inside it (ToolRun).                           *)
(***************************************************************************)
EXTENDS Pipeline, ToolRun, FiniteSetTheorems, SequenceTheorems, TLAPS

(***************************************************************************)
(* The pipeline.  The argument: while a thread saves, the manifest is what *)
(* it has serialised, because the lock keeps the other from changing it    *)
(* and nothing outside the window of the two sides runs beside the scan    *)
(* (Located, Locked, Serialised).  So a save that goes through puts the    *)
(* whole manifest on disk; what is in memory and not on disk was lost by   *)
(* an error, or is a stop that was only noted (HalfOfTheTools,             *)
(* HalfOfTheScan).  The verdict is made when both sides are over and       *)
(* every copy of the manifest still says running (Unjudged), and from then *)
(* on only changes as the copies do (Copies, Judgement).                   *)
(***************************************************************************)
Saves(t) == pc[t] \in {"write", "replace"}

(* Where a thread is, or goes on after its save.                           *)
At(t) == IF Saves(t) THEN resume[t] ELSE pc[t]

SetUpPoints == {"setup", "start"}
StagePoints == {"stability", "review", "gate", "export", "report", "publish"}
FinishPoints == {"finish", "rendered", "finished"}
Window == StaticPoints \cup {"join"}
BeforeVerdict == SetUpPoints \cup Window \cup {"stability"}

(* A signal in the wait for a scan that still runs breaks off the window:  *)
(* what that run leaves on disk is not claimed to be whole.                *)
BrokenOff == struck = "join"

(* A signal in the wait for a scan that is over finishes a run that was    *)
(* about to raise its error.                                               *)
ErrorForgotten == struck = "joined" /\ At("main") \in FinishPoints \cup Ends

Located ==
    /\ At("main") \in SetUpPoints \cup Window \cup StagePoints \cup FinishPoints \cup Ends
    /\ At("llm") \in {"begin", "scan", "over"}
    /\ Saves("main") => At("main") \in {"start", "work", "tool", "context", "wrapUp", "export", "report",
                                           "publish", "returned", "rendered", "finished"}
    /\ Saves("llm") => At("llm") # "begin"
    /\ At("main") \in SetUpPoints \cup StagePoints => ~interrupted
    /\ pc["main"] \in {"ask", "rerun"} => round < Rounds
    /\ At("main") \notin Window /\ ~BrokenOff => pc["llm"] = "over"
    /\ ~options.llm => pc["llm"] = "over" /\ failure = "none"
    /\ BrokenOff => At("main") \in FinishPoints \cup {"returned", "raised"}
    /\ failure = "static" => BrokenOff \/ pc["main"] \in {"join", "raised"} \/ ErrorForgotten
    /\ failure \in {"static", "llm"} => BrokenOff \/ faults > 0
    /\ failure = "llm" => BrokenOff \/ At("main") \in Window \cup {"raised"} \/ ErrorForgotten
    /\ failure = "signal" => BrokenOff \/ pc["main"] = "join" \/ At("main") \in FinishPoints \cup Ends
    /\ pc["main"] = "setup" \/ (Saves("main") /\ At("main") = "start") => disk = None
    /\ disk = None =>
         /\ At("main") \in SetUpPoints \cup {"early", "raised", "killed"}
         /\ At("main") = "start" => Saves("main")
         /\ failure = "none" /\ pc["llm"] = "over"

Locked ==
    /\ \A t \in Threads : lock = t => Saves(t)
    /\ Saves("llm") => lock = "llm"
    /\ Saves("main") => lock = "main" \/ At("main") \in {"rendered", "finished"}

Serialised ==
    /\ \A t \in Threads : Saves(t) => snap[t] \in Manifests
    /\ \A t \in Threads : pc[t] = "replace" /\ ~BrokenOff => tmp = snap[t]
    /\ \A t \in Threads : Saves(t) /\ ~BrokenOff => snap[t] = manifest

(* The scan's half of the manifest is on disk, unless it is being saved or *)
(* the scan erred.                                                         *)
HalfOfTheScan ==
    \/ BrokenOff \/ Saves("llm") \/ disk = None
    \/ failure = "none" /\ At("main") \notin Window \cup {"start", "stability"}
    \/ failure = "static" /\ (faults > 1 \/ At("main") \in FinishPoints \cup {"returned", "killed"})
    \/ failure \in {"llm", "signal"}
    \/ disk.llm = manifest.llm

(* So is the tools', but for a stop that was noted and not yet saved.      *)
HalfOfTheTools ==
    \/ BrokenOff \/ Saves("main") \/ disk = None
    \/ failure = "none" /\ At("main") \notin Window \cup {"start", "stability"}
    \/ failure = "llm" /\ (faults > 1 \/ struck # "none")
    \/ failure \in {"static", "signal"}
    \/ \A t \in Tools :
          disk.tools[t] = manifest.tools[t] \/ (manifest.tools[t] = "interrupted" /\ interrupted)

(* Until both sides are over, nothing says how the run ended, and a run    *)
(* that was broken off is interrupted at most.                             *)
Undecided(m) == m # None => m.status \in IF BrokenOff THEN {"running", "interrupted"} ELSE {"running"}
Unjudged ==
    BrokenOff \/ At("main") \in BeforeVerdict =>
        /\ Undecided(manifest) /\ Undecided(disk) /\ Undecided(tmp)
        /\ \A t \in Threads : Undecided(snap[t])

(* What the manifest of a run that is no longer running may say.           *)
Proper(m) == (m.gate <=> m.exit = 1) /\ <<m.status, m.exit>> \in Verdicts
Whole(m) == (\A t \in Tools : m.tools[t] \in {"completed", "not_applicable"}) /\ m.llm # "running"
Complete(m) == Whole(m) /\ held
Sound(m) ==
    m # None => Proper(m) /\ (m.status = "complete" => Complete(m) /\ m.review \in {"completed", "disabled"})

Copies == Sound(disk) /\ Sound(tmp) /\ \A t \in Threads : Sound(snap[t])

Judgement ==
    /\ Proper(manifest)
    /\ manifest.status = "complete" => Complete(manifest)
    /\ At("main") \in {"gate", "export", "report", "publish", "rendered", "finished", "returned"} => Sound(manifest)
    /\ At("main") \in {"review", "gate"} => manifest.exit # 1
    /\ At("main") \in BeforeVerdict =>
         manifest.review = IF options.review THEN "pending" ELSE "disabled"
    /\ At("main") \in BeforeVerdict \cup {"review", "gate", "export"} /\ ~options.export =>
         manifest.export = "disabled"
    /\ At("main") \in {"report", "publish", "rendered", "finished", "returned"} /\ manifest.status = "complete" =>
         manifest.export \in {"completed", "disabled"}

(* What the static side has been through: the tools before this one, then  *)
(* all.                                                                    *)
Behind(t) == manifest.tools[t] \notin {"running", "not_requested"}
AllBehind == \A t \in Tools : Behind(t)
EarlierBehind == \A t \in Tools : t < tool => Behind(t)
PassedTools ==
    /\ At("main") \in SetUpPoints => tool = 1
    /\ At("main") \in {"tool", "work"} => EarlierBehind
    /\ At("main") \in (StaticPoints \ {"tool", "work"}) \cup StagePoints => AllBehind
    /\ At("main") = "join" /\ failure = "none" => AllBehind
    /\ At("main") \in {"rendered", "finished", "returned"} => AllBehind

Interruption == [status |-> "interrupted", exit |-> 130]

(* What the scan has been through, and what the end publishes.             *)
Account ==
    /\ options.llm /\ At("main") \notin SetUpPoints \cup {"early", "raised", "killed"} /\ pc["llm"] # "begin"
       /\ ~BrokenOff => manifest.llm # "not_requested"
    /\ At("llm") = "over" /\ failure = "none" /\ ~BrokenOff => manifest.llm # "running"
    /\ At("main") \in {"rendered", "finished", "returned"} /\ ~BrokenOff => manifest.llm # "running"
    /\ pc["main"] \in {"publish", "rendered", "finished", "returned"} /\ ~BrokenOff => disk = manifest
    /\ At("main") \in {"rendered", "finished", "returned"} /\ BrokenOff => Said(manifest) = Interruption
    /\ latest # None => pc["main"] = "returned" /\ latest = Said(manifest)

PipelineInv ==
    /\ TypeOK /\ Located /\ Locked /\ Serialised /\ HalfOfTheScan /\ HalfOfTheTools
    /\ Unjudged /\ Copies /\ Judgement /\ PassedTools /\ Account
-----------------------------------------------------------------------------
(* What the manifest becomes in the hands of each step.                    *)
LEMMA ToolsTyped ==
    ASSUME manifest \in Manifests, NEW t \in Tools, NEW status \in ToolStatuses
    PROVE  WithTool(t, status) \in Manifests
  BY DEF Manifests, WithTool

LEMMA FieldsTyped ==
    ASSUME NEW m \in Manifests,
           NEW status \in {"running", "complete", "partial", "failed", "interrupted"},
           NEW code \in {-1, 0, 1, 10, 20, 130}, NEW gate \in BOOLEAN,
           NEW review \in {"pending", "disabled", "completed", "partial", "failed", "interrupted"},
           NEW export \in {"pending", "disabled", "completed", "failed"}
    PROVE  /\ [m EXCEPT !.status = status] \in Manifests
           /\ [m EXCEPT !.exit = code] \in Manifests
           /\ [m EXCEPT !.gate = gate] \in Manifests
           /\ [m EXCEPT !.review = review] \in Manifests
           /\ [m EXCEPT !.export = export] \in Manifests
<1>1. [m EXCEPT !.status = status] \in Manifests
  BY DEF Manifests
<1>2. [m EXCEPT !.exit = code] \in Manifests
  BY DEF Manifests
<1>3. [m EXCEPT !.gate = gate] \in Manifests
  BY DEF Manifests
<1>4. [m EXCEPT !.review = review] \in Manifests
  BY DEF Manifests
<1>5. [m EXCEPT !.export = export] \in Manifests
  BY DEF Manifests
<1> QED
  BY <1>1, <1>2, <1>3, <1>4, <1>5

LEMMA VerdictTyped ==
    ASSUME NEW m \in Manifests, NEW stable, NEW export, NEW review
    PROVE  /\ Overall(stable, export, review) \in
                [status : {"complete", "partial", "failed", "interrupted"}, exit : {0, 10, 20, 130}]
           /\ Judged(m, Overall(stable, export, review)) \in Manifests
           /\ Lowered(m) \in Manifests
<1>1. Overall(stable, export, review) \in
        [status : {"complete", "partial", "failed", "interrupted"}, exit : {0, 10, 20, 130}]
  BY DEF Overall
<1>2. ASSUME NEW verdict \in [status : {"complete", "partial", "failed", "interrupted"}, exit : {0, 10, 20, 130}]
      PROVE  Judged(m, verdict) \in Manifests
  <2>1. [m EXCEPT !.status = verdict.status] \in Manifests
    BY FieldsTyped
  <2>2. [[m EXCEPT !.status = verdict.status] EXCEPT !.exit = verdict.exit] \in Manifests
    BY <2>1, FieldsTyped
  <2> QED
    BY <2>2 DEF Judged
<1>3. Lowered(m) \in Manifests
  <2>1. [m EXCEPT !.status = "partial"] \in Manifests
    BY FieldsTyped
  <2>2. [[m EXCEPT !.status = "partial"] EXCEPT !.exit = 10] \in Manifests
    BY <2>1, FieldsTyped
  <2> QED
    BY <2>2 DEF Lowered
<1> QED
  BY <1>1, <1>2, <1>3

LEMMA ExportTyped ==
    ASSUME manifest \in Manifests
    PROVE  ExportSucceeds \in Manifests /\ ExportFails \in Manifests
<1>1. [manifest EXCEPT !.export = "completed"] \in Manifests /\ [manifest EXCEPT !.export = "failed"] \in Manifests
  BY DEF Manifests
<1>2. /\ Judged([manifest EXCEPT !.export = "completed"], Overall(held, "completed", manifest.review)) \in Manifests
      /\ Judged([manifest EXCEPT !.export = "failed"], Overall(held, "failed", manifest.review)) \in Manifests
  BY <1>1, VerdictTyped
<1> QED
  BY <1>2 DEF ExportSucceeds, ExportFails, Manifests

LEMMA TypeKept == ASSUME TypeOK, Located, Serialised, [Next]_vars PROVE TypeOK'
<1> USE PipelineAssumption DEF TypeOK, Threads
<1>0. /\ "finished" \in Points /\ Points \subseteq Points \cup {"write", "replace"} /\ Points \subseteq Points \cup {"none"}
      /\ {"tool", "work", "context", "ask", "rerun", "record", "wrapUp", "setup", "start",
          "join", "stability", "review", "gate", "export", "report", "publish", "finish",
          "rendered", "finished", "begin", "scan", "over", "returned", "raised", "killed", "early"} \subseteq Points
      /\ tool \in 1..NTools /\ NTools \in Nat /\ Rounds \in 0..Rounds /\ 0 \in 0..Rounds /\ 1 \in Tools
  BY DEF Points, Ends, Tools
<1>1. CASE SetUp \/ CancelledEarly \/ Start
  BY <1>0, <1>1 DEF SetUp, CancelledEarly, Start, Enter, Publish, Going, static
<1>2. PointAfter(TRUE) \in Points /\ PointAfter(FALSE) \in Points /\ PointAfter(interrupted) \in Points
      /\ (NextTool => tool' \in Tools)
  BY <1>0 DEF PointAfter, NextTool, Tools
<1>3. CASE NotRun \/ StartTool
  <2>1. WithTool(tool, "skipped") \in Manifests /\ WithTool(tool, "missing") \in Manifests /\ WithTool(tool, "running") \in Manifests
    BY ToolsTyped DEF ToolStatuses
  <2> QED
    BY <1>0, <1>2, <1>3, <2>1 DEF NotRun, StartTool, AtCheckpoint, Enter, Publish, Going, static
<1>4. CASE Interrupt
  <2>1. WithTool(tool, "interrupted") \in Manifests
    BY ToolsTyped DEF ToolStatuses
  <2> QED
    BY <1>0, <1>2, <1>4, <2>1 DEF Interrupt, AtCheckpoint, Going
<1>5. CASE EndTool
  <2>1. \A status \in Final \cup {"interrupted"} : WithTool(tool, status) \in Manifests
    BY ToolsTyped DEF ToolStatuses
  <2>2. \A status \in Final \cup {"interrupted"} : PointAfter(status = "interrupted") \in Points
    BY <1>0 DEF PointAfter
  <2> QED
    BY <1>0, <1>2, <1>5, <2>1, <2>2 DEF EndTool, Caught, Enter, Publish, Going
<1>6. CASE EndRerun
  <2>1. \A status \in DOMAIN Rank : WithTool(tool, status) \in Manifests
    BY ToolsTyped DEF ToolStatuses, Final, Rank
  <2>2. "context" \in Points /\ "context" \in Points \cup {"none"}
    BY <1>0
  <2>3. PICK status \in DOMAIN Rank : Publish("main", WithTool(tool, status), "context")
    BY <1>6 DEF EndRerun
  <2>4. struck' \in {"none", "tool", "context", "static", "join", "joined", "outside"} /\ lock' \in Threads \cup {"free"}
    BY <1>6 DEF EndRerun, Caught, Enter
  <2>5. round' \in 0..Rounds
    <3>1. round < Rounds /\ round \in Nat /\ Rounds \in Nat
      BY <1>6 DEF EndRerun, Located
    <3> QED
      BY <1>6, <3>1 DEF EndRerun
  <2> QED
    BY <1>0, <1>6, <2>1, <2>2, <2>3, <2>4, <2>5 DEF EndRerun, Publish, Going
<1>7. CASE Propose \/ PassOver \/ LeaveLoop \/ RerunFails \/ Record \/ WrapUp \/ Decide
  <2>1. struck' = struck \/ struck' = "context"
    BY <1>7 DEF Propose, PassOver, LeaveLoop, RerunFails, Record, WrapUp, Decide, Caught, static
  <2>2. tool' \in Tools /\ round' \in 0..Rounds /\ paused' \in BOOLEAN
    <3>1. CASE PassOver
      BY <1>0, <3>1 DEF PassOver, Tools
    <3>2. CASE Propose \/ LeaveLoop \/ RerunFails \/ Record
      BY <1>0, <3>2 DEF Propose, LeaveLoop, RerunFails, Record, static
    <3>3. CASE WrapUp
      BY <1>0, <3>3 DEF WrapUp
    <3>4. CASE Decide
      BY <1>0, <3>4 DEF Decide
    <3> QED
      BY <1>7, <3>1, <3>2, <3>3, <3>4
  <2> QED
    BY <1>0, <1>7, <2>1, <2>2 DEF Propose, PassOver, LeaveLoop, RerunFails, Record, WrapUp, Decide, Enter, Publish, Going, static
<1>22. CASE StaticRaises
  <2>1. faults' \in 0..MaxFaults
    BY <1>22 DEF StaticRaises
  <2> QED
    BY <1>0, <1>22, <2>1 DEF StaticRaises, Raise, Failed, Going
<1>8. CASE BeginScan \/ EndScan
  <2>1. \A status \in {"running", "completed", "partial", "failed", "interrupted"} :
          [manifest EXCEPT !.llm = status] \in Manifests
    BY DEF Manifests
  <2> QED
    BY <1>0, <1>8, <2>1 DEF BeginScan, EndScan, Enter, Publish, Going, static
<1>9. CASE Join
  <2>1. cancelled' \in BOOLEAN
    BY <1>9 DEF Join
  <2> QED
    BY <1>0, <1>9, <2>1 DEF Join, Main, Going
<1>20. CASE StageStopped \/ PublishLatest \/ FinishPublishes \/ Report
  BY <1>0, <1>20 DEF StageStopped, PublishLatest, FinishPublishes, Report, Main, Enter, Publish, Going, static
<1>10. CASE Verify
  BY <1>0, <1>10, VerdictTyped DEF Verify, Decided, rest, Going
<1>11. CASE Review
  <2>1. /\ [manifest EXCEPT !.review = "completed"] \in Manifests
        /\ [Lowered(manifest) EXCEPT !.review = "partial", !.gate = FALSE] \in Manifests
        /\ [Lowered(manifest) EXCEPT !.review = "failed"] \in Manifests
    <3>1. Lowered(manifest) \in Manifests
      BY VerdictTyped
    <3>2. [Lowered(manifest) EXCEPT !.review = "partial"] \in Manifests
      BY <3>1, FieldsTyped
    <3>3. [[Lowered(manifest) EXCEPT !.review = "partial"] EXCEPT !.gate = FALSE] \in Manifests
      BY <3>2, FieldsTyped
    <3> QED
      BY <3>1, <3>3, FieldsTyped
  <2> QED
    BY <1>0, <1>11, <2>1 DEF Review, Decided, rest, Going
<1>12. CASE Gate
  <2>1. [manifest EXCEPT !.gate = TRUE, !.exit = 1] \in Manifests
    BY DEF Manifests
  <2> QED
    BY <1>0, <1>12, <2>1 DEF Gate, Enter, Publish, Going, static
<1>13. CASE Export
  BY <1>0, <1>13, ExportTyped DEF Export, Decided, rest, Going
<1>14. CASE PublishFails
  <2>1. Unpublished(manifest) \in Manifests
    BY VerdictTyped, FieldsTyped DEF Unpublished
  <2> QED
    BY <1>0, <1>14, <2>1 DEF PublishFails, Enter, Publish, Going, static
<1>15. CASE Finish
  <2>1. \A t \in Tools : Closed(manifest.tools[t]) \in ToolStatuses
    BY DEF Closed, Manifests, ToolStatuses
  <2>2. manifest' \in Manifests
    BY <1>15, <2>1 DEF Finish, Publish, Manifests
  <2> QED
    BY <1>0, <1>15, <2>2 DEF Finish, Publish, Going, static
<1>23. CASE FinishAgain
  BY <1>0, <1>23 DEF FinishAgain, Publish, Going, static
<1>16. ASSUME NEW t \in Threads, Write(t) \/ Replace(t) PROVE TypeOK'
  <2>1. Saves(t) => resume[t] \in Points /\ snap[t] \in Manifests
    BY DEF Located, At, Saves, SetUpPoints, Window, StagePoints, FinishPoints, StaticPoints, Points, Serialised
  <2> QED
    BY <1>0, <1>16, <2>1 DEF Write, Replace, Going, Saved, Saves
<1>17. ASSUME NEW t \in Threads, SaveFails(t) PROVE TypeOK'
  BY <1>0, <1>17 DEF SaveFails, Going, Saved, Raise, Failed
<1>18. CASE Cancel \/ UNCHANGED vars
  <2>1. cancelled' \in BOOLEAN
    BY <1>18 DEF Cancel, vars
  <2> QED
    BY <1>18, <2>1 DEF Cancel, vars
<1>21. CASE TogglePause
  <2>1. paused' \in BOOLEAN
    BY <1>21 DEF TogglePause
  <2> QED
    BY <1>21, <2>1 DEF TogglePause
<1>19. CASE Signal
  <2>1. cancelled' \in BOOLEAN /\ failure' \in {"none", "static", "llm", "signal"}
    BY <1>19 DEF Signal, SignalStatic, SignalJoin, SignalOutside, Failed
  <2>2. pc' \in [Threads -> Points \cup {"write", "replace"}]
    BY <1>0, <1>19 DEF Signal, SignalStatic, SignalJoin, SignalOutside, Going
  <2> QED
    BY <1>0, <1>19, <2>1, <2>2 DEF Signal, SignalStatic, SignalJoin, SignalOutside, Saved
<1> QED
  BY <1>1, <1>3, <1>4, <1>5, <1>6, <1>7, <1>8, <1>9, <1>10, <1>11, <1>12, <1>13, <1>14, <1>15,
     <1>16, <1>17, <1>18, <1>19, <1>20, <1>21, <1>22, <1>23 DEF Next, MainNext, LlmNext, Static, Stages, Saving

LEMMA LocatedKept == ASSUME TypeOK, Located, Serialised, [Next]_vars PROVE Located'
<1> USE DEF Located, ErrorForgotten, At, Saves, SetUpPoints, StagePoints, FinishPoints, Window, BrokenOff, Threads, Ends, StaticPoints
<1>0. pc \in [Threads -> Points \cup {"write", "replace"}] /\ resume \in [Threads -> Points \cup {"none"}]
  BY DEF TypeOK
<1>1. CASE SetUp \/ CancelledEarly \/ Start
  BY <1>0, <1>1 DEF SetUp, CancelledEarly, Start, Publish, Going, static
<1>2. CASE NotRun \/ Interrupt \/ StartTool \/ EndTool
  BY <1>0, <1>2 DEF NotRun, Interrupt, StartTool, EndTool, AtCheckpoint, Publish, Going, static, PointAfter, Caught
<1>3. CASE Propose \/ PassOver \/ LeaveLoop \/ EndRerun \/ RerunFails \/ Record \/ WrapUp \/ Decide
  BY <1>0, <1>3 DEF Propose, PassOver, LeaveLoop, EndRerun, RerunFails, Record, WrapUp, Decide, AtRound, Publish, Going, static, Caught
<1>4. CASE BeginScan \/ EndScan
  BY <1>0, <1>4 DEF BeginScan, EndScan, Publish, Going, static
<1>5. CASE Join \/ Verify \/ Review \/ Gate
  BY <1>0, <1>5 DEF Join, Verify, Review, Gate, Main, Joined, Decided, rest, Publish, Going, static
<1>6. CASE Export \/ Report \/ StageStopped \/ PublishLatest \/ PublishFails
  BY <1>0, <1>6 DEF Export, Report, StageStopped, PublishLatest, PublishFails, Main, Decided, rest, Publish, Going, static
<1>14. CASE Finish \/ FinishAgain \/ FinishPublishes
  BY <1>0, <1>14 DEF Finish, FinishAgain, FinishPublishes, Main, Decided, rest, Publish, Going, static
<1>7. ASSUME NEW t \in Threads, Write(t) PROVE Located'
  BY <1>0, <1>7 DEF Write, Going
<1>8. ASSUME NEW t \in Threads, Replace(t) PROVE Located'
  BY <1>0, <1>8 DEF Replace, Going, Saved
<1>9. ASSUME NEW t \in Threads, SaveFails(t) PROVE Located'
  <2>1. faults \in Nat /\ (~BrokenOff => faults' = faults + 1)
    BY <1>9, PipelineAssumption DEF SaveFails, Serialised, None, Manifests, TypeOK
  <2> QED
    BY <1>0, <1>9, <2>1 DEF SaveFails, Going, Saved, Raise, InStatic, Failed
<1>10. CASE Cancel \/ TogglePause \/ UNCHANGED vars
  BY <1>0, <1>10 DEF Cancel, TogglePause, vars
<1>11. CASE Signal /\ SignalStatic
  BY <1>0, <1>11 DEF Signal, SignalStatic, InStatic, Failed, Saved, Going
<1>12. CASE Signal /\ SignalJoin
  BY <1>0, <1>12 DEF Signal, SignalJoin, Joined, Going
<1>15. CASE StaticRaises
  <2>1. faults \in Nat /\ faults' = faults + 1
    BY <1>15, PipelineAssumption DEF StaticRaises, TypeOK
  <2> QED
    BY <1>0, <1>15, <2>1 DEF StaticRaises, AtCheckpoint, Raise, InStatic, Failed, Going
<1>13. CASE Signal /\ SignalOutside
  BY <1>0, <1>13 DEF Signal, SignalOutside, InStatic, Saved, Going, Ended
<1> QED
  BY <1>1, <1>2, <1>3, <1>4, <1>5, <1>6, <1>7, <1>8, <1>9, <1>10, <1>11, <1>12, <1>13, <1>14, <1>15
     DEF Next, MainNext, LlmNext, Static, Stages, Saving, Signal


LEMMA LockedKept == ASSUME TypeOK, Located, Locked, Serialised, [Next]_vars PROVE Locked'
<1> USE DEF Locked, At, Saves, Threads
<1>0. pc \in [Threads -> Points \cup {"write", "replace"}] /\ resume \in [Threads -> Points \cup {"none"}]
  BY DEF TypeOK
<1>1. CASE SetUp \/ CancelledEarly \/ Start
  BY <1>0, <1>1 DEF SetUp, CancelledEarly, Start, Enter, Publish, Going, static, Located, Window, StaticPoints, BrokenOff, FinishPoints
<1>2. CASE NotRun \/ Interrupt \/ StartTool \/ EndTool
  BY <1>0, <1>2 DEF NotRun, Interrupt, StartTool, EndTool, AtCheckpoint, Enter, Publish, Going, static, PointAfter, Caught
<1>3. CASE Propose \/ PassOver \/ LeaveLoop \/ EndRerun \/ RerunFails \/ Record \/ WrapUp \/ Decide
  BY <1>0, <1>3 DEF Propose, PassOver, LeaveLoop, EndRerun, RerunFails, Record, WrapUp, Decide, AtRound,
                    Enter, Publish, Going, static, Caught
<1>4. CASE BeginScan \/ EndScan
  BY <1>0, <1>4 DEF BeginScan, EndScan, Enter, Publish, Going, static
<1>5. CASE Join \/ Verify \/ Review \/ Gate
  BY <1>0, <1>5 DEF Join, Verify, Review, Gate, Main, Joined, Decided, rest, Enter, Publish, Going, static
<1>6. CASE Export \/ Report \/ StageStopped \/ PublishLatest \/ PublishFails \/ Finish \/ FinishAgain \/ FinishPublishes
  BY <1>0, <1>6 DEF Export, Report, StageStopped, PublishLatest, PublishFails, Finish, FinishAgain, FinishPublishes,
                    Main, Decided, rest, Enter, Publish, Going, static
<1>7. ASSUME NEW t \in Threads, Write(t) PROVE Locked'
  BY <1>0, <1>7 DEF Write, Going
<1>8. ASSUME NEW t \in Threads, Replace(t) PROVE Locked'
  <2>1. resume[t] \notin {"write", "replace"}
    BY <1>0 DEF Points, Ends
  <2> QED
    BY <1>0, <1>8, <2>1 DEF Replace, Going, Saved
<1>9. ASSUME NEW t \in Threads, SaveFails(t) PROVE Locked'
  BY <1>0, <1>9 DEF SaveFails, Going, Saved, Raise
<1>10. CASE Cancel \/ TogglePause \/ UNCHANGED vars
  BY <1>0, <1>10 DEF Cancel, TogglePause, vars
<1>11. CASE Signal
  BY <1>0, <1>11 DEF Signal, SignalStatic, SignalJoin, SignalOutside, Saved, Going
<1>12. CASE StaticRaises
  BY <1>0, <1>12 DEF StaticRaises, AtCheckpoint, Raise, Going
<1> QED
  BY <1>1, <1>2, <1>3, <1>4, <1>5, <1>6, <1>7, <1>8, <1>9, <1>10, <1>11, <1>12
     DEF Next, MainNext, LlmNext, Static, Stages, Saving

(* The two threads never save at the same time, but in a run that was      *)
(* broken off; and beside a save nothing else changes the manifest.        *)
LEMMA OneSaves ==
    ASSUME TypeOK, Located, Locked, ~BrokenOff
    PROVE  /\ ~(Saves("main") /\ Saves("llm"))
           /\ lock = "free" => ~Saves("llm") /\ (Saves("main") => At("main") \in {"rendered", "finished"})
  BY DEF TypeOK, Located, Locked, Saves, At, Window, StaticPoints, Threads, FinishPoints

LEMMA SerialisedKept ==
    ASSUME TypeOK, TypeOK', Located, Locked, Serialised, [Next]_vars PROVE Serialised'
<1> USE DEF Serialised, Saves, BrokenOff, Threads
<1>0. /\ pc \in [Threads -> Points \cup {"write", "replace"}] /\ snap \in [Threads -> Manifests \cup {None}]
      /\ manifest \in Manifests /\ manifest' \in Manifests
  BY DEF TypeOK
<1>9. ASSUME ~BrokenOff
      PROVE  /\ ~(Saves("main") /\ Saves("llm"))
             /\ lock = "free" => ~Saves("llm") /\ (Saves("main") => At("main") \in {"rendered", "finished"})
             /\ pc["main"] \notin Window => pc["llm"] = "over" \/ Saves("main")
  BY <1>9, OneSaves DEF Located, At
<1>1. CASE SetUp \/ CancelledEarly \/ Start
  BY <1>0, <1>1, <1>9 DEF SetUp, CancelledEarly, Start, Enter, Publish, Going, static
<1>2. CASE NotRun \/ StartTool \/ EndTool
  BY <1>0, <1>2, <1>9 DEF NotRun, StartTool, EndTool, AtCheckpoint, Enter, Publish, Going, static, Caught
<1>3. CASE Interrupt
  BY <1>0, <1>3, <1>9 DEF Interrupt, AtCheckpoint, Going, PointAfter
<1>4. CASE Propose \/ PassOver \/ LeaveLoop \/ RerunFails \/ WrapUp \/ Decide
  BY <1>0, <1>4 DEF Propose, PassOver, LeaveLoop, RerunFails, WrapUp, Decide, Going, static, Caught
<1>16. CASE StaticRaises
  BY <1>0, <1>16 DEF StaticRaises, Raise, Going
<1>5. CASE EndRerun \/ Record
  BY <1>0, <1>5, <1>9 DEF EndRerun, Record, Enter, Publish, Going, static, Caught
<1>14. CASE BeginScan \/ EndScan
  <2>1. ~BrokenOff /\ lock = "free" => ~Saves("main")
    BY <1>9, <1>14 DEF BeginScan, EndScan, Located, Window, StaticPoints
  <2> QED
    BY <1>0, <1>14, <2>1 DEF BeginScan, EndScan, Enter, Publish, Going, static
<1>6. CASE Join \/ StageStopped \/ PublishLatest \/ FinishPublishes \/ Cancel \/ TogglePause \/ UNCHANGED vars
  BY <1>0, <1>6 DEF Join, StageStopped, PublishLatest, FinishPublishes, Cancel, TogglePause, vars, Main, Going, static
<1>7. CASE Verify \/ Review \/ Export
  BY <1>0, <1>7, <1>9 DEF Verify, Review, Export, Decided, rest, Going, Window, StaticPoints
<1>8. CASE Gate \/ Report \/ PublishFails
  BY <1>0, <1>8, <1>9 DEF Gate, Report, PublishFails, Enter, Publish, Going, static, Window, StaticPoints
<1>15. CASE Finish \/ FinishAgain
  <2>1. pc["main"] \in {"finish", "rendered"} /\ ~BrokenOff => ~Saves("llm")
    BY <1>9 DEF Window, StaticPoints
  <2>2. /\ pc' = [pc EXCEPT !["main"] = "write"] /\ snap' = [snap EXCEPT !["main"] = manifest']
        /\ pc["main"] \in {"finish", "rendered"} /\ UNCHANGED <<tmp, struck>>
    BY <1>15 DEF Finish, FinishAgain, Publish, Going, static
  <2> QED
    BY <1>0, <2>1, <2>2
<1>10. ASSUME NEW t \in Threads, Write(t) PROVE Serialised'
  BY <1>0, <1>9, <1>10 DEF Write, Going
<1>11. ASSUME NEW t \in Threads, Replace(t) PROVE Serialised'
  <2>1. resume[t] \notin {"write", "replace"}
    BY DEF TypeOK, Points, Ends
  <2> QED
    BY <1>0, <1>9, <1>11, <2>1 DEF Replace, Going, Saved
<1>12. ASSUME NEW t \in Threads, SaveFails(t) PROVE Serialised'
  BY <1>0, <1>9, <1>12 DEF SaveFails, Going, Saved, Raise
<1>13. CASE Signal
  BY <1>0, <1>13 DEF Signal, SignalStatic, SignalJoin, SignalOutside, Saved, Going
<1> QED
  BY <1>1, <1>2, <1>3, <1>4, <1>5, <1>6, <1>7, <1>8, <1>10, <1>11, <1>12, <1>13, <1>14, <1>15, <1>16
     DEF Next, MainNext, LlmNext, Static, Stages, Saving

-----------------------------------------------------------------------------
(* A save that goes through puts the whole manifest on disk.               *)
LEMMA ReplaceWrites ==
    ASSUME TypeOK, Serialised, NEW t \in Threads, Replace(t), ~BrokenOff
    PROVE  disk' = manifest /\ manifest' = manifest
  BY DEF Serialised, Replace, Saves

LEMMA WithToolElse ==
    ASSUME manifest \in Manifests, NEW t \in Tools, NEW status
    PROVE  /\ WithTool(t, status).status = manifest.status /\ WithTool(t, status).exit = manifest.exit
           /\ WithTool(t, status).gate = manifest.gate /\ WithTool(t, status).llm = manifest.llm
           /\ WithTool(t, status).review = manifest.review /\ WithTool(t, status).export = manifest.export
           /\ WithTool(t, status).tools = [manifest.tools EXCEPT ![t] = status]
  BY DEF WithTool, Manifests

(* The scan alone changes its half of the manifest, up to the finish.      *)
LEMMA HalfOfTheScanKept ==
    ASSUME TypeOK, Located, Locked, Serialised, HalfOfTheScan, [Next]_vars PROVE HalfOfTheScan'
<1> USE DEF HalfOfTheScan, At, Saves, BrokenOff, Threads
<1>0. /\ pc \in [Threads -> Points \cup {"write", "replace"}] /\ resume \in [Threads -> Points \cup {"none"}]
      /\ manifest \in Manifests /\ faults \in Nat /\ tool \in Tools
      /\ failure \in {"none", "static", "llm", "signal"}
  BY PipelineAssumption DEF TypeOK
<1>1. CASE SetUp \/ CancelledEarly
  BY <1>0, <1>1 DEF SetUp, CancelledEarly, Publish, Going, static, Located
<1>12. CASE Start
  BY <1>0, <1>12 DEF Start, Located, Window, StaticPoints, FinishPoints
<1>2. CASE NotRun \/ Interrupt \/ StartTool \/ EndTool
  <2>1. manifest'.llm = manifest.llm
    <3>1. PICK status : manifest' = WithTool(tool, status)
      BY <1>2 DEF NotRun, Interrupt, StartTool, EndTool, Publish
    <3>2. WithTool(tool, status).llm = manifest.llm
      BY <1>0, WithToolElse
    <3> QED
      BY <3>1, <3>2
  <2>2. At("main") \in Window /\ UNCHANGED <<disk, failure, faults>> /\ pc'["llm"] = pc["llm"]
    BY <1>0, <1>2 DEF NotRun, Interrupt, StartTool, EndTool, AtCheckpoint, Publish, Going, static, Window, StaticPoints
  <2>3. struck' = struck \/ struck' = "tool"
    BY <1>2 DEF NotRun, Interrupt, StartTool, EndTool, static, Caught
  <2> QED
    BY <2>1, <2>2, <2>3 DEF Located, FinishPoints, Window, StaticPoints
<1>3. CASE Propose \/ PassOver \/ LeaveLoop \/ EndRerun \/ RerunFails \/ Record \/ WrapUp \/ Decide
  <2>1. manifest'.llm = manifest.llm
    <3>1. PICK status : manifest' = manifest \/ manifest' = WithTool(tool, status)
      BY <1>3 DEF Propose, PassOver, LeaveLoop, EndRerun, RerunFails, Record, WrapUp, Decide, Publish
    <3>2. WithTool(tool, status).llm = manifest.llm
      BY <1>0, WithToolElse
    <3> QED
      BY <3>1, <3>2
  <2>2. At("main") \in Window /\ UNCHANGED <<disk, failure, faults>> /\ pc'["llm"] = pc["llm"]
    BY <1>0, <1>3 DEF Propose, PassOver, LeaveLoop, EndRerun, RerunFails, Record, WrapUp, Decide, AtRound,
                      Publish, Going, static, Window, StaticPoints
  <2>3. struck' = struck \/ struck' = "context"
    BY <1>3 DEF Propose, PassOver, LeaveLoop, EndRerun, RerunFails, Record, WrapUp, Decide, static, Caught
  <2> QED
    BY <2>1, <2>2, <2>3 DEF Located, FinishPoints, Window, StaticPoints
<1>4. CASE BeginScan \/ EndScan
  BY <1>0, <1>4 DEF BeginScan, EndScan, Publish, Going
<1>5. CASE Join \/ StageStopped \/ PublishLatest \/ FinishPublishes \/ Cancel \/ TogglePause \/ UNCHANGED vars
  BY <1>0, <1>5 DEF Join, StageStopped, PublishLatest, FinishPublishes, Cancel, TogglePause, vars, Main, Going, static,
                    Window, StaticPoints, FinishPoints
<1>6. CASE Verify \/ Review \/ Gate \/ Export \/ Report \/ PublishFails
  <2>1. At("main") \in StagePoints /\ At("main")' \notin Window \cup {"start", "stability"}
    BY <1>0, <1>6 DEF Verify, Review, Gate, Export, Report, PublishFails, Decided, Publish, Going,
                      Window, StaticPoints, StagePoints
  <2>2. UNCHANGED <<failure, faults, struck>>
    BY <1>6 DEF Verify, Review, Gate, Export, Report, PublishFails, rest, static
  <2>3. failure \in {"none", "llm", "signal"} \/ BrokenOff
    BY <2>1 DEF Located, ErrorForgotten, TypeOK, StagePoints, FinishPoints, Ends
  <2> QED
    BY <2>1, <2>2, <2>3
<1>7. CASE Finish \/ FinishAgain
  <2>1. At("main")' \in FinishPoints \ {"finish"} /\ UNCHANGED <<failure, faults, struck>>
    BY <1>0, <1>7 DEF Finish, FinishAgain, Publish, Going, static, FinishPoints
  <2> QED
    BY <1>0, <2>1 DEF Window, StaticPoints, FinishPoints
<1>13. CASE StaticRaises
  <2>1. /\ UNCHANGED <<manifest, disk, resume, struck>> /\ faults' = faults + 1 /\ pc'["llm"] = pc["llm"]
        /\ failure' \in {failure, "static"} /\ (failure' # failure => failure = "none")
        /\ At("main") \in StaticPoints /\ At("main")' \in {"join", "raised"}
    BY <1>0, <1>13 DEF StaticRaises, AtCheckpoint, Raise, InStatic, Failed, Going, StaticPoints
  <2> QED
    BY <1>0, <2>1 DEF Located, Window, StaticPoints, FinishPoints
<1>8. ASSUME NEW t \in Threads, Write(t) PROVE HalfOfTheScan'
  BY <1>0, <1>8 DEF Write, Going
<1>9. ASSUME NEW t \in Threads, Replace(t) PROVE HalfOfTheScan'
  BY <1>9, ReplaceWrites DEF Replace
<1>10. ASSUME NEW t \in Threads, SaveFails(t) PROVE HalfOfTheScan'
  <2>1. ~BrokenOff => faults' = faults + 1
    BY <1>10 DEF SaveFails, Serialised, None, Manifests
  <2>2. CASE t = "llm"
    BY <1>0, <1>10, <2>1, <2>2 DEF SaveFails, Saved, Raise, Failed, Going, Located
  <2>3. CASE t = "main"
    BY <1>0, <1>10, <2>1, <2>3, OneSaves DEF SaveFails, Saved, Raise, Failed, InStatic, Going, Located, Window, StaticPoints, FinishPoints
  <2> QED
    BY <2>2, <2>3
<1>11. CASE Signal
  BY <1>0, <1>11 DEF Signal, SignalStatic, SignalJoin, SignalOutside, InStatic, Failed, Saved, Going, Located, Window, StaticPoints, FinishPoints, ErrorForgotten, Ended, Ends
<1> QED
  BY <1>1, <1>2, <1>3, <1>4, <1>5, <1>6, <1>7, <1>8, <1>9, <1>10, <1>11, <1>12, <1>13
     DEF Next, MainNext, LlmNext, Static, Stages, Saving


(* The static side alone changes its half, up to the finish.               *)
LEMMA HalfOfTheToolsKept ==
    ASSUME TypeOK, Located, Locked, Serialised, HalfOfTheTools, [Next]_vars PROVE HalfOfTheTools'
<1> USE DEF HalfOfTheTools, At, Saves, BrokenOff, Threads
<1>0. /\ pc \in [Threads -> Points \cup {"write", "replace"}] /\ resume \in [Threads -> Points \cup {"none"}]
      /\ manifest \in Manifests /\ faults \in Nat /\ tool \in Tools
      /\ failure \in {"none", "static", "llm", "signal"}
  BY PipelineAssumption DEF TypeOK
<1>1. CASE SetUp \/ CancelledEarly
  BY <1>0, <1>1 DEF SetUp, CancelledEarly, Publish, Going, static, Located
<1>2. CASE Start
  BY <1>0, <1>2 DEF Start, Located, Window, StaticPoints, FinishPoints, SetUpPoints
<1>3. CASE NotRun \/ StartTool \/ EndTool \/ EndRerun \/ Record
  BY <1>0, <1>3 DEF NotRun, StartTool, EndTool, EndRerun, Record, Publish, Going
<1>4. CASE Interrupt
  <2>1. manifest'.tools = [manifest.tools EXCEPT ![tool] = "interrupted"] /\ manifest.tools \in [Tools -> ToolStatuses]
    BY <1>0, <1>4, WithToolElse DEF Interrupt, Manifests
  <2>2. interrupted' /\ UNCHANGED <<disk, failure, faults, struck>> /\ pc["main"] = "tool"
    BY <1>4 DEF Interrupt, AtCheckpoint
  <2> QED
    BY <1>0, <2>1, <2>2 DEF Window, StaticPoints
<1>5. CASE Propose \/ PassOver \/ LeaveLoop \/ RerunFails \/ WrapUp \/ Decide
  BY <1>0, <1>5 DEF Propose, PassOver, LeaveLoop, RerunFails, WrapUp, Decide, AtRound, Caught, Going, static, Window, StaticPoints
<1>13. CASE StaticRaises
  <2>1. /\ UNCHANGED <<manifest, disk, resume, struck, interrupted>> /\ faults' = faults + 1
        /\ failure' \in {failure, "static"} /\ (failure' # failure => failure = "none")
        /\ At("main") \in StaticPoints /\ At("main")' \in {"join", "raised"}
    BY <1>0, <1>13 DEF StaticRaises, AtCheckpoint, Raise, InStatic, Failed, Going, StaticPoints
  <2>2. ~Saves("main")
    BY <1>13 DEF StaticRaises, AtCheckpoint
  <2> QED
    BY <1>0, <2>1, <2>2 DEF Window, StaticPoints
<1>6. CASE BeginScan \/ EndScan
  <2>1. manifest'.tools = manifest.tools
    <3>1. PICK status : manifest' = [manifest EXCEPT !.llm = status]
      BY <1>6 DEF BeginScan, EndScan, Publish
    <3> QED
      BY <3>1, <1>0 DEF Manifests
  <2> QED
    BY <1>0, <1>6, <2>1 DEF BeginScan, EndScan, Publish, Going, static
<1>7. CASE Join \/ StageStopped \/ PublishLatest \/ FinishPublishes \/ Cancel \/ TogglePause \/ UNCHANGED vars
  BY <1>0, <1>7 DEF Join, StageStopped, PublishLatest, FinishPublishes, Cancel, TogglePause, vars, Main, Going, static,
                    Window, StaticPoints
<1>8. CASE Verify \/ Review \/ Gate \/ Export \/ Report \/ PublishFails \/ Finish \/ FinishAgain
  <2>1. /\ At("main") \in StagePoints \cup FinishPoints
        /\ At("main")' \notin Window \cup {"start", "stability"}
    BY <1>0, <1>8 DEF Verify, Review, Gate, Export, Report, PublishFails, Finish, FinishAgain, Decided, Publish, Going,
                      Window, StaticPoints, StagePoints, FinishPoints
  <2>2. UNCHANGED <<failure, faults, struck>>
    BY <1>8 DEF Verify, Review, Gate, Export, Report, PublishFails, Finish, FinishAgain, rest, static
  <2>3. failure \in {"none", "signal", "static"} \/ struck # "none"
    BY <2>1 DEF Located, ErrorForgotten, TypeOK, StagePoints, FinishPoints, Ends, Window, StaticPoints
  <2> QED
    BY <1>0, <2>1, <2>2, <2>3
<1>9. ASSUME NEW t \in Threads, Write(t) PROVE HalfOfTheTools'
  BY <1>0, <1>9 DEF Write, Going
<1>10. ASSUME NEW t \in Threads, Replace(t) PROVE HalfOfTheTools'
  BY <1>10, ReplaceWrites DEF Replace
<1>11. ASSUME NEW t \in Threads, SaveFails(t) PROVE HalfOfTheTools'
  <2>1. ~BrokenOff => faults' = faults + 1
    BY <1>11 DEF SaveFails, Serialised, None, Manifests
  <2>2. CASE t = "llm"
    BY <1>0, <1>11, <2>1, <2>2, OneSaves DEF SaveFails, Saved, Raise, Failed, Going, Located
  <2>3. CASE t = "main"
    BY <1>0, <1>11, <2>1, <2>3 DEF SaveFails, Saved, Raise, Failed, InStatic, Going, Located, Window, StaticPoints
  <2> QED
    BY <2>2, <2>3
<1>12. CASE Signal
  BY <1>0, <1>12 DEF Signal, SignalStatic, SignalJoin, SignalOutside, InStatic, Failed, Saved, Going, Located, Window, StaticPoints
<1> QED
  BY <1>1, <1>2, <1>3, <1>4, <1>5, <1>6, <1>7, <1>8, <1>9, <1>10, <1>11, <1>12, <1>13
     DEF Next, MainNext, LlmNext, Static, Stages, Saving

-----------------------------------------------------------------------------
(* Where the copies of the manifest come from.                             *)
LEMMA CopiesFlow ==
    ASSUME TypeOK, [Next]_vars
    PROVE  /\ disk' \in {disk, tmp}
           /\ tmp' \in {tmp, None, snap["main"], snap["llm"]}
           /\ \A t \in Threads : snap'[t] \in {snap[t], None} \/ (snap'[t] = manifest' /\ Saves(t)')
<1> USE DEF Threads
<1>0. pc \in [Threads -> Points \cup {"write", "replace"}] /\ snap \in [Threads -> Manifests \cup {None}]
  BY DEF TypeOK
<1>1. ASSUME NEW t \in Threads, NEW m, NEW place, Publish(t, m, place)
      PROVE  /\ disk' = disk /\ tmp' = tmp
             /\ \A u \in Threads : snap'[u] \in {snap[u], None} \/ (snap'[u] = manifest' /\ Saves(u)')
  BY <1>0, <1>1 DEF Publish, Going, Saves
<1>2. CASE SetUp \/ NotRun \/ StartTool \/ EndTool \/ EndRerun \/ Record
  BY <1>1, <1>2 DEF SetUp, NotRun, StartTool, EndTool, EndRerun, Record
<1>3. CASE BeginScan \/ EndScan
  BY <1>1, <1>3 DEF BeginScan, EndScan
<1>4. CASE Gate \/ Report \/ PublishFails \/ Finish \/ FinishAgain
  BY <1>1, <1>4 DEF Gate, Report, PublishFails, Finish, FinishAgain
<1>5. CASE CancelledEarly \/ Start \/ Interrupt \/ Propose \/ PassOver \/ LeaveLoop \/ RerunFails \/ StaticRaises \/ WrapUp \/ Decide
  BY <1>5 DEF CancelledEarly, Start, Interrupt, Propose, PassOver, LeaveLoop, RerunFails, StaticRaises, WrapUp, Decide
<1>6. CASE Join \/ Verify \/ Review \/ Export \/ StageStopped \/ PublishLatest \/ FinishPublishes
  BY <1>6 DEF Join, Verify, Review, Export, StageStopped, PublishLatest, FinishPublishes, rest
<1>7. CASE Cancel \/ TogglePause \/ UNCHANGED vars
  BY <1>7 DEF Cancel, TogglePause, vars
<1>8. ASSUME NEW t \in Threads, Write(t) \/ Replace(t) \/ SaveFails(t)
      PROVE  /\ disk' \in {disk, tmp} /\ tmp' \in {tmp, None, snap["main"], snap["llm"]}
             /\ \A u \in Threads : snap'[u] \in {snap[u], None}
  BY <1>0, <1>8 DEF Write, Replace, SaveFails, Saved
<1>9. CASE Signal
  BY <1>0, <1>9 DEF Signal, SignalStatic, SignalJoin, SignalOutside, Saved
<1> QED
  BY <1>2, <1>3, <1>4, <1>5, <1>6, <1>7, <1>8, <1>9 DEF Next, MainNext, LlmNext, Static, Stages, Saving

(* Before the verdict, steps change nothing of the manifest but the tools' *)
(* statuses and the scan's.                                                *)
SameVerdict(m) ==
    /\ m.status = manifest.status /\ m.exit = manifest.exit /\ m.gate = manifest.gate
    /\ m.review = manifest.review /\ m.export = manifest.export

LEMMA WindowSteps ==
    ASSUME TypeOK, Located, [Next]_vars,
           ~Verify, ~Review, ~Gate, ~Export, ~PublishFails, ~Finish
    PROVE  /\ SameVerdict(manifest') /\ held' = held
           /\ manifest' = manifest \/ BrokenOff \/ At("main") \in Window
<1>0. manifest \in Manifests /\ tool \in Tools
  BY DEF TypeOK
<1>1. CASE NotRun \/ Interrupt \/ StartTool \/ EndTool \/ EndRerun
  <2>1. PICK status : manifest' = WithTool(tool, status)
    BY <1>1 DEF NotRun, Interrupt, StartTool, EndTool, EndRerun, Publish
  <2>2. SameVerdict(WithTool(tool, status))
    BY <1>0, WithToolElse DEF SameVerdict
  <2>3. held' = held /\ At("main") \in Window
    BY <1>1 DEF NotRun, Interrupt, StartTool, EndTool, EndRerun, AtCheckpoint, static, At, Saves, Window, StaticPoints
  <2> QED
    BY <2>1, <2>2, <2>3
<1>2. CASE BeginScan \/ EndScan
  <2>1. PICK status : manifest' = [manifest EXCEPT !.llm = status]
    BY <1>2 DEF BeginScan, EndScan, Publish
  <2>2. held' = held /\ (BrokenOff \/ At("main") \in Window)
    BY <1>2 DEF BeginScan, EndScan, static, Located
  <2> QED
    BY <2>1, <2>2, <1>0 DEF Manifests, SameVerdict
<1>3. CASE UNCHANGED <<manifest, held>>
  BY <1>3 DEF SameVerdict
<1>4. (NotRun \/ Interrupt \/ StartTool \/ EndTool \/ EndRerun) \/ (BeginScan \/ EndScan) \/ UNCHANGED <<manifest, held>>
  <2>1. ASSUME Static
        PROVE  (NotRun \/ Interrupt \/ StartTool \/ EndTool \/ EndRerun) \/ UNCHANGED <<manifest, held>>
    BY <2>1 DEF Static, SetUp, CancelledEarly, Start, Propose, PassOver, LeaveLoop, RerunFails, StaticRaises,
              Record, WrapUp, Publish, static
  <2>2. ASSUME Stages PROVE UNCHANGED <<manifest, held>>
    BY <2>2 DEF Stages, Join, Report, StageStopped, PublishLatest, FinishAgain, FinishPublishes, Publish, static
  <2>3. ASSUME NEW t \in Threads, Saving(t) PROVE UNCHANGED <<manifest, held>>
    BY <2>3 DEF Saving, Write, Replace, SaveFails
  <2>4. ASSUME Decide \/ Cancel \/ TogglePause \/ Signal \/ UNCHANGED vars PROVE UNCHANGED <<manifest, held>>
    BY <2>4 DEF Decide, Cancel, TogglePause, Signal, vars
  <2> QED
    BY <2>1, <2>2, <2>3, <2>4 DEF Next, MainNext, LlmNext, Threads
<1> QED
  BY <1>1, <1>2, <1>3, <1>4

(* Nothing comes back before the verdict, nor is a run that was broken off *)
(* mended.                                                                 *)
LEMMA NoWayBack ==
    ASSUME TypeOK, Located, [Next]_vars, BrokenOff' \/ At("main")' \in BeforeVerdict
    PROVE  /\ BrokenOff \/ At("main") \in BeforeVerdict
           /\ ~Verify /\ ~Review /\ ~Gate /\ ~Export /\ ~PublishFails /\ (Finish => BrokenOff)
<1> USE DEF At, Saves, BrokenOff, Threads, BeforeVerdict, SetUpPoints, Window, StaticPoints
<1> DEFINE Before == BrokenOff \/ At("main") \in BeforeVerdict
<1>0. pc \in [Threads -> Points \cup {"write", "replace"}] /\ resume \in [Threads -> Points \cup {"none"}]
  BY DEF TypeOK
<1>1. ASSUME SetUp \/ CancelledEarly \/ Start PROVE Before
  BY <1>0, <1>1 DEF SetUp, CancelledEarly, Start
<1>2. ASSUME NotRun \/ Interrupt \/ StartTool \/ EndTool PROVE Before
  BY <1>0, <1>2 DEF NotRun, Interrupt, StartTool, EndTool, AtCheckpoint
<1>3. ASSUME Propose \/ PassOver \/ LeaveLoop \/ EndRerun \/ RerunFails \/ Record \/ WrapUp \/ Decide PROVE Before
  BY <1>0, <1>3 DEF Propose, PassOver, LeaveLoop, EndRerun, RerunFails, Record, WrapUp, Decide, AtRound
<1>4. ASSUME BeginScan \/ EndScan PROVE Before
  BY <1>0, <1>4 DEF BeginScan, EndScan, Publish, Going, static
<1>5. ASSUME Join PROVE Before
  BY <1>0, <1>5 DEF Join, Main
<1>6. /\ ~Verify /\ ~Review /\ ~Gate /\ ~Export /\ ~PublishFails
      /\ Finish => BrokenOff
  <2>1. ~(Verify \/ Review \/ Export)
    BY <1>0 DEF Verify, Review, Export, Decided, rest, Going, Located, FinishPoints
  <2>2. ~(Gate \/ PublishFails)
    BY <1>0 DEF Gate, PublishFails, Publish, Going, static, Located, FinishPoints
  <2>3. Finish => BrokenOff
    BY <1>0 DEF Finish, Publish, Going, static
  <2> QED
    BY <2>1, <2>2, <2>3
<1>7. ASSUME Report \/ StageStopped \/ PublishLatest \/ FinishAgain \/ FinishPublishes PROVE Before
  BY <1>0, <1>7 DEF Report, StageStopped, PublishLatest, FinishAgain, FinishPublishes, Main, Publish, Going, static
<1>14. ASSUME StaticRaises PROVE Before
  BY <1>0, <1>14 DEF StaticRaises, AtCheckpoint
<1>8. ASSUME NEW t \in Threads, Write(t) PROVE Before
  BY <1>0, <1>8 DEF Write, Going
<1>9. ASSUME NEW t \in Threads, Replace(t) PROVE Before
  BY <1>0, <1>9 DEF Replace, Going, Saved
<1>10. ASSUME NEW t \in Threads, SaveFails(t) PROVE Before
  BY <1>0, <1>10 DEF SaveFails, Going, Saved, Raise, InStatic
<1>11. ASSUME Cancel \/ TogglePause \/ UNCHANGED vars PROVE Before
  BY <1>0, <1>11 DEF Cancel, TogglePause, vars
<1>12. ASSUME Signal PROVE Before
  BY <1>0, <1>12 DEF Signal, SignalStatic, SignalJoin, SignalOutside, InStatic, Saved, Going
<1>13. Before
  BY <1>1, <1>2, <1>3, <1>4, <1>5, <1>6, <1>7, <1>8, <1>9, <1>10, <1>11, <1>12, <1>14
     DEF Next, MainNext, LlmNext, Static, Stages, Saving
<1> QED
  BY <1>6, <1>13

LEMMA StaysBroken == ASSUME [Next]_vars, BrokenOff PROVE BrokenOff'
<1> USE DEF BrokenOff
<1>1. CASE Static
  BY <1>1 DEF Static, SetUp, CancelledEarly, Start, NotRun, Interrupt, StartTool, EndTool, Propose, PassOver, LeaveLoop,
              EndRerun, RerunFails, StaticRaises, Record, WrapUp, Caught, static
<1>2. CASE Stages
  BY <1>2 DEF Stages, Join, Verify, Review, Gate, Export, Report, StageStopped, PublishLatest, PublishFails, Finish,
              FinishAgain, FinishPublishes, rest, static
<1>3. ASSUME NEW t, Saving(t) PROVE BrokenOff'
  BY <1>3 DEF Saving, Write, Replace, SaveFails
<1>4. CASE Decide \/ BeginScan \/ EndScan \/ Cancel \/ TogglePause \/ Signal \/ UNCHANGED vars
  BY <1>4 DEF Decide, BeginScan, EndScan, Cancel, TogglePause, Signal, vars, static
<1> QED
  BY <1>1, <1>2, <1>3, <1>4 DEF Next, MainNext, LlmNext

LEMMA UnjudgedKept ==
    ASSUME TypeOK, Located, Unjudged, [Next]_vars PROVE Unjudged'
<1> SUFFICES ASSUME BrokenOff' \/ At("main")' \in BeforeVerdict
             PROVE  /\ Undecided(manifest)' /\ Undecided(disk)' /\ Undecided(tmp)'
                    /\ \A t \in Threads : Undecided(snap[t])'
  BY DEF Unjudged, Threads
<1> DEFINE OK(m) == m # None => m.status \in IF BrokenOff' THEN {"running", "interrupted"} ELSE {"running"}
<1>1. /\ BrokenOff => BrokenOff'
      /\ Undecided(manifest) /\ Undecided(disk) /\ Undecided(tmp)
      /\ \A t \in Threads : Undecided(snap[t])
  BY NoWayBack, StaysBroken DEF Unjudged
<1>2. /\ OK(manifest) /\ OK(disk) /\ OK(tmp) /\ OK(None)
      /\ \A t \in Threads : OK(snap[t])
  BY <1>1 DEF Undecided
<1>3. OK(manifest')
  <2>1. CASE Finish
    <3>1. manifest'.status = "interrupted" /\ BrokenOff
      BY <2>1, NoWayBack DEF Finish, Publish
    <3> QED
      BY <1>1, <3>1
  <2>2. CASE ~Finish
    <3>1. manifest'.status = manifest.status
      BY <2>2, NoWayBack, WindowSteps DEF SameVerdict
    <3>2. manifest # None
      BY DEF TypeOK, Manifests, None
    <3> QED
      BY <1>2, <3>1, <3>2
  <2> QED
    BY <2>1, <2>2
<1>4. OK(disk') /\ OK(tmp') /\ \A t \in Threads : OK(snap'[t])
  <2> HIDE DEF OK
  <2> QED
    BY <1>2, <1>3, CopiesFlow DEF Threads
<1> QED
  BY <1>3, <1>4 DEF Undecided

(* Where the steps that judge nothing lead.                                *)
LEMMA OtherSteps ==
    ASSUME TypeOK, Located, [Next]_vars,
           ~Verify, ~Review, ~Gate, ~Export, ~PublishFails, ~Finish
    PROVE  /\ \/ At("main")' = At("main") \/ At("main")' \in {"finish", "raised", "killed", "early"}
              \/ At("main") \in BeforeVerdict /\ At("main")' \in BeforeVerdict
              \/ At("main") = "report" /\ At("main")' = "publish"
              \/ At("main") \in {"publish", "finished"} /\ At("main")' = "returned"
              \/ At("main") = "rendered" /\ At("main")' = "finished"
           /\ options' = options
<1> USE DEF At, Saves, Threads, BeforeVerdict, SetUpPoints, Window, StaticPoints
<1> DEFINE Leads ==
      /\ \/ At("main")' = At("main") \/ At("main")' \in {"finish", "raised", "killed", "early"}
         \/ At("main") \in BeforeVerdict /\ At("main")' \in BeforeVerdict
         \/ At("main") = "report" /\ At("main")' = "publish"
         \/ At("main") \in {"publish", "finished"} /\ At("main")' = "returned"
         \/ At("main") = "rendered" /\ At("main")' = "finished"
      /\ options' = options
<1>0. /\ pc \in [Threads -> Points \cup {"write", "replace"}] /\ resume \in [Threads -> Points \cup {"none"}]
  BY DEF TypeOK
<1>1. ASSUME SetUp \/ CancelledEarly \/ Start PROVE Leads
  BY <1>0, <1>1 DEF SetUp, CancelledEarly, Start, Publish, Going, static
<1>2. ASSUME NotRun \/ Interrupt \/ StartTool \/ EndTool PROVE Leads
  BY <1>0, <1>2 DEF NotRun, Interrupt, StartTool, EndTool, AtCheckpoint, Publish, Going, PointAfter
<1>3. ASSUME Propose \/ PassOver \/ LeaveLoop \/ EndRerun \/ RerunFails \/ Record \/ WrapUp \/ Decide PROVE Leads
  BY <1>0, <1>3 DEF Propose, PassOver, LeaveLoop, EndRerun, RerunFails, Record, WrapUp, Decide, AtRound, Publish, Going
<1>4. ASSUME BeginScan \/ EndScan PROVE Leads
  BY <1>0, <1>4 DEF BeginScan, EndScan, Publish, Going
<1>5. ASSUME Join \/ Report \/ StageStopped \/ PublishLatest \/ FinishAgain \/ FinishPublishes PROVE Leads
  BY <1>0, <1>5 DEF Join, Report, StageStopped, PublishLatest, FinishAgain, FinishPublishes, Main, Publish, Going
<1>11. ASSUME StaticRaises PROVE Leads
  BY <1>0, <1>11 DEF StaticRaises, AtCheckpoint, Raise, Going
<1>6. ASSUME NEW t \in Threads, Write(t) PROVE Leads
  BY <1>0, <1>6 DEF Write, Going
<1>7. ASSUME NEW t \in Threads, Replace(t) PROVE Leads
  <2>1. resume[t] \notin {"write", "replace"}
    BY <1>0 DEF Points, Ends
  <2> QED
    BY <1>0, <1>7, <2>1 DEF Replace, Going, Saved
<1>8. ASSUME NEW t \in Threads, SaveFails(t) PROVE Leads
  BY <1>0, <1>8 DEF SaveFails, Going, Saved, Raise, InStatic
<1>9. ASSUME Cancel \/ TogglePause \/ UNCHANGED vars PROVE Leads
  BY <1>0, <1>9 DEF Cancel, TogglePause, vars
<1>10. ASSUME Signal PROVE Leads
  BY <1>0, <1>10 DEF Signal, SignalStatic, SignalJoin, SignalOutside, InStatic, Saved, Going
<1> QED
  BY <1>1, <1>2, <1>3, <1>4, <1>5, <1>6, <1>7, <1>8, <1>9, <1>10, <1>11
     DEF Next, MainNext, LlmNext, Static, Stages, Saving

(* What overall says, and what is made of it.                              *)
LEMMA VerdictIsProper ==
    ASSUME NEW stable, NEW export, NEW review
    PROVE  LET verdict == Overall(stable, export, review)
           IN /\ <<verdict.status, verdict.exit>> \in Verdicts /\ verdict.exit # 1
              /\ verdict.status = "complete" <=> verdict.exit = 0
              /\ verdict.status = "complete" =>
                   /\ \A t \in Tools : manifest.tools[t] \in {"completed", "not_applicable"}
                   /\ stable /\ export \in {"completed", "disabled"} /\ review \in {"completed", "disabled"}
  BY DEF Overall, Verdicts

LEMMA JudgedFields ==
    ASSUME NEW m \in Manifests, NEW verdict
    PROVE  /\ Judged(m, verdict).status = verdict.status /\ Judged(m, verdict).exit = verdict.exit
           /\ Judged(m, verdict).gate = m.gate /\ Judged(m, verdict).tools = m.tools
           /\ Judged(m, verdict).llm = m.llm /\ Judged(m, verdict).review = m.review
           /\ Judged(m, verdict).export = m.export
  BY DEF Judged, Manifests

LEMMA LoweredFields ==
    ASSUME NEW m \in Manifests, Proper(m)
    PROVE  /\ Lowered(m).gate = m.gate /\ Lowered(m).tools = m.tools /\ Lowered(m).llm = m.llm
           /\ Lowered(m).review = m.review /\ Lowered(m).export = m.export
           /\ <<Lowered(m).status, Lowered(m).exit>> \in Verdicts
           /\ Lowered(m).status # "complete" /\ Lowered(m).exit \notin {0, 1}
  BY DEF Lowered, Manifests, Proper, Verdicts

LEMMA JudgementKept ==
    ASSUME TypeOK, Located, Located', Unjudged, Judgement, Account, [Next]_vars PROVE Judgement'
<1> USE DEF Judgement, At, Saves, Threads
<1>0. /\ manifest \in Manifests /\ options \in Options /\ Proper(manifest)
      /\ pc \in [Threads -> Points \cup {"write", "replace"}] /\ resume \in [Threads -> Points \cup {"none"}]
      /\ failure \in {"none", "static", "llm", "signal"}
  BY DEF TypeOK
<1>1. CASE ~Verify /\ ~Review /\ ~Gate /\ ~Export /\ ~PublishFails /\ ~Finish
  <2>1. SameVerdict(manifest') /\ held' = held /\ options' = options
    BY <1>1, WindowSteps, OtherSteps
  <2>2. Proper(manifest')
    BY <2>1 DEF Proper, SameVerdict
  <2>3. CASE manifest' = manifest
    <3>1. Complete(manifest)' <=> Complete(manifest)
      BY <2>1, <2>3 DEF Complete, Whole
    <3>2. Sound(manifest)' <=> Sound(manifest)
      BY <2>3, <3>1 DEF Sound, Proper
    <3> QED
      BY <1>0, <1>1, <2>1, <2>2, <2>3, <3>1, <3>2, OtherSteps DEF BeforeVerdict, Window, StaticPoints, SetUpPoints
  <2>4. CASE BrokenOff \/ At("main") \in Window
    <3>1. manifest.status # "complete"
      BY <2>4, <1>0 DEF Unjudged, Undecided, BeforeVerdict, Manifests, None
    <3>2. manifest'.status # "complete"
      BY <2>1, <3>1 DEF SameVerdict
    <3> QED
      BY <1>0, <1>1, <2>1, <2>2, <3>2, OtherSteps
         DEF SameVerdict, Sound, Proper, BeforeVerdict, Window, StaticPoints, SetUpPoints
  <2> QED
    BY <1>1, <2>3, <2>4, WindowSteps
<1>2. CASE Verify
  <2>1. At("main") = "stability" /\ At("main")' \in {"review", "gate"} /\ options' = options
        /\ (At("main")' = "gate" => ~options.review)
    BY <1>0, <1>2 DEF Verify, Decided, rest, Going, At, Saves
  <2>2. manifest.llm # "running"
    BY <1>0, <2>1 DEF Located, ErrorForgotten, Account, FinishPoints, Window, StaticPoints, BrokenOff, Ends
  <2>3. manifest.gate = FALSE /\ manifest.review = (IF options.review THEN "pending" ELSE "disabled")
        /\ (~options.export => manifest.export = "disabled")
    BY <1>0, <2>1 DEF Unjudged, Undecided, BeforeVerdict, Proper, Verdicts, Located, BrokenOff, FinishPoints, None, Manifests
  <2>4. PICK verdict :
          /\ verdict = Overall(held', IF options.export THEN "completed" ELSE "disabled", "disabled")
          /\ manifest' = Judged(manifest, verdict)
    BY <1>2 DEF Verify, Decided
  <2>5. /\ <<verdict.status, verdict.exit>> \in Verdicts /\ verdict.exit # 1
        /\ verdict.status = "complete" =>
             held' /\ \A t \in Tools : manifest.tools[t] \in {"completed", "not_applicable"}
    BY <2>4, VerdictIsProper
  <2>6. /\ manifest'.status = verdict.status /\ manifest'.exit = verdict.exit
        /\ manifest'.gate = FALSE /\ manifest'.tools = manifest.tools /\ manifest'.llm = manifest.llm
        /\ manifest'.review = manifest.review /\ manifest'.export = manifest.export
    BY <1>0, <2>3, <2>4, JudgedFields
  <2>7. Proper(manifest)' /\ (manifest'.status = "complete" => Complete(manifest)')
    BY <2>2, <2>5, <2>6 DEF Proper, Complete, Whole
  <2> QED
    BY <2>1, <2>3, <2>5, <2>6, <2>7 DEF Sound, BeforeVerdict, SetUpPoints, Window, StaticPoints
<1>3. CASE Review
  <2>1. At("main") = "review" /\ At("main")' = "gate" /\ UNCHANGED <<options, held>> /\ manifest.exit # 1
    BY <1>0, <1>3 DEF Review, Decided, rest, Going
  <2>2. /\ manifest.gate = FALSE /\ (~options.export => manifest.export = "disabled")
    BY <1>0, <2>1 DEF Proper, Manifests
  <2>3. /\ manifest'.tools = manifest.tools /\ manifest'.llm = manifest.llm /\ manifest'.export = manifest.export
        /\ manifest'.gate = FALSE /\ <<manifest'.status, manifest'.exit>> \in Verdicts /\ manifest'.exit # 1
        /\ manifest'.status = "complete" => manifest'.review = "completed" /\ manifest.status = "complete"
    <3>1. CASE manifest' = [manifest EXCEPT !.review = "completed"]
      BY <1>0, <2>1, <2>2, <3>1 DEF Proper, Manifests
    <3>2. CASE manifest' = [Lowered(manifest) EXCEPT !.review = "partial", !.gate = FALSE]
      BY <1>0, <2>1, <2>2, <3>2, LoweredFields, VerdictTyped DEF Manifests
    <3>3. CASE manifest' = [Lowered(manifest) EXCEPT !.review = "failed"]
      BY <1>0, <2>1, <2>2, <3>3, LoweredFields, VerdictTyped DEF Manifests
    <3> QED
      BY <1>3, <3>1, <3>2, <3>3 DEF Review, Decided
  <2>4. Proper(manifest)' /\ (manifest'.status = "complete" => Complete(manifest)')
    BY <2>1, <2>3 DEF Proper, Complete, Whole
  <2> QED
    BY <2>1, <2>2, <2>3, <2>4 DEF Sound, BeforeVerdict, SetUpPoints, Window, StaticPoints
<1>4. CASE Gate
  <2>1. /\ At("main") = "gate" /\ At("main")' = IF options.export THEN "export" ELSE "report"
        /\ UNCHANGED <<options, held>> /\ manifest.exit # 1
    BY <1>0, <1>4 DEF Gate, Publish, Going, static
  <2>2. /\ manifest.gate = FALSE /\ (~options.export => manifest.export = "disabled") /\ Sound(manifest)
    BY <1>0, <2>1 DEF Proper, Manifests
  <2>3. /\ manifest'.tools = manifest.tools /\ manifest'.llm = manifest.llm /\ manifest'.export = manifest.export
        /\ manifest'.status = manifest.status /\ manifest'.review = manifest.review
        /\ \/ manifest' = manifest
           \/ manifest.exit = 0 /\ manifest'.exit = 1 /\ manifest'.gate = TRUE
    <3>1. CASE manifest' = manifest
      BY <3>1
    <3>2. CASE manifest.exit = 0 /\ manifest' = [manifest EXCEPT !.gate = TRUE, !.exit = 1]
      BY <1>0, <3>2 DEF Manifests
    <3> QED
      BY <1>4, <3>1, <3>2 DEF Gate, Publish
  <2>4. Proper(manifest)' /\ (manifest'.status = "complete" => Complete(manifest)')
    BY <1>0, <2>1, <2>3 DEF Proper, Complete, Whole, Verdicts, Manifests
  <2>5. Sound(manifest)'
    <3>1. manifest # None
      BY <1>0 DEF Manifests, None
    <3> QED
      BY <2>2, <2>3, <2>4, <3>1 DEF Sound
  <2> QED
    BY <1>0, <2>1, <2>2, <2>3, <2>4, <2>5 DEF BeforeVerdict, SetUpPoints, Window, StaticPoints
<1>5. CASE Export
  <2>1. At("main") = "export" /\ At("main")' = "report" /\ UNCHANGED <<options, held>> /\ Sound(manifest)
    BY <1>0, <1>5 DEF Export, Decided, rest, Going
  <2>2. manifest.llm # "running"
    BY <1>0, <2>1 DEF Located, ErrorForgotten, Account, FinishPoints, Window, StaticPoints, BrokenOff, Ends
  <2> DEFINE Verdict(verdict, export) ==
               /\ <<verdict.status, verdict.exit>> \in Verdicts /\ verdict.exit # 1
               /\ verdict.status = "complete" <=> verdict.exit = 0
               /\ verdict.status = "complete" =>
                    /\ \A t \in Tools : manifest.tools[t] \in {"completed", "not_applicable"}
                    /\ held /\ export \in {"completed", "disabled"} /\ manifest.review \in {"completed", "disabled"}
  <2>3. PICK verdict, export :
          /\ Verdict(verdict, export)
          /\ manifest'.status = verdict.status
          /\ manifest'.tools = manifest.tools /\ manifest'.llm = manifest.llm /\ manifest'.review = manifest.review
          /\ manifest'.export = export /\ manifest'.gate \in BOOLEAN
          /\ manifest'.exit = IF manifest'.gate THEN 1 ELSE verdict.exit
          /\ manifest'.gate => verdict.status = "complete"
    <3>1. ASSUME NEW export \in {"completed", "failed"}
          PROVE  /\ [manifest EXCEPT !.export = export] \in Manifests
                 /\ [manifest EXCEPT !.export = export].tools = manifest.tools
                 /\ [manifest EXCEPT !.export = export].llm = manifest.llm
                 /\ [manifest EXCEPT !.export = export].review = manifest.review
                 /\ [manifest EXCEPT !.export = export].export = export
                 /\ [manifest EXCEPT !.export = export].gate = manifest.gate
      BY <1>0 DEF Manifests
    <3>2. CASE manifest' = ExportSucceeds
      <4> DEFINE exported == [manifest EXCEPT !.export = "completed"]
                 verdict == Overall(held, "completed", manifest.review)
                 m == Judged(exported, verdict)
      <4>1. Verdict(verdict, "completed")
        BY VerdictIsProper
      <4>2. /\ m \in Manifests /\ m.status = verdict.status /\ m.exit = verdict.exit /\ m.gate = manifest.gate
            /\ m.tools = manifest.tools /\ m.llm = manifest.llm /\ m.review = manifest.review /\ m.export = "completed"
        <5>1. exported \in Manifests /\ exported.gate = manifest.gate /\ exported.tools = manifest.tools
              /\ exported.llm = manifest.llm /\ exported.review = manifest.review /\ exported.export = "completed"
          BY <3>1
        <5> HIDE DEF exported
        <5>2. m \in Manifests
          BY <5>1, VerdictTyped
        <5> QED
          BY <5>1, <5>2, JudgedFields
      <4>3. manifest' = [m EXCEPT !.gate = @ /\ verdict.status = "complete",
                                  !.exit = IF m.gate /\ verdict.status = "complete" THEN 1 ELSE @]
        BY <3>2 DEF ExportSucceeds
      <4> HIDE DEF verdict, m
      <4>4. /\ manifest'.status = verdict.status
            /\ manifest'.gate = (manifest.gate /\ verdict.status = "complete")
            /\ manifest'.exit = IF manifest.gate /\ verdict.status = "complete" THEN 1 ELSE verdict.exit
            /\ manifest'.tools = manifest.tools /\ manifest'.llm = manifest.llm
            /\ manifest'.review = manifest.review /\ manifest'.export = "completed"
        BY <4>2, <4>3 DEF Manifests
      <4>5. manifest'.gate = (manifest.gate /\ verdict.status = "complete") /\ manifest.gate \in BOOLEAN
        BY <1>0, <4>4 DEF Manifests
      <4>6. manifest'.gate \in BOOLEAN /\ (manifest'.gate <=> manifest.gate /\ verdict.status = "complete")
        BY <4>5
      <4> QED
        BY <4>1, <4>4, <4>6
    <3>3. CASE manifest' = ExportFails
      <4> DEFINE exported == [manifest EXCEPT !.export = "failed"]
                 verdict == Overall(held, "failed", manifest.review)
                 m == Judged(exported, verdict)
      <4>1. Verdict(verdict, "failed")
        BY VerdictIsProper
      <4>2. /\ m \in Manifests /\ m.status = verdict.status /\ m.exit = verdict.exit /\ m.gate = manifest.gate
            /\ m.tools = manifest.tools /\ m.llm = manifest.llm /\ m.review = manifest.review /\ m.export = "failed"
        <5>1. exported \in Manifests /\ exported.gate = manifest.gate /\ exported.tools = manifest.tools
              /\ exported.llm = manifest.llm /\ exported.review = manifest.review /\ exported.export = "failed"
          BY <3>1
        <5> HIDE DEF exported
        <5>2. m \in Manifests
          BY <5>1, VerdictTyped
        <5> QED
          BY <5>1, <5>2, JudgedFields
      <4>3. manifest' = [m EXCEPT !.gate = FALSE]
        BY <3>3 DEF ExportFails
      <4> HIDE DEF verdict, m
      <4>4. /\ manifest'.status = verdict.status /\ manifest'.exit = verdict.exit /\ manifest'.gate = FALSE
            /\ manifest'.tools = manifest.tools /\ manifest'.llm = manifest.llm
            /\ manifest'.review = manifest.review /\ manifest'.export = "failed"
        BY <4>2, <4>3 DEF Manifests
      <4> QED
        BY <4>1, <4>4
    <3> QED
      BY <1>5, <3>2, <3>3 DEF Export, Decided
  <2>4. Proper(manifest)' /\ (manifest'.status = "complete" => Complete(manifest)')
    BY <2>1, <2>2, <2>3 DEF Proper, Complete, Whole, Verdicts
  <2> QED
    BY <2>1, <2>3, <2>4 DEF Sound, BeforeVerdict, SetUpPoints, Window, StaticPoints
<1>6. CASE PublishFails
  <2>1. At("main") = "publish" /\ At("main")' = "returned" /\ UNCHANGED <<options, held>> /\ Sound(manifest)
    BY <1>0, <1>6 DEF PublishFails, Publish, Going, static
  <2>2. CASE manifest.exit \in {0, 1}
    <3>1. manifest' = [Lowered(manifest) EXCEPT !.gate = FALSE] /\ Lowered(manifest) \in Manifests
      BY <1>0, <1>6, <2>2, VerdictTyped DEF PublishFails, Publish, Unpublished
    <3>2. /\ manifest'.gate = FALSE /\ <<manifest'.status, manifest'.exit>> \in Verdicts
          /\ manifest'.status # "complete" /\ manifest'.exit \notin {0, 1}
      BY <1>0, <3>1, LoweredFields DEF Manifests
    <3> QED
      BY <2>1, <3>2 DEF Proper, Sound, BeforeVerdict, SetUpPoints, Window, StaticPoints
  <2>3. CASE manifest.exit \notin {0, 1}
    <3>1. manifest' = manifest /\ manifest.status # "complete"
      BY <1>0, <1>6, <2>3 DEF PublishFails, Publish, Unpublished, Proper, Verdicts
    <3> QED
      BY <1>0, <2>1, <3>1 DEF Proper, Sound, BeforeVerdict, SetUpPoints, Window, StaticPoints
  <2> QED
    BY <2>2, <2>3
<1>7. CASE Finish
  <2>1. At("main")' = "rendered" /\ options' = options
    BY <1>0, <1>7 DEF Finish, Publish, Going
  <2>2. manifest'.gate = FALSE /\ manifest'.status = "interrupted" /\ manifest'.exit = 130
    BY <1>7 DEF Finish, Publish
  <2> QED
    BY <2>1, <2>2 DEF Proper, Sound, Verdicts, BeforeVerdict, SetUpPoints, Window, StaticPoints
<1> QED
  BY <1>1, <1>2, <1>3, <1>4, <1>5, <1>6, <1>7

LEMMA CopiesKept ==
    ASSUME TypeOK, TypeOK', Located, Located', Unjudged, Unjudged', Copies, Judgement', [Next]_vars
    PROVE  Copies'
<1>1. held' = held \/ Verify
  BY WindowSteps DEF Review, Gate, Export, PublishFails, Finish, static
<1> DEFINE OK(m) ==
      m # None => Proper(m) /\ (m.status = "complete" => Whole(m) /\ held' /\ m.review \in {"completed", "disabled"})
<1>2. OK(disk) /\ OK(tmp) /\ OK(None) /\ \A t \in Threads : OK(snap[t])
  <2>1. CASE held' = held
    BY <2>1 DEF Copies, Sound, Complete
  <2>2. CASE Verify
    <3>1. At("main") \in BeforeVerdict /\ ~BrokenOff
      BY <2>2 DEF Verify, At, Saves, BeforeVerdict, Located, FinishPoints
    <3> QED
      BY <3>1 DEF Unjudged, Undecided, Copies, Sound
  <2> QED
    BY <1>1, <2>1, <2>2
<1>3. ASSUME NEW t \in Threads, Saves(t)' PROVE OK(manifest')
  <2>1. CASE BrokenOff' \/ At("main")' \in BeforeVerdict
    BY <2>1 DEF Unjudged, Undecided, Judgement
  <2>2. CASE ~BrokenOff' /\ At("main")' \notin BeforeVerdict
    <3>1. Saves("main")'
      BY <1>3, <2>2 DEF Located, Saves, Threads, BeforeVerdict
    <3>2. At("main")' \in {"gate", "export", "report", "publish", "rendered", "finished", "returned"}
      BY <2>2, <3>1 DEF Located, BeforeVerdict, SetUpPoints, Window, StaticPoints
    <3> QED
      BY <3>2 DEF Judgement, Sound, Complete, Whole
  <2> QED
    BY <2>1, <2>2
<1>4. OK(disk') /\ OK(tmp') /\ \A t \in Threads : OK(snap'[t])
  <2> HIDE DEF OK
  <2> QED
    BY <1>2, <1>3, CopiesFlow DEF Threads
<1> QED
  BY <1>4 DEF Copies, Sound, Complete, Whole

(* Judging leaves both halves of the manifest as they are.                 *)
SameHalves(m) == m.tools = manifest.tools /\ m.llm = manifest.llm

LEMMA JudgingSteps ==
    ASSUME TypeOK, Verify \/ Review \/ Gate \/ Export \/ PublishFails
    PROVE  SameHalves(manifest')
<1>0. manifest \in Manifests
  BY DEF TypeOK
<1>1. Lowered(manifest) \in Manifests /\ SameHalves(Lowered(manifest))
  <2>1. Lowered(manifest) \in Manifests
    BY <1>0, VerdictTyped
  <2>2. SameHalves(Lowered(manifest))
    BY <1>0 DEF Lowered, SameHalves, Manifests
  <2> QED
    BY <2>1, <2>2
<1>2. CASE Verify
  BY <1>0, <1>2, JudgedFields DEF Verify, Decided, SameHalves
<1>3. CASE Review
  <2>1. ASSUME NEW m \in Manifests, SameHalves(m), NEW review, NEW gate
        PROVE  SameHalves([m EXCEPT !.review = review]) /\ SameHalves([m EXCEPT !.review = review, !.gate = gate])
    BY <2>1 DEF SameHalves, Manifests
  <2>2. SameHalves(manifest)
    BY DEF SameHalves
  <2> QED
    <3>1. SameHalves([manifest EXCEPT !.review = "completed"])
      BY <1>0, <2>1, <2>2
    <3>2. SameHalves([Lowered(manifest) EXCEPT !.review = "partial", !.gate = FALSE])
      BY <1>1, <2>1
    <3>3. SameHalves([Lowered(manifest) EXCEPT !.review = "failed"])
      BY <1>1, <2>1
    <3> QED
      BY <1>3, <3>1, <3>2, <3>3 DEF Review, Decided
<1>4. CASE Gate
  BY <1>0, <1>4 DEF Gate, Publish, SameHalves, Manifests
<1>5. CASE Export
  <2>1. ASSUME NEW export \in {"completed", "failed"}, NEW verdict
        PROVE  SameHalves(Judged([manifest EXCEPT !.export = export], verdict))
    <3>1. [manifest EXCEPT !.export = export] \in Manifests /\ SameHalves([manifest EXCEPT !.export = export])
      BY <1>0 DEF Manifests, SameHalves
    <3> QED
      BY <3>1, JudgedFields DEF SameHalves
  <2>2. ASSUME NEW m, SameHalves(m), NEW gate, NEW code
        PROVE  SameHalves([m EXCEPT !.gate = gate]) /\ SameHalves([m EXCEPT !.gate = gate, !.exit = code])
    BY <2>2 DEF SameHalves
  <2>3. SameHalves(ExportSucceeds)
    BY <2>1, <2>2 DEF ExportSucceeds
  <2>4. SameHalves(ExportFails)
    <3>1. SameHalves(Judged([manifest EXCEPT !.export = "failed"], Overall(held, "failed", manifest.review)))
      BY <2>1
    <3> QED
      BY <3>1 DEF ExportFails, SameHalves
  <2> QED
    BY <1>5, <2>3, <2>4 DEF Export, Decided
<1>6. CASE PublishFails
  BY <1>0, <1>1, <1>6 DEF PublishFails, Publish, Unpublished, SameHalves, Manifests
<1> QED
  BY <1>2, <1>3, <1>4, <1>5, <1>6

LEMMA PassedToolsKept == ASSUME TypeOK, Located, PassedTools, [Next]_vars PROVE PassedTools'
<1> USE DEF PassedTools, At, Saves, Threads, BrokenOff
<1>0. /\ manifest \in Manifests /\ tool \in Tools /\ tool \in Int /\ NTools \in Int /\ manifest.tools \in [Tools -> ToolStatuses]
      /\ pc \in [Threads -> Points \cup {"write", "replace"}] /\ resume \in [Threads -> Points \cup {"none"}]
      /\ failure \in {"none", "static", "llm", "signal"}
  BY PipelineAssumption DEF TypeOK, Manifests, Tools
<1>1. manifest'.tools = manifest.tools => (AllBehind' <=> AllBehind) /\ (tool' = tool => (EarlierBehind' <=> EarlierBehind))
  BY DEF AllBehind, EarlierBehind, Behind
<1>2. ASSUME tool = 1 PROVE EarlierBehind
  BY <1>2 DEF EarlierBehind, Tools
<1>3. CASE SetUp \/ CancelledEarly
  <2>1. manifest' = manifest /\ tool' = tool
    BY <1>3 DEF SetUp, CancelledEarly, Publish, static
  <2> QED
    BY <1>0, <1>1, <1>3, <2>1 DEF SetUp, CancelledEarly, Publish, Going, static, SetUpPoints, StagePoints, StaticPoints
<1>4. CASE Start
  BY <1>0, <1>1, <1>2, <1>4 DEF Start, SetUpPoints, StagePoints, StaticPoints
<1>5. CASE NotRun \/ Interrupt \/ EndTool
  <2>1. PICK status \in ToolStatuses \ {"running", "not_requested"} :
          manifest' = WithTool(tool, status)
    BY <1>5 DEF NotRun, Interrupt, EndTool, Publish, ToolStatuses, Final
  <2>2. manifest'.tools = [manifest.tools EXCEPT ![tool] = status]
    <3>1. WithTool(tool, status).tools = [manifest.tools EXCEPT ![tool] = status]
      BY <1>0, WithToolElse
    <3> QED
      BY <2>1, <3>1
  <2>3. EarlierBehind /\ NextTool
    BY <1>0, <1>5 DEF NotRun, Interrupt, EndTool, AtCheckpoint
  <2>4. IF tool < NTools THEN EarlierBehind' ELSE AllBehind'
    BY <1>0, <2>2, <2>3 DEF EarlierBehind, AllBehind, Behind, NextTool, Tools
  <2>5. At("main")' \in IF tool < NTools THEN {"tool"} ELSE {"context", "wrapUp"}
    BY <1>0, <1>5 DEF NotRun, Interrupt, EndTool, Publish, Going, PointAfter
  <2> QED
    BY <2>4, <2>5 DEF SetUpPoints, StagePoints, StaticPoints
<1>6. CASE StartTool
  <2>1. manifest'.tools = [manifest.tools EXCEPT ![tool] = "running"] /\ tool' = tool /\ EarlierBehind
    <3>1. WithTool(tool, "running").tools = [manifest.tools EXCEPT ![tool] = "running"]
      BY <1>0, WithToolElse
    <3> QED
      BY <1>0, <1>6, <3>1 DEF StartTool, AtCheckpoint, Publish, static
  <2>2. EarlierBehind'
    BY <1>0, <2>1 DEF EarlierBehind, Behind, Tools
  <2> QED
    BY <1>0, <1>6, <2>2 DEF StartTool, Publish, Going, SetUpPoints, StagePoints, StaticPoints
<1>20. CASE StaticRaises
  <2>1. /\ manifest' = manifest /\ At("main") \in StaticPoints
        /\ At("main")' = "raised" \/ (At("main")' = "join" /\ failure' # "none")
    BY <1>0, <1>20 DEF StaticRaises, AtCheckpoint, Raise, Failed, Going, StaticPoints
  <2> QED
    BY <2>1 DEF SetUpPoints, StagePoints, StaticPoints
<1>7. CASE Propose \/ PassOver \/ LeaveLoop \/ RerunFails \/ Record \/ WrapUp \/ Decide
  <2>1. manifest' = manifest
    BY <1>7 DEF Propose, PassOver, LeaveLoop, RerunFails, Record, WrapUp, Decide, Publish
  <2>2. At("main") \in StaticPoints \ {"tool", "work"}
        /\ At("main")' \in (StaticPoints \ {"tool", "work"}) \cup {"join"}
    BY <1>0, <1>7 DEF Propose, PassOver, LeaveLoop, RerunFails, Record, WrapUp, Decide, AtRound, Publish, Going, StaticPoints
  <2> QED
    BY <1>1, <2>1, <2>2 DEF SetUpPoints, StagePoints, StaticPoints
<1>8. CASE EndRerun
  <2>1. PICK status \in ToolStatuses \ {"running", "not_requested"} : manifest' = WithTool(tool, status)
    BY <1>8 DEF EndRerun, Publish, ToolStatuses, Final, Rank
  <2>2. manifest'.tools = [manifest.tools EXCEPT ![tool] = status]
    <3>1. WithTool(tool, status).tools = [manifest.tools EXCEPT ![tool] = status]
      BY <1>0, WithToolElse
    <3> QED
      BY <2>1, <3>1
  <2>3. AllBehind /\ At("main")' = "context"
    BY <1>0, <1>8 DEF EndRerun, Publish, Going, StaticPoints
  <2>4. AllBehind'
    BY <1>0, <2>2, <2>3 DEF AllBehind, Behind
  <2> QED
    BY <2>3, <2>4 DEF SetUpPoints, StagePoints, StaticPoints
<1>9. CASE BeginScan \/ EndScan
  <2>1. manifest'.tools = manifest.tools
    <3>1. PICK status : manifest' = [manifest EXCEPT !.llm = status]
      BY <1>9 DEF BeginScan, EndScan, Publish
    <3> QED
      BY <3>1, <1>0 DEF Manifests
  <2>2. UNCHANGED <<tool, failure, struck>> /\ At("main")' = At("main")
    BY <1>0, <1>9 DEF BeginScan, EndScan, Publish, Going, static
  <2> QED
    BY <1>1, <2>1, <2>2
<1>10. CASE Join
  <2>1. manifest' = manifest /\ failure' = failure /\ struck' = struck
        /\ At("main") = "join" /\ At("main")' \in {"raised", "finish", "stability"}
        /\ (At("main")' = "stability" => failure = "none")
    BY <1>0, <1>10 DEF Join, Main, Going
  <2> QED
    BY <1>1, <2>1 DEF SetUpPoints, StagePoints, StaticPoints
<1>11. CASE Verify \/ Review \/ Export
  <2>1. manifest'.tools = manifest.tools
    BY <1>11, JudgingSteps DEF SameHalves
  <2>2. At("main") \in StagePoints /\ At("main")' \in StagePoints
    BY <1>0, <1>11 DEF Verify, Review, Export, Decided, Going, StagePoints
  <2> QED
    BY <1>1, <2>1, <2>2 DEF SetUpPoints, StagePoints, StaticPoints
<1>12. CASE Gate \/ Report \/ PublishFails
  <2>1. manifest'.tools = manifest.tools
    BY <1>0, <1>12, JudgingSteps DEF Report, Publish, SameHalves
  <2>2. At("main") \in StagePoints /\ At("main")' \in StagePoints \cup {"returned"}
    BY <1>0, <1>12 DEF Gate, Report, PublishFails, Publish, Going, StagePoints
  <2> QED
    BY <1>1, <2>1, <2>2 DEF SetUpPoints, StagePoints, StaticPoints
<1>13. CASE StageStopped \/ PublishLatest \/ FinishAgain \/ FinishPublishes
  <2>1. manifest' = manifest
    BY <1>13 DEF StageStopped, PublishLatest, FinishAgain, FinishPublishes, Publish
  <2> QED
    BY <1>0, <1>1, <1>13, <2>1 DEF StageStopped, PublishLatest, FinishAgain, FinishPublishes, Publish, Main, Going, SetUpPoints, StagePoints, StaticPoints
<1>14. CASE Finish
  <2>1. AllBehind'
    BY <1>0, <1>14 DEF Finish, Publish, AllBehind, Behind, Closed
  <2>2. At("main")' = "rendered"
    BY <1>0, <1>14 DEF Finish, Publish, Going
  <2> QED
    BY <2>1, <2>2 DEF SetUpPoints, StagePoints, StaticPoints
<1>15. ASSUME NEW t \in Threads, Write(t) PROVE PassedTools'
  BY <1>0, <1>1, <1>15 DEF Write, Going
<1>16. ASSUME NEW t \in Threads, Replace(t) PROVE PassedTools'
  <2>1. resume[t] \notin {"write", "replace"}
    BY <1>0 DEF Points, Ends
  <2> QED
    BY <1>0, <1>1, <1>16, <2>1 DEF Replace, Going, Saved
<1>17. ASSUME NEW t \in Threads, SaveFails(t) PROVE PassedTools'
  BY <1>0, <1>1, <1>17 DEF SaveFails, Going, Saved, Raise, Failed, InStatic, SetUpPoints, StagePoints, StaticPoints
<1>18. CASE Cancel \/ TogglePause \/ UNCHANGED vars
  BY <1>0, <1>1, <1>18 DEF Cancel, TogglePause, vars
<1>19. CASE Signal
  BY <1>0, <1>1, <1>19 DEF Signal, SignalStatic, SignalJoin, SignalOutside, Failed, InStatic, Saved, Going, SetUpPoints, StagePoints, StaticPoints
<1> QED
  BY <1>3, <1>4, <1>5, <1>6, <1>7, <1>8, <1>9, <1>10, <1>11, <1>12, <1>13, <1>14, <1>15, <1>16, <1>17, <1>18, <1>19, <1>20
     DEF Next, MainNext, LlmNext, Static, Stages, Saving

LEMMA AccountKept ==
    ASSUME TypeOK, Located, Locked, Serialised, Account, [Next]_vars PROVE Account'
<1> USE DEF Account, At, Saves, Threads, BrokenOff
<1>0. /\ manifest \in Manifests
      /\ pc \in [Threads -> Points \cup {"write", "replace"}] /\ resume \in [Threads -> Points \cup {"none"}]
      /\ failure \in {"none", "static", "llm", "signal"}
  BY DEF TypeOK
<1>1. CASE SetUp \/ CancelledEarly
  BY <1>0, <1>1 DEF SetUp, CancelledEarly, Publish, Going, static, SetUpPoints
<1>2. CASE Start
  BY <1>0, <1>2 DEF Start, Located, Window, StaticPoints, FinishPoints, SetUpPoints
<1>3. CASE NotRun \/ Interrupt \/ StartTool \/ EndTool \/ EndRerun
  <2>1. manifest'.llm = manifest.llm
    <3>1. PICK status : manifest' = WithTool(tool, status)
      BY <1>3 DEF NotRun, Interrupt, StartTool, EndTool, EndRerun, Publish
    <3>2. WithTool(tool, status).llm = manifest.llm
      BY <1>0, WithToolElse DEF TypeOK
    <3> QED
      BY <3>1, <3>2
  <2>2. /\ pc["main"] \in StaticPoints /\ pc'["main"] \in StaticPoints \cup {"write"}
        /\ At("main")' \in StaticPoints /\ pc'["llm"] = pc["llm"] /\ resume'["llm"] = resume["llm"]
        /\ UNCHANGED <<options, failure, latest>>
    BY <1>0, <1>3 DEF NotRun, Interrupt, StartTool, EndTool, EndRerun, AtCheckpoint, Publish, Going, PointAfter, static, StaticPoints
  <2>3. BrokenOff => BrokenOff'
    BY StaysBroken
  <2> QED
    BY <1>0, <2>1, <2>2, <2>3 DEF StaticPoints, SetUpPoints
<1>4. CASE Propose \/ PassOver \/ LeaveLoop \/ RerunFails \/ Record \/ WrapUp \/ Decide
  BY <1>0, <1>4 DEF Propose, PassOver, LeaveLoop, RerunFails, Record, WrapUp, Decide, AtRound, Publish, Going, static,
                    Caught, StaticPoints, SetUpPoints
<1>16. CASE StaticRaises
  BY <1>0, <1>16 DEF StaticRaises, AtCheckpoint, Raise, Failed, Going, StaticPoints, SetUpPoints
<1>5. CASE BeginScan \/ EndScan
  <2>1. PICK status \in {"running", "completed", "partial", "failed", "interrupted"} :
          /\ manifest' = [manifest EXCEPT !.llm = status]
          /\ pc["llm"] = "scan" => status # "running"
    BY <1>5 DEF BeginScan, EndScan, Publish
  <2>2. manifest'.llm = status /\ Said(manifest') = Said(manifest)
    BY <1>0, <2>1 DEF Manifests, Said
  <2>3. /\ pc["llm"] \in {"begin", "scan"} /\ pc' = [pc EXCEPT !["llm"] = "write"]
        /\ resume' = [resume EXCEPT !["llm"] = IF pc["llm"] = "begin" THEN "scan" ELSE "over"]
        /\ UNCHANGED <<options, failure, latest, struck, disk>>
    BY <1>5 DEF BeginScan, EndScan, Publish, Going, static
  <2>4. BrokenOff \/ At("main") \in Window
    BY <2>3 DEF Located
  <2>5. latest = None \/ BrokenOff
    BY <2>4 DEF Window, StaticPoints
  <2> QED
    BY <1>0, <2>1, <2>2, <2>3, <2>4, <2>5 DEF Window, StaticPoints
<1>6. CASE Join \/ StageStopped
  BY <1>0, <1>6 DEF Join, StageStopped, Main, Going, static, SetUpPoints
<1>15. CASE PublishLatest \/ FinishPublishes
  <2>1. pc["main"] = "publish" => ~BrokenOff /\ pc["llm"] = "over" /\ failure = "none"
    BY <1>0 DEF Located, ErrorForgotten, Window, StaticPoints, FinishPoints, Ends
  <2>2. pc["main"] \in {"publish", "finished"} /\ At("main")' = "returned" /\ pc'["main"] = "returned"
        /\ pc'["llm"] = pc["llm"] /\ UNCHANGED <<options, failure, struck, manifest, disk, resume>>
        /\ latest' \in {Said(manifest), latest}
    BY <1>0, <1>15 DEF PublishLatest, FinishPublishes, Main, Going, static
  <2> QED
    BY <1>0, <2>1, <2>2 DEF SetUpPoints
<1>7. CASE Verify \/ Review \/ Gate \/ Export \/ PublishFails
  <2>1. manifest'.llm = manifest.llm
    BY <1>7, JudgingSteps DEF SameHalves
  <2>2. ~BrokenOff
    BY <1>7 DEF Verify, Review, Gate, Export, PublishFails, Located, FinishPoints
  <2> QED
    BY <1>0, <1>7, <2>1, <2>2 DEF ErrorForgotten, Verify, Review, Gate, Export, PublishFails, Decided, rest, Publish, Going, static,
                            Located, Window, StaticPoints, SetUpPoints, FinishPoints, Ends
<1>8. CASE Report
  BY <1>0, <1>8 DEF Report, Publish, Going, static, SetUpPoints
<1>9. CASE Finish
  <2>1. manifest'.llm = IF manifest.llm = "running" THEN "interrupted" ELSE manifest.llm
    BY <1>9 DEF Finish, Publish
  <2>2. Said(manifest') = Interruption
    BY <1>9 DEF Finish, Publish, Said, Interruption
  <2> QED
    BY <1>0, <1>9, <2>1, <2>2 DEF Finish, Publish, Going, static, SetUpPoints
<1>17. CASE FinishAgain
  BY <1>0, <1>17 DEF FinishAgain, Publish, Going, static, SetUpPoints
<1>10. ASSUME NEW t \in Threads, Write(t) PROVE Account'
  BY <1>0, <1>10 DEF Write, Going
<1>11. ASSUME NEW t \in Threads, Replace(t) PROVE Account'
  <2>1. resume[t] \notin {"write", "replace"}
    BY <1>0 DEF Points, Ends
  <2> QED
    BY <1>0, <1>11, <2>1, ReplaceWrites DEF Replace, Going, Saved
<1>12. ASSUME NEW t \in Threads, SaveFails(t) PROVE Account'
  BY <1>0, <1>12 DEF SaveFails, Going, Saved, Raise, Failed, InStatic, SetUpPoints, StaticPoints
<1>13. CASE Cancel \/ TogglePause \/ UNCHANGED vars
  BY <1>0, <1>13 DEF Cancel, TogglePause, vars
<1>14. CASE Signal
  BY <1>0, <1>14 DEF Signal, SignalStatic, SignalJoin, SignalOutside, Failed, InStatic, Saved, Going, SetUpPoints, StaticPoints,
                     Ended, Ends
<1> QED
  BY <1>1, <1>2, <1>3, <1>4, <1>5, <1>6, <1>7, <1>8, <1>9, <1>10, <1>11, <1>12, <1>13, <1>14, <1>15, <1>16, <1>17
     DEF Next, MainNext, LlmNext, Static, Stages, Saving

LEMMA PipelineInvariant == Spec => []PipelineInv
<1>1. Init => PipelineInv
  <2> SUFFICES ASSUME Init PROVE PipelineInv
    OBVIOUS
  <2> USE DEF Init, At, Saves
  <2>1. TypeOK
    <3>1. manifest \in Manifests
      BY DEF Manifests, Options, ToolStatuses
    <3>2. pc \in [Threads -> Points \cup {"write", "replace"}] /\ resume \in [Threads -> Points \cup {"none"}]
          /\ snap \in [Threads -> Manifests \cup {None}]
      BY DEF Threads, Points
    <3> QED
      <4>1. tool \in Tools /\ round \in 0..Rounds /\ faults \in 0..MaxFaults
        BY PipelineAssumption DEF Tools
      <4> QED
        BY <3>1, <3>2, <4>1 DEF TypeOK
  <2>2. Located /\ Locked /\ Serialised
    BY DEF Located, Locked, Serialised, Threads, SetUpPoints, Window, StaticPoints, StagePoints, FinishPoints, BrokenOff
  <2>3. HalfOfTheScan /\ HalfOfTheTools
    BY DEF HalfOfTheScan, HalfOfTheTools
  <2>4. Unjudged /\ Copies /\ Judgement
    BY DEF Unjudged, Undecided, Copies, Judgement, Sound, Proper, Complete, Verdicts, BeforeVerdict, SetUpPoints, Threads
  <2>5. Account
    BY DEF Account, SetUpPoints
  <2>6. PassedTools
    BY DEF PassedTools, SetUpPoints, StaticPoints, StagePoints
  <2> QED
    BY <2>1, <2>2, <2>3, <2>4, <2>5, <2>6 DEF PipelineInv
<1>2. PipelineInv /\ [Next]_vars => PipelineInv'
  <2> SUFFICES ASSUME PipelineInv, [Next]_vars PROVE PipelineInv'
    OBVIOUS
  <2>1. TypeOK' /\ Located' /\ Locked'
    BY TypeKept, LocatedKept, LockedKept DEF PipelineInv
  <2>2. Serialised' /\ HalfOfTheScan' /\ HalfOfTheTools' /\ Unjudged'
    BY <2>1, SerialisedKept, HalfOfTheScanKept, HalfOfTheToolsKept, UnjudgedKept DEF PipelineInv
  <2>3. Judgement'
    BY <2>1, JudgementKept DEF PipelineInv
  <2>4. Copies' /\ PassedTools' /\ Account'
    BY <2>1, <2>2, <2>3, CopiesKept, PassedToolsKept, AccountKept DEF PipelineInv
  <2> QED
    BY <2>1, <2>2, <2>3, <2>4 DEF PipelineInv
<1> QED
  BY <1>1, <1>2, PTL DEF Spec

(* One run of the pipeline keeps its types: TypeOK, whatever is stopped,   *)
(* fails or strikes.                                                       *)
THEOREM PipelineTypeCorrect == Spec => []TypeOK
<1>1. PipelineInv => TypeOK
  BY DEF PipelineInv
<1> QED
  BY <1>1, PipelineInvariant, PTL

(* What the manifest on disk says of the run was earned: VerdictIsEarned,  *)
(* of runner.py's verdict, its review, its gate and its export.            *)
THEOREM VerdictIsEarnedTheorem == Spec => []VerdictIsEarned
<1>1. PipelineInv => VerdictIsEarned
  <2> SUFFICES ASSUME PipelineInv, disk # None PROVE VerdictIsEarned
    BY DEF VerdictIsEarned
  <2>1. Proper(disk) /\ (disk.status = "complete" => Complete(disk) /\ disk.review \in {"completed", "disabled"})
    BY DEF PipelineInv, Copies, Sound
  <2>2. ASSUME disk.status = "complete", pc["main"] = "returned" PROVE disk.export \in {"completed", "disabled"}
    <3>1. ~BrokenOff
      BY <2>2 DEF PipelineInv, Unjudged, Undecided
    <3>2. disk = manifest /\ At("main") = "returned"
      BY <2>2, <3>1 DEF PipelineInv, Account, At, Saves
    <3> QED
      BY <2>2, <3>2 DEF PipelineInv, Judgement
  <2> QED
    BY <2>1, <2>2 DEF VerdictIsEarned, Proper, Complete, Whole
<1> QED
  BY <1>1, PipelineInvariant, PTL

(* Neither side of the window loses what the other has published:          *)
(* HalvesOnDisk, of the shared manifest and its lock in _run_together.     *)
THEOREM HalvesOnDiskTheorem == Spec => []HalvesOnDisk
<1>1. PipelineInv => HalvesOnDisk
  <2> SUFFICES ASSUME PipelineInv, ~BrokenOff PROVE HalvesOnDisk
    BY DEF HalvesOnDisk, BrokenOff
  <2> USE DEF At, Saves
  <2>1. ASSUME pc["main"] = "stability" PROVE disk.tools = manifest.tools /\ disk.llm = manifest.llm
    <3>1. failure = "none" /\ disk # None /\ pc["llm"] = "over" /\ ~interrupted
      BY <2>1 DEF PipelineInv, TypeOK, Located, ErrorForgotten, Window, StaticPoints, StagePoints, FinishPoints, SetUpPoints, Ends
    <3>2. disk.llm = manifest.llm /\ \A t \in Tools : disk.tools[t] = manifest.tools[t]
      BY <2>1, <3>1 DEF PipelineInv, HalfOfTheScan, HalfOfTheTools, Window, StaticPoints
    <3>3. disk.tools \in [Tools -> ToolStatuses] /\ manifest.tools \in [Tools -> ToolStatuses]
      BY <3>1 DEF PipelineInv, TypeOK, Manifests
    <3> QED
      BY <3>2, <3>3
  <2>2. ASSUME pc["main"] = "raised", failure = "static", faults = 1 PROVE disk.llm = manifest.llm
    BY <2>2 DEF PipelineInv, HalfOfTheScan, Located, Window, StaticPoints, FinishPoints
  <2>3. ASSUME pc["main"] = "raised", failure = "llm", faults = 1, struck = "none"
        PROVE  \A t \in Tools : disk.tools[t] = manifest.tools[t] \/ manifest.tools[t] = "interrupted"
    BY <2>3 DEF PipelineInv, HalfOfTheTools, Located, Window, StaticPoints
  <2> QED
    BY <2>1, <2>2, <2>3 DEF HalvesOnDisk
<1> QED
  BY <1>1, PipelineInvariant, PTL

(* A run that has returned leaves a true account: AccountIsTrue, of the    *)
(* manifest's statuses, the exit code and latest.json; on disk unless a    *)
(* signal struck in the wait for a scan that still ran.                    *)
THEOREM AccountIsTrueTheorem == Spec => []AccountIsTrue
<1>1. PipelineInv => AccountIsTrue
  <2> SUFFICES ASSUME PipelineInv, pc["main"] = "returned" PROVE AccountIsTrue
    BY DEF AccountIsTrue
  <2> USE DEF At, Saves
  <2>1. \A t \in Tools : Behind(t)
    BY DEF PipelineInv, PassedTools, AllBehind
  <2>2. BrokenOff => Said(manifest) = Interruption
    BY DEF PipelineInv, Account
  <2>3. ASSUME ~BrokenOff
        PROVE  disk = manifest /\ manifest.llm # "running" /\ (options.llm => manifest.llm # "not_requested")
    <3>1. disk = manifest /\ manifest.llm # "running"
      BY <2>3 DEF PipelineInv, Account
    <3>2. options.llm => manifest.llm # "not_requested"
      BY <2>3 DEF PipelineInv, Account, Located, Window, StaticPoints, SetUpPoints
    <3> QED
      BY <3>1, <3>2
  <2>4. latest # None => latest = Said(manifest)
    BY DEF PipelineInv, Account
  <2> QED
    BY <2>1, <2>2, <2>3, <2>4 DEF AccountIsTrue, Behind, BrokenOff, Interruption
<1> QED
  BY <1>1, PipelineInvariant, PTL

-----------------------------------------------------------------------------
(***************************************************************************)
(* The run of a native tool.  The output budget is overdrawn by what is in *)
(* flight when it runs out: as long as something remains, what was kept    *)
(* and what remains make up the budget, so a process that is given room    *)
(* finds at most NJobs - 1 others, whose streams may take Ceiling each;    *)
(* and none is given room later (InFlight).  A stop is followed by the     *)
(* starts that were due (LateStarts).  What is told of a unit depends on   *)
(* where it is (Told), and the record is made when every future is settled *)
(* (Gathering).                                                            *)
(***************************************************************************)
Running == {u \in Units : at[u] \in Active}
Slots == IF mode = "loop" THEN 1 ELSE NJobs

(* The units are taken in their order, and in the loop one by one.         *)
InTurn ==
    /\ \A u, v \in Units : u < v /\ at[u] = "queued" => at[v] = "queued"
    /\ \A u \in completed : at[u] = "done"
    /\ Cardinality(Running) <= Slots

Holding == {u \in Units : room[u] > 0}
InFlight ==
    /\ \A u \in Units : room[u] > 0 => at[u] = "child"
    /\ \A u \in Units : at[u] = "child" /\ room[u] = 0 => remaining = 0
    /\ remaining > 0 => kept = Budget - remaining
    /\ \E last \in Units :
         kept + 2 * room[last] + 2 * (Cardinality(Holding \ {last}) * Ceiling)
             <= Budget + 2 * ((NJobs - 1) * Ceiling) + Ceiling

Due == {u \in Units : at[u] \in {"checkpoint", "open"}}
LateStarts == IF IsCancelled THEN late + Cardinality(Due) <= Slots ELSE late = 0

(* What the record and the events tell of a unit, before the record is     *)
(* assembled.                                                              *)
Told(u) ==
    /\ at[u] \in {"queued", "begin", "checkpoint", "cancelled"} => events[u] = <<>>
    /\ at[u] \in {"open", "child"} \cup Endings => events[u] = <<"started">>
    /\ at[u] = "done" =>
         IF unit[u].ran THEN /\ events[u] = <<"started", unit[u].status>>
                             /\ unit[u].status \in Statuses \ {"unscheduled"}
         ELSE events[u] = <<>> /\ unit[u].status \in {"interrupted", "unscheduled"}

Gathering ==
    /\ main \in {"sweep", "gather"} => ctrlC = "collect"
    /\ main = "drain" => ctrlC = "collect" \/ completed = Units
    /\ main = "over" =>
         /\ ctrlC = "collect" \/ completed = Units
         /\ \A u \in Units : at[u] \in Settled
         /\ \A u \in Units : 
              IF u \in completed /\ unit[u].ran
                THEN /\ events[u] = <<"started", unit[u].status>>
                     /\ unit[u].status \in Statuses \ {"unscheduled"}
              ELSE IF u \in completed
                THEN events[u] = <<unit[u].status>> /\ unit[u].status \in {"interrupted", "unscheduled"}
              ELSE unit[u] = NeverRan("interrupted")
    /\ main # "over" => \A u \in Units : Told(u)

ToolInv == ToolTypeOK /\ InTurn /\ InFlight /\ LateStarts /\ Gathering

LEMMA LesserOfTwo ==
    ASSUME NEW a \in Int, NEW b \in Int
    PROVE  Min({a, b}) = IF a <= b THEN a ELSE b
<1> DEFINE least == IF a <= b THEN a ELSE b
           IsLeast(x) == x \in {a, b} /\ \A y \in {a, b} : x =< y
<1>1. IsLeast(least)
  OBVIOUS
<1>2. IsLeast(CHOOSE x : IsLeast(x))
  BY <1>1
<1>3. Min({a, b}) = CHOOSE x : IsLeast(x)
  BY DEF Min
<1>4. \A x : IsLeast(x) => x = least
  OBVIOUS
<1> QED
  BY <1>2, <1>3, <1>4

LEMMA GreaterOfTwo ==
    ASSUME NEW a \in Int, NEW b \in Int
    PROVE  Max({a, b}) = IF a >= b THEN a ELSE b
<1> DEFINE most == IF a >= b THEN a ELSE b
           IsMost(x) == x \in {a, b} /\ \A y \in {a, b} : x >= y
<1>1. IsMost(most)
  OBVIOUS
<1>2. IsMost(CHOOSE x : IsMost(x))
  BY <1>1
<1>3. Max({a, b}) = CHOOSE x : IsMost(x)
  BY DEF Max
<1>4. \A x : IsMost(x) => x = most
  OBVIOUS
<1> QED
  BY <1>2, <1>3, <1>4

(* What a process with room may keep, and what it then leaves of the       *)
(* budget.                                                                 *)
LEMMA KeepsItsRoom ==
    ASSUME ToolTypeOK, NEW u \in Units, NEW written \in {0, Flood}
    PROVE  /\ Kept(u, written) \in Nat
           /\ room[u] > 0 => Kept(u, written) <= room[u]
<1>1. room[u] \in Nat /\ written \in Nat
  BY ToolRunAssumption DEF ToolTypeOK
<1>2. Min({room[u], written}) = IF room[u] <= written THEN room[u] ELSE written
  BY <1>1, LesserOfTwo
<1> QED
  BY <1>1, <1>2 DEF Kept

LEMMA RoomGiven ==
    ASSUME ToolTypeOK
    PROVE  /\ OutputRoom \in 0..Ceiling /\ OutputRoom <= remaining
           /\ OutputRoom = Ceiling \/ OutputRoom = remaining
  BY ToolRunAssumption, LesserOfTwo DEF ToolTypeOK, OutputRoom

LEMMA Spent ==
    ASSUME ToolTypeOK, NEW total \in Nat, Spend(total)
    PROVE  /\ remaining' \in 0..Budget
           /\ remaining' > 0 => remaining' = remaining - total
           /\ remaining' <= remaining
<1>1. remaining \in 0..Budget /\ Budget \in Nat
  BY ToolRunAssumption DEF ToolTypeOK
<1>2. Max({0, remaining - total}) = IF 0 >= remaining - total THEN 0 ELSE remaining - total
  BY <1>1, GreaterOfTwo
<1> QED
  BY <1>1, <1>2 DEF Spend

LEMMA SomeUnits == IsFiniteSet(Units) /\ \A S \in SUBSET Units : IsFiniteSet(S) /\ Cardinality(S) \in Nat
<1>1. IsFiniteSet(Units)
  BY FS_Interval, ToolRunAssumption DEF Units
<1> QED
  BY <1>1, FS_Subset, FS_CardinalityType

(* A unit joins a set of units, or leaves it.                              *)
LEMMA UnitMoves ==
    ASSUME NEW S \in SUBSET Units, NEW u \in Units
    PROVE  /\ u \notin S => Cardinality(S \cup {u}) = Cardinality(S) + 1
           /\ u \in S => Cardinality(S \ {u}) = Cardinality(S) - 1 /\ Cardinality(S) > 0
           /\ \A T \in SUBSET S : Cardinality(T) <= Cardinality(S)
<1>1. IsFiniteSet(S) /\ Cardinality(S) \in Nat
  BY SomeUnits
<1>2. u \notin S => Cardinality(S \cup {u}) = Cardinality(S) + 1
  BY <1>1, FS_AddElement
<1>3. ASSUME u \in S PROVE Cardinality(S \ {u}) = Cardinality(S) - 1 /\ Cardinality(S) > 0
  <2>1. Cardinality(S \ {u}) = Cardinality(S) - 1
    BY <1>1, <1>3, FS_RemoveElement
  <2>2. Cardinality(S \ {u}) \in Nat
    BY SomeUnits
  <2> QED
    BY <1>1, <2>1, <2>2
<1>4. \A T \in SUBSET S : Cardinality(T) <= Cardinality(S)
  BY <1>1, FS_Subset
<1> QED
  BY <1>2, <1>3, <1>4

LEMMA ToolTypesKept == ASSUME ToolTypeOK, InTurn, Gathering, [ToolNext]_toolVars PROVE ToolTypeOK'
<1> USE DEF ToolTypeOK, toolVars, plan, operator, process, account, stops
<1>0. /\ Active \cup Settled \cup {"queued"} = {"begin", "checkpoint", "open", "child", "exited", "timed out", "stopped",
                                                  "done", "cancelled", "raised", "queued"}
      /\ NeverRan("interrupted") \in [status : Statuses \cup {"none"}, ran : BOOLEAN]
      /\ NeverRan("unscheduled") \in [status : Statuses \cup {"none"}, ran : BOOLEAN]
  BY DEF Active, Settled, Endings, NeverRan, Statuses
<1>1. ASSUME NEW u \in Units, Take(u) \/ FailToStart(u) PROVE ToolTypeOK'
  BY <1>0, <1>1 DEF Take, FailToStart, Go
<1>11. ASSUME NEW u \in Units, Begin(u) PROVE ToolTypeOK'
  <2>1. CASE IsCancelled
    <3>1. /\ at' = [at EXCEPT ![u] = "done"] /\ unit' = [unit EXCEPT ![u] = NeverRan("interrupted")]
          /\ UNCHANGED <<plan, operator, process, stops, events>>
      BY <1>11, <2>1 DEF Begin, Go, Settle
    <3> QED
      BY <1>0, <3>1
  <2>2. CASE ~IsCancelled
    BY <1>0, <1>11, <2>2 DEF Begin, Go
  <2> QED
    BY <2>1, <2>2
<1>12. ASSUME NEW u \in Units, TurnedAway(u) PROVE ToolTypeOK'
  BY <1>0, <1>12 DEF TurnedAway, Go, Settle
<1>2. ASSUME NEW u \in Units, Announce(u) PROVE ToolTypeOK'
  <2>1. Append(events[u], "started") \in Seq(Statuses \cup {"started"})
    OBVIOUS
  <2> QED
    BY <1>0, <1>2, <2>1 DEF Announce, Go
<1>3. ASSUME NEW u \in Units, Open(u) PROVE ToolTypeOK'
  <2>1. OutputRoom \in 0..Ceiling /\ late' \in Nat
    BY <1>3, RoomGiven DEF Open
  <2> QED
    BY <1>0, <1>3, <2>1 DEF Open, Go
<1>4. ASSUME NEW u \in Units, NEW ending \in Endings, ChildEnds(u, ending),
             ctrlC' \in {ctrlC, "process"}
      PROVE  ToolTypeOK'
  <2>1. PICK written \in {0, Flood} :
          /\ Spend(2 * Kept(u, written))
          /\ kept' \in {kept, kept + 2 * Kept(u, written)} /\ excess' \in {excess, excess + 2 * Kept(u, written)}
    BY <1>4 DEF ChildEnds
  <2>2. 2 * Kept(u, written) \in Nat
    BY KeepsItsRoom
  <2>3. remaining' \in 0..Budget /\ kept' \in Nat /\ excess' \in Nat
    BY <2>1, <2>2, Spent
  <2>4. room' \in [Units -> 0..Ceiling]
    BY <1>4, ToolRunAssumption DEF ChildEnds
  <2> QED
    BY <1>0, <1>4, <2>3, <2>4 DEF ChildEnds, Go, Endings
<1>5. ASSUME NEW u \in Units, Judge(u) PROVE ToolTypeOK'
  <2>1. PICK valid \in BOOLEAN, succeeded \in BOOLEAN :
          /\ unit' = [unit EXCEPT ![u] = [status |-> Outcome(at[u], valid, succeeded), ran |-> TRUE]]
          /\ events' = [events EXCEPT ![u] = Append(@, Outcome(at[u], valid, succeeded))]
    BY <1>5 DEF Judge
  <2>2. Outcome(at[u], valid, succeeded) \in Statuses
    BY DEF Outcome, Statuses
  <2>3. Append(events[u], Outcome(at[u], valid, succeeded)) \in Seq(Statuses \cup {"started"})
    BY <2>2
  <2> QED
    BY <1>0, <1>5, <2>1, <2>2, <2>3 DEF Judge
<1>6. ASSUME NEW u \in Units, Collect(u) \/ CollectRaises(u) \/ Gather(u) PROVE ToolTypeOK'
  <2>1. cancel' \in BOOLEAN
    BY <1>6 DEF Collect, CollectRaises, Gather, IsCancelled
  <2> QED
    BY <1>6, <2>1 DEF Collect, CollectRaises, Gather
<1>7. CASE Strike \/ Sweep \/ Gathered \/ AllCollected \/ ShutDown \/ Unwind
  BY <1>0, <1>7 DEF Strike, Sweep, Gathered, AllCollected, ShutDown, Unwind, CancelQueued
<1>8. CASE Assemble
  <2>1. \A u \in Units : Recorded(u) \in [status : Statuses \cup {"none"}, ran : BOOLEAN]
    BY <1>0 DEF Recorded
  <2>2. \A u \in Units : ~Recorded(u).ran => Recorded(u).status \in Statuses
    <3>1. \A u \in completed : Told(u) /\ at[u] = "done"
      BY <1>8 DEF Assemble, Gathering, InTurn
    <3>2. \A u \in completed : ~unit[u].ran => unit[u].status \in Statuses
      BY <3>1 DEF Told, Statuses, Endings
    <3> QED
      BY <3>2 DEF Recorded, NeverRan, Statuses
  <2>3. \A u \in Units : ~Recorded(u).ran => Append(events[u], Recorded(u).status) \in Seq(Statuses \cup {"started"})
    BY <2>2
  <2> QED
    BY <1>8, <2>1, <2>3 DEF Assemble
<1>9. CASE Commands
  <2>1. token' \in BOOLEAN /\ lanePaused' \in BOOLEAN
    BY <1>9 DEF Commands, Pause, Stop
  <2> QED
    BY <1>9, <2>1 DEF Commands
<1>10. CASE UNCHANGED toolVars
  BY <1>10
<1> QED
  BY <1>1, <1>2, <1>3, <1>4, <1>5, <1>6, <1>7, <1>8, <1>9, <1>10, <1>11, <1>12
     DEF ToolNext, UnitGoesOn, CallerGoesOn, ChildExits, ChildTimesOut, ChildStopped, ChildStruck, Endings

(* A unit that a thread has in hand goes on, and stays in hand or is done. *)
GoesOn(u) ==
    /\ at[u] \in Active
    /\ \E place \in (Active \ {"begin"}) \cup {"done", "raised"} : at' = [at EXCEPT ![u] = place]
    /\ UNCHANGED <<mode, completed, main>>

LEMMA UnitSteps ==
    ASSUME NEW u \in Units,
           \/ UnitGoesOn(u) /\ ~Take(u)
           \/ FailToStart(u) \/ ChildExits(u) \/ ChildStopped(u) \/ ChildStruck(u)
    PROVE  GoesOn(u)
<1> USE DEF GoesOn, Active, Endings
<1>1. CASE Begin(u) \/ TurnedAway(u) \/ Announce(u) \/ FailToStart(u) \/ Open(u)
  BY <1>1 DEF Begin, TurnedAway, Announce, FailToStart, Open, Go, plan
<1>2. CASE Judge(u)
  BY <1>2 DEF Judge, plan
<1>3. ASSUME NEW ending \in Endings, ChildEnds(u, ending) PROVE GoesOn(u)
  BY <1>3 DEF ChildEnds, Go
<1> QED
  BY <1>1, <1>2, <1>3 DEF UnitGoesOn, ChildExits, ChildTimesOut, ChildStopped, ChildStruck

LEMMA InTurnKept == ASSUME ToolTypeOK, InTurn, [ToolNext]_toolVars PROVE InTurn'
<1> USE DEF InTurn
<1>0. /\ at \in [Units -> Active \cup Settled \cup {"queued"}] /\ Units \subseteq Int /\ completed \subseteq Units
      /\ {"queued", "done", "cancelled", "raised"} \cap Active = {} /\ Running \in SUBSET Units
  <2>1. at \in [Units -> Active \cup Settled \cup {"queued"}] /\ completed \subseteq Units
    BY DEF ToolTypeOK
  <2>2. Units \subseteq Int /\ Running \in SUBSET Units
    BY ToolRunAssumption DEF Units, Running
  <2> QED
    BY <2>1, <2>2 DEF Active, Endings
<1>1. ASSUME Running' \in SUBSET Running, mode' = mode PROVE Cardinality(Running)' <= Slots'
  <2>1. Cardinality(Running') <= Cardinality(Running) /\ Cardinality(Running') \in Nat /\ Cardinality(Running) \in Nat
    BY <1>0, <1>1, SomeUnits, FS_Subset
  <2> QED
    BY <1>1, <2>1, ToolRunAssumption DEF Slots
<1>2. ASSUME NEW u \in Units, Take(u) PROVE InTurn'
  <2>1. at[u] = "queued" /\ at' = [at EXCEPT ![u] = "begin"] /\ UNCHANGED <<mode, completed, main>>
    BY <1>2 DEF Take, Go, plan
  <2>2. \A v \in Units : v < u => at[v] # "queued"
    BY <1>2 DEF Take
  <2>3. Cardinality(Running) + 1 <= Slots
    <3>1. CASE mode = "pool"
      <4>1. Cardinality(Running) < NJobs /\ Cardinality(Running) \in Nat
        BY <1>2, <3>1, SomeUnits, <1>0 DEF Take, Running
      <4> QED
        BY <3>1, <4>1, ToolRunAssumption DEF Slots
    <3>2. CASE mode = "loop"
      <4>1. ASSUME NEW v \in Units PROVE at[v] \notin Active
        <5>1. CASE v < u
          BY <1>0, <1>2, <3>2, <5>1 DEF Take, Units
        <5>2. CASE u < v
          BY <1>0, <2>1, <5>2
        <5>3. CASE u = v
          BY <1>0, <2>1, <5>3
        <5> QED
          BY <1>0, <5>1, <5>2, <5>3
      <4>2. Running = {}
        BY <4>1 DEF Running
      <4> QED
        BY <3>2, <4>2, FS_EmptySet DEF Slots
    <3> QED
      BY <3>1, <3>2 DEF ToolTypeOK
  <2>4. Running' = Running \cup {u} /\ u \notin Running
    BY <1>0, <2>1 DEF Running, Active
  <2>5. Cardinality(Running') = Cardinality(Running) + 1
    BY <1>0, <2>4, UnitMoves
  <2>6. Cardinality(Running)' <= Slots'
    BY <2>1, <2>3, <2>5 DEF Slots
  <2> QED
    BY <1>0, <2>1, <2>2, <2>6
<1>3. ASSUME NEW u \in Units, GoesOn(u) PROVE InTurn'
  <2>1. PICK place \in (Active \ {"begin"}) \cup {"done", "raised"} : at' = [at EXCEPT ![u] = place]
    BY <1>3 DEF GoesOn
  <2>2. at[u] \in Active /\ UNCHANGED <<mode, completed, main>>
    BY <1>3 DEF GoesOn
  <2>3. Running' \in SUBSET Running
    BY <1>0, <2>1, <2>2 DEF Running
  <2> QED
    BY <1>0, <1>1, <2>1, <2>2, <2>3
<1>4. ASSUME UNCHANGED <<mode, at>>, completed' \subseteq {u \in Units : at[u] = "done"} PROVE InTurn'
  <2>1. Running' \in SUBSET Running
    BY <1>4 DEF Running
  <2> QED
    BY <1>0, <1>1, <1>4, <2>1
<1>5. ASSUME UNCHANGED mode, CancelQueued, completed' \subseteq {u \in Units : at[u] = "done"} PROVE InTurn'
  <2>1. Running' \in SUBSET Running
    BY <1>0, <1>5 DEF Running, CancelQueued
  <2> QED
    BY <1>0, <1>1, <1>5, <2>1 DEF CancelQueued
<1>6. ASSUME NEW u \in Units, Collect(u) \/ CollectRaises(u) \/ Gather(u) PROVE InTurn'
  BY <1>0, <1>4, <1>6 DEF Collect, CollectRaises, Gather
<1>7. CASE Strike \/ Gathered \/ AllCollected \/ Assemble \/ Unwind \/ Commands \/ UNCHANGED toolVars
  BY <1>0, <1>4, <1>7 DEF Strike, Gathered, AllCollected, Assemble, Unwind, Commands, plan, toolVars
<1>8. CASE Sweep \/ ShutDown
  BY <1>0, <1>5, <1>8 DEF Sweep, ShutDown, plan
<1> QED
  BY <1>2, <1>3, <1>6, <1>7, <1>8, UnitSteps DEF ToolNext, UnitGoesOn, CallerGoesOn

LEMMA TimesMore == ASSUME NEW a \in Int, NEW b \in Int, NEW c \in Nat, a <= b PROVE a * c <= b * c
  OBVIOUS

LEMMA OneLess == ASSUME NEW a \in Int, NEW c \in Nat PROVE (a - 1) * c = a * c - c
  OBVIOUS

LEMMA ChargedOnce ==
    ASSUME NEW before \in Int, NEW after \in Int, NEW r \in Int, NEW others \in Int, NEW most \in Int,
           NEW b \in Int, NEW c \in Int, after <= before + 2 * r,
           before + 2 * r + 2 * others <= b + 2 * most + c
    PROVE  after + 2 * 0 + 2 * others <= b + 2 * most + c
  OBVIOUS

LEMMA InFlightKept == ASSUME ToolTypeOK, InTurn, InFlight, [ToolNext]_toolVars PROVE InFlight'
<1> USE DEF InFlight
<1>0. /\ at \in [Units -> Active \cup Settled \cup {"queued"}] /\ room \in [Units -> 0..Ceiling]
      /\ remaining \in 0..Budget /\ kept \in Nat /\ Budget \in Nat /\ Ceiling \in Nat \ {0} /\ NJobs \in Nat \ {0, 1}
      /\ Holding \in SUBSET Units
  BY ToolRunAssumption DEF ToolTypeOK, Holding
<1>1. ASSUME UNCHANGED <<room, remaining, kept>>, \A u \in Units : at[u] = "child" <=> at'[u] = "child"
      PROVE  InFlight'
  <2>1. Holding' = Holding
    BY <1>1 DEF Holding
  <2> QED
    BY <1>0, <1>1, <2>1
<1>2. ASSUME NEW u \in Units, Take(u) \/ Begin(u) \/ TurnedAway(u) \/ Announce(u) \/ FailToStart(u) PROVE InFlight'
  BY <1>0, <1>1, <1>2 DEF Take, Begin, TurnedAway, Announce, FailToStart, Go, process
<1>3. ASSUME NEW u \in Units, Judge(u) PROVE InFlight'
  BY <1>0, <1>1, <1>3 DEF Judge, process, Endings
<1>4. ASSUME NEW u \in Units, Collect(u) \/ CollectRaises(u) \/ Gather(u) PROVE InFlight'
  BY <1>1, <1>4 DEF Collect, CollectRaises, Gather, process
<1>5. CASE Strike \/ Sweep \/ Gathered \/ AllCollected \/ ShutDown \/ Assemble \/ Unwind \/ Commands \/ UNCHANGED toolVars
  BY <1>0, <1>1, <1>5 DEF Strike, Sweep, Gathered, AllCollected, ShutDown, Assemble, Unwind, Commands, CancelQueued,
                          process, toolVars
<1>6. ASSUME NEW u \in Units, Open(u) PROVE InFlight'
  <2>1. /\ at[u] = "open" /\ at' = [at EXCEPT ![u] = "child"] /\ room' = [room EXCEPT ![u] = OutputRoom]
        /\ UNCHANGED <<remaining, kept>> /\ room[u] = 0
    BY <1>0, <1>6 DEF Open, Go
  <2>2. OutputRoom \in 0..Ceiling /\ OutputRoom <= remaining /\ (OutputRoom = 0 => remaining = 0)
    BY <1>0, RoomGiven
  <2>3. /\ \A v \in Units : room'[v] > 0 => at'[v] = "child"
        /\ \A v \in Units : at'[v] = "child" /\ room'[v] = 0 => remaining' = 0
    BY <1>0, <2>1, <2>2
  <2>4. CASE OutputRoom = 0
    <3>1. room' = room
      BY <1>0, <2>1, <2>4
    <3>2. Holding' = Holding
      BY <3>1 DEF Holding
    <3> QED
      BY <2>1, <2>3, <3>1, <3>2
  <2>5. CASE OutputRoom > 0
    <3>1. kept = Budget - remaining
      BY <1>0, <2>2, <2>5
    <3>2. Holding' \ {u} = Holding /\ Holding \in SUBSET (Running \ {u}) /\ u \in Running
      BY <1>0, <2>1 DEF Holding, Running, Active
    <3>3. Cardinality(Holding) \in Nat /\ Cardinality(Holding) <= NJobs - 1
      <4>1. Cardinality(Running \ {u}) = Cardinality(Running) - 1
        BY <3>2, UnitMoves DEF Running
      <4>2. Cardinality(Holding) <= Cardinality(Running \ {u})
        BY <3>2, UnitMoves DEF Running
      <4>4. Cardinality(Running) \in Nat /\ Cardinality(Holding) \in Nat
        BY <1>0, SomeUnits DEF Running
      <4>3. Cardinality(Running) <= NJobs
        BY <1>0, <4>4 DEF InTurn, Slots
      <4> QED
        BY <1>0, <4>1, <4>2, <4>3, <4>4
    <3>4. Cardinality(Holding) * Ceiling <= (NJobs - 1) * Ceiling
      BY <1>0, <3>3, TimesMore
    <3>5. Cardinality(Holding) * Ceiling \in Int /\ (NJobs - 1) * Ceiling \in Int
      BY <1>0, <3>3
    <3>6. room'[u] = OutputRoom
      BY <1>0, <2>1
    <3>7. kept' + 2 * room'[u] + 2 * (Cardinality(Holding' \ {u}) * Ceiling)
             <= Budget + 2 * ((NJobs - 1) * Ceiling) + Ceiling
      <4> DEFINE others == Cardinality(Holding) * Ceiling
                 most == (NJobs - 1) * Ceiling
      <4>1. others \in Int /\ most \in Int /\ others <= most
        BY <3>4, <3>5
      <4> HIDE DEF others, most
      <4>2. kept + 2 * OutputRoom + 2 * others <= Budget + 2 * most + Ceiling
        BY <1>0, <2>2, <3>1, <4>1
      <4> USE DEF others, most
      <4> QED
        BY <2>1, <3>2, <3>6, <4>2
    <3> QED
      BY <2>1, <2>3, <3>7
  <2> QED
    BY <1>0, <2>2, <2>4, <2>5
<1>7. ASSUME NEW u \in Units, NEW ending \in Endings, ChildEnds(u, ending) PROVE InFlight'
  <2>1. /\ at[u] = "child" /\ at' = [at EXCEPT ![u] = ending] /\ room' = [room EXCEPT ![u] = 0] /\ ending # "child"
    BY <1>7 DEF ChildEnds, Go, Endings
  <2>2. PICK total \in Nat :
          /\ Spend(total) /\ (room[u] > 0 => kept' = kept + total /\ total <= 2 * room[u])
          /\ room[u] = 0 => kept' = kept
    <3>1. PICK written \in {0, Flood} :
            /\ Spend(2 * Kept(u, written))
            /\ IF room[u] > 0 THEN kept' = kept + 2 * Kept(u, written) ELSE kept' = kept
      BY <1>7 DEF ChildEnds
    <3>2. Kept(u, written) \in Nat /\ (room[u] > 0 => Kept(u, written) <= room[u])
      BY KeepsItsRoom
    <3> QED
      BY <1>0, <3>1, <3>2
  <2>3. remaining' \in 0..Budget /\ remaining' <= remaining /\ (remaining' > 0 => remaining' = remaining - total)
    BY <2>2, Spent
  <2>4. remaining' > 0 => kept' = Budget - remaining'
    BY <1>0, <2>1, <2>2, <2>3
  <2>5. PICK last \in Units :
         kept + 2 * room[last] + 2 * (Cardinality(Holding \ {last}) * Ceiling)
             <= Budget + 2 * ((NJobs - 1) * Ceiling) + Ceiling
    OBVIOUS
  <2>6. Holding' = Holding \ {u}
    BY <1>0, <2>1 DEF Holding
  <2>7. /\ \A S \in SUBSET Units : Cardinality(S) * Ceiling \in Int
        /\ (NJobs - 1) * Ceiling \in Int
    BY <1>0, SomeUnits
  <2>8. kept' + 2 * room'[last] + 2 * (Cardinality(Holding' \ {last}) * Ceiling)
             <= Budget + 2 * ((NJobs - 1) * Ceiling) + Ceiling
    <3>1. CASE u = last
      <4>1. Holding' \ {last} = Holding \ {last} /\ Holding \ {last} \in SUBSET Units
        BY <1>0, <2>6, <3>1
      <4>2. room'[last] = 0 /\ kept' <= kept + 2 * room[last] /\ room[last] \in Nat /\ kept' \in Nat
        BY <1>0, <2>1, <2>2, <3>1
      <4> DEFINE others == Cardinality(Holding \ {last}) * Ceiling
                 most == (NJobs - 1) * Ceiling
      <4>3. others \in Int /\ most \in Int /\ kept + 2 * room[last] + 2 * others <= Budget + 2 * most + Ceiling
        BY <2>5, <2>7, <4>1
      <4> HIDE DEF others, most
      <4>4. kept' + 2 * 0 + 2 * others <= Budget + 2 * most + Ceiling
        <5>1. kept \in Int /\ kept' \in Int /\ room[last] \in Int /\ Budget \in Int /\ Ceiling \in Int
          BY <1>0, <4>2
        <5>2. kept' <= kept + 2 * room[last]
          BY <4>2
        <5> QED
          BY <5>1, <5>2, <4>3, ChargedOnce
      <4> USE DEF others, most
      <4> QED
        BY <4>1, <4>2, <4>4
    <3>2. CASE u # last /\ room[u] = 0
      <4>1. Holding' = Holding
        BY <1>0, <2>6, <3>2 DEF Holding
      <4> QED
        BY <1>0, <2>1, <2>2, <2>5, <3>2, <4>1
    <3>3. CASE u # last /\ room[u] > 0
      <4>1. Holding' \ {last} = (Holding \ {last}) \ {u} /\ u \in Holding \ {last} /\ Holding \ {last} \in SUBSET Units
        BY <1>0, <2>6, <3>3 DEF Holding
      <4>2. Cardinality(Holding' \ {last}) = Cardinality(Holding \ {last}) - 1 /\ Cardinality(Holding \ {last}) \in Nat
        BY <4>1, UnitMoves, SomeUnits
      <4>3. Cardinality(Holding' \ {last}) * Ceiling = Cardinality(Holding \ {last}) * Ceiling - Ceiling
        BY <1>0, <4>2, OneLess
      <4>4. room'[last] = room[last] /\ room[last] \in Nat /\ kept' <= kept + 2 * Ceiling /\ kept' \in Nat
        BY <1>0, <2>1, <2>2, <3>3
      <4>5. Cardinality(Holding \ {last}) * Ceiling \in Int
        BY <2>7, <4>1
      <4> QED
        BY <1>0, <2>5, <2>7, <4>3, <4>4, <4>5
    <3> QED
      BY <1>0, <3>1, <3>2, <3>3
  <2>9. /\ \A v \in Units : room'[v] > 0 => at'[v] = "child"
        /\ \A v \in Units : at'[v] = "child" /\ room'[v] = 0 => remaining' = 0
    BY <1>0, <2>1, <2>3
  <2> QED
    BY <2>4, <2>8, <2>9
<1> QED
  BY <1>2, <1>3, <1>4, <1>5, <1>6, <1>7
     DEF ToolNext, UnitGoesOn, CallerGoesOn, ChildExits, ChildTimesOut, ChildStopped, ChildStruck, Endings

LEMMA LateStartsKept == ASSUME ToolTypeOK, InTurn, LateStarts, [ToolNext]_toolVars PROVE LateStarts'
<1>0. /\ at \in [Units -> Active \cup Settled \cup {"queued"}] /\ late \in Nat /\ Slots \in Nat
      /\ Due \in SUBSET Running /\ Running \in SUBSET Units /\ Due \in SUBSET Units
      /\ Cardinality(Due) \in Nat /\ Cardinality(Running) \in Nat
  <2>1. Due \in SUBSET Running /\ Running \in SUBSET Units
    BY DEF Due, Running, Active
  <2> QED
    BY <2>1, SomeUnits, ToolRunAssumption DEF ToolTypeOK, Slots
<1>1. ASSUME Due' \in SUBSET Due, UNCHANGED <<late, mode>>, IsCancelled' <=> IsCancelled PROVE LateStarts'
  <2>1. Cardinality(Due') <= Cardinality(Due) /\ Cardinality(Due') \in Nat
    BY <1>0, <1>1, SomeUnits, FS_Subset
  <2> QED
    BY <1>0, <1>1, <2>1 DEF LateStarts, Slots
<1>2. ASSUME UNCHANGED <<at, late, mode>>, IsCancelled => IsCancelled' PROVE LateStarts'
  <2>1. Due' = Due
    BY <1>2 DEF Due
  <2>2. Cardinality(Due) <= Slots
    <3>1. Cardinality(Due) <= Cardinality(Running)
      BY <1>0, SomeUnits, FS_Subset
    <3> QED
      BY <1>0, <3>1 DEF InTurn
  <2> QED
    BY <1>0, <1>2, <2>1, <2>2 DEF LateStarts, Slots
<1>3. ASSUME NEW u \in Units, Take(u) PROVE LateStarts'
  <2>1. Due' = Due /\ UNCHANGED <<late, mode, cancel, token>>
    BY <1>0, <1>3 DEF Take, Go, Due, plan, operator, stops
  <2> QED
    BY <1>1, <2>1 DEF IsCancelled
<1>4. ASSUME NEW u \in Units, Begin(u) PROVE LateStarts'
  <2>1. UNCHANGED <<late, mode, cancel, token>>
    BY <1>4 DEF Begin, plan, operator, stops
  <2>2. CASE IsCancelled
    <3>1. Due' = Due
      BY <1>0, <1>4, <2>2 DEF Begin, Go, Due
    <3> QED
      BY <1>1, <2>1, <3>1 DEF IsCancelled
  <2>3. CASE ~IsCancelled
    BY <2>1, <2>3 DEF LateStarts, IsCancelled
  <2> QED
    BY <2>2, <2>3
<1>5. ASSUME NEW u \in Units, TurnedAway(u) \/ Announce(u) \/ FailToStart(u) \/ Judge(u) PROVE LateStarts'
  <2>1. Due' \in SUBSET Due /\ UNCHANGED <<late, mode, cancel, token>>
    BY <1>0, <1>5 DEF TurnedAway, Announce, FailToStart, Judge, Go, Due, plan, operator, stops
  <2> QED
    BY <1>1, <2>1 DEF IsCancelled
<1>6. ASSUME NEW u \in Units, NEW ending \in Endings, ChildEnds(u, ending) PROVE LateStarts'
  <2>1. Due' \in SUBSET Due /\ UNCHANGED <<late, mode, cancel, token>>
    BY <1>0, <1>6 DEF ChildEnds, Go, Due, operator, stops, Endings
  <2> QED
    BY <1>1, <2>1 DEF IsCancelled
<1>7. ASSUME NEW u \in Units, Open(u) PROVE LateStarts'
  <2>1. Due' = Due \ {u} /\ u \in Due /\ UNCHANGED <<mode, cancel, token>>
    BY <1>0, <1>7 DEF Open, Go, Due, plan, operator
  <2>2. Cardinality(Due') = Cardinality(Due) - 1
    BY <1>0, <2>1, UnitMoves
  <2>3. late' = IF IsCancelled THEN late + 1 ELSE late
    BY <1>7 DEF Open
  <2> QED
    BY <1>0, <2>1, <2>2, <2>3 DEF LateStarts, IsCancelled, Slots
<1>8. ASSUME NEW u \in Units, Collect(u) PROVE LateStarts'
  <2>1. UNCHANGED <<at, late, mode>> /\ (IsCancelled => cancel')
    BY <1>8 DEF Collect
  <2> QED
    BY <1>2, <2>1 DEF IsCancelled
<1>9. ASSUME NEW u \in Units, CollectRaises(u) \/ Gather(u) PROVE LateStarts'
  BY <1>2, <1>9 DEF CollectRaises, Gather, IsCancelled, operator, stops
<1>10. CASE Sweep \/ ShutDown
  <2>1. Due' \in SUBSET Due /\ UNCHANGED <<late, mode, cancel, token>>
    BY <1>0, <1>10 DEF Sweep, ShutDown, CancelQueued, Due, plan, operator, stops
  <2> QED
    BY <1>1, <2>1 DEF IsCancelled
<1>11. CASE Strike \/ Gathered \/ AllCollected \/ Assemble \/ Unwind \/ Commands \/ UNCHANGED toolVars
  BY <1>2, <1>11 DEF Strike, Gathered, AllCollected, Assemble, Unwind, Commands, Pause, Stop, IsCancelled,
                     plan, operator, stops, toolVars
<1> QED
  BY <1>3, <1>4, <1>5, <1>6, <1>7, <1>8, <1>9, <1>10, <1>11
     DEF ToolNext, UnitGoesOn, CallerGoesOn, ChildExits, ChildTimesOut, ChildStopped, ChildStruck, Endings

LEMMA AppendedToOne == ASSUME NEW a, NEW b PROVE Append(<<a>>, b) = <<a, b>>
<1>1. <<a>> \in Seq({a, b}) /\ <<a, b>> \in Seq({a, b}) /\ b \in {a, b}
  OBVIOUS
<1>2. /\ Append(<<a>>, b) \in Seq({a, b}) /\ Len(Append(<<a>>, b)) = 2
      /\ Append(<<a>>, b)[1] = a /\ Append(<<a>>, b)[2] = b
  BY <1>1, AppendProperties
<1>3. Len(<<a, b>>) = 2 /\ <<a, b>>[1] = a /\ <<a, b>>[2] = b
  OBVIOUS
<1>4. \A i \in 1..2 : Append(<<a>>, b)[i] = <<a, b>>[i]
  <2>1. \A i \in 1..2 : i = 1 \/ i = 2
    OBVIOUS
  <2> QED
    BY <2>1, <1>2, <1>3
<1> QED
  BY <1>1, <1>2, <1>3, <1>4, SeqEqual

LEMMA GatheringKept == ASSUME ToolTypeOK, InTurn, Gathering, [ToolNext]_toolVars PROVE Gathering'
<1>0. /\ at \in [Units -> Active \cup Settled \cup {"queued"}] /\ Active \cap Settled = {}
      /\ unit \in [Units -> [status : Statuses \cup {"none"}, ran : BOOLEAN]]
      /\ events \in [Units -> Seq(Statuses \cup {"started"})]
      /\ completed \subseteq Units /\ \A u \in completed : at[u] = "done"
      /\ {"queued", "begin", "checkpoint", "open", "child"} \cup Endings \subseteq Active \cup {"queued"}
  <2>1. Active \cap Settled = {} /\ {"queued", "begin", "checkpoint", "open", "child"} \cup Endings \subseteq Active \cup {"queued"}
    BY DEF Active, Settled, Endings
  <2> QED
    BY <2>1 DEF ToolTypeOK, InTurn
<1>1. ASSUME NEW u \in Units, at[u] \in Active \cup {"queued"}, UNCHANGED <<main, completed>>,
             ctrlC = "collect" => ctrlC' = "collect",
             \A v \in Units \ {u} : at'[v] = at[v] /\ unit'[v] = unit[v] /\ events'[v] = events[v],
             Told(u)'
      PROVE  Gathering'
  <2>1. main # "over"
    BY <1>0, <1>1 DEF Gathering, Settled
  <2>2. \A v \in Units : Told(v)'
    <3>1. ASSUME NEW v \in Units \ {u} PROVE Told(v)'
      BY <1>1, <2>1, <3>1 DEF Gathering, Told
    <3> QED
      BY <1>1, <3>1
  <2> QED
    BY <1>1, <2>1, <2>2 DEF Gathering
<1>2. ASSUME NEW u \in Units, at[u] \in Active \cup {"queued"} PROVE Told(u)
  BY <1>0, <1>2 DEF Gathering, Settled
<1>3. ASSUME NEW u \in Units, Take(u) \/ FailToStart(u) PROVE Gathering'
  <2>1. /\ at[u] \in Active \cup {"queued"} /\ UNCHANGED <<main, completed, ctrlC, unit, events>>
        /\ \E place \in {"begin", "raised"} : (place = "begin" => at[u] = "queued") /\ at' = [at EXCEPT ![u] = place]
    BY <1>3 DEF Take, FailToStart, Go, plan, account, Active
  <2>2. Told(u)'
    BY <1>0, <1>2, <2>1 DEF Told, Endings
  <2> QED
    BY <1>0, <1>1, <2>1, <2>2
<1>4. ASSUME NEW u \in Units, Begin(u) PROVE Gathering'
  <2>1. at[u] = "begin" /\ UNCHANGED <<main, completed, ctrlC, events>> /\ at[u] \in Active /\ events[u] = <<>>
    BY <1>2, <1>4 DEF Begin, Go, plan, account, Settle, Active, Told
  <2>2. CASE IsCancelled
    <3>1. at' = [at EXCEPT ![u] = "done"] /\ unit' = [unit EXCEPT ![u] = NeverRan("interrupted")]
      BY <1>4, <2>2 DEF Begin, Go, Settle
    <3>2. Told(u)'
      BY <1>0, <2>1, <3>1 DEF Told, NeverRan, Endings
    <3> QED
      BY <1>0, <1>1, <2>1, <3>1, <3>2
  <2>3. CASE ~IsCancelled
    <3>1. at' = [at EXCEPT ![u] = "checkpoint"] /\ unit' = unit
      BY <1>4, <2>3 DEF Begin, Go, account
    <3>2. Told(u)'
      BY <1>0, <2>1, <3>1 DEF Told, Endings
    <3> QED
      BY <1>0, <1>1, <2>1, <3>1, <3>2
  <2> QED
    BY <2>2, <2>3
<1>5. ASSUME NEW u \in Units, TurnedAway(u) PROVE Gathering'
  <2>1. at[u] = "checkpoint" /\ UNCHANGED <<main, completed, ctrlC, events>> /\ at[u] \in Active /\ events[u] = <<>>
    BY <1>2, <1>5 DEF TurnedAway, Go, plan, Settle, Active, Told
  <2>2. PICK status \in {"interrupted", "unscheduled"} :
          at' = [at EXCEPT ![u] = "done"] /\ unit' = [unit EXCEPT ![u] = NeverRan(status)]
    BY <1>5 DEF TurnedAway, Go, Settle
  <2>3. Told(u)'
    BY <1>0, <2>1, <2>2 DEF Told, NeverRan, Endings
  <2> QED
    BY <1>0, <1>1, <2>1, <2>2, <2>3
<1>6. ASSUME NEW u \in Units, Announce(u) PROVE Gathering'
  <2>1. at[u] = "checkpoint" /\ UNCHANGED <<main, completed, ctrlC, unit>> /\ at[u] \in Active /\ events[u] = <<>>
    BY <1>2, <1>6 DEF Announce, Go, plan, Active, Told
  <2>2. at' = [at EXCEPT ![u] = "open"] /\ events' = [events EXCEPT ![u] = Append(@, "started")]
    BY <1>6 DEF Announce, Go
  <2>3. Told(u)'
    BY <1>0, <2>1, <2>2 DEF Told
  <2> QED
    BY <1>0, <1>1, <2>1, <2>2, <2>3
<1>7. ASSUME NEW u \in Units, Open(u) PROVE Gathering'
  <2>1. at[u] = "open" /\ UNCHANGED <<main, completed, ctrlC, unit, events>> /\ at[u] \in Active
        /\ at' = [at EXCEPT ![u] = "child"]
    BY <1>7 DEF Open, Go, plan, account, Active
  <2>2. Told(u)'
    BY <1>0, <1>2, <2>1 DEF Told
  <2> QED
    BY <1>0, <1>1, <2>1, <2>2
<1>8. ASSUME NEW u \in Units, NEW ending \in Endings, ChildEnds(u, ending),
             ctrlC' = ctrlC \/ ctrlC = "none"
      PROVE  Gathering'
  <2>1. at[u] = "child" /\ UNCHANGED <<main, completed, unit, events>> /\ at[u] \in Active
        /\ at' = [at EXCEPT ![u] = ending] /\ (ctrlC = "collect" => ctrlC' = "collect")
    BY <1>8 DEF ChildEnds, Go, account, Active
  <2>2. Told(u)'
    BY <1>0, <1>2, <2>1 DEF Told, Endings
  <2> QED
    BY <1>0, <1>1, <2>1, <2>2
<1>9. ASSUME NEW u \in Units, Judge(u) PROVE Gathering'
  <2>1. /\ at[u] \in Endings /\ UNCHANGED <<main, completed, ctrlC>> /\ at[u] \in Active
        /\ at' = [at EXCEPT ![u] = "done"] /\ events[u] = <<"started">>
    BY <1>2, <1>9 DEF Judge, plan, Active, Told, Endings
  <2>2. PICK status \in Statuses \ {"unscheduled"} :
          /\ unit' = [unit EXCEPT ![u] = [status |-> status, ran |-> TRUE]]
          /\ events' = [events EXCEPT ![u] = Append(@, status)]
    BY <1>9 DEF Judge, Outcome, Statuses
  <2>3. Told(u)'
    <3>1. unit'[u] = [status |-> status, ran |-> TRUE] /\ events'[u] = <<"started", status>> /\ at'[u] = "done"
      <4>1. Append(<<"started">>, status) = <<"started", status>>
        BY AppendedToOne
      <4>2. unit'[u] = [status |-> status, ran |-> TRUE] /\ events'[u] = Append(events[u], status) /\ at'[u] = "done"
        BY <1>0, <2>1, <2>2
      <4> QED
        BY <2>1, <4>1, <4>2
    <3> QED
      BY <3>1 DEF Told, Endings
  <2> QED
    BY <1>0, <1>1, <2>1, <2>2, <2>3
<1>10. ASSUME \A u \in Units : Told(u) => Told(u)', main # "over", main' # "over",
              main' \in {"sweep", "gather"} => ctrlC' = "collect",
              main' = "drain" => ctrlC' = "collect" \/ completed' = Units
       PROVE  Gathering'
  BY <1>10 DEF Gathering
<1>11. ASSUME UNCHANGED <<at, unit, events>> \/ (CancelQueued /\ UNCHANGED <<unit, events>>)
       PROVE  \A u \in Units : Told(u) => Told(u)'
  BY <1>0, <1>11 DEF Told, CancelQueued, Endings
<1>12. ASSUME NEW u \in Units, Collect(u) \/ CollectRaises(u) \/ Gather(u) PROVE Gathering'
  BY <1>10, <1>11, <1>12 DEF Collect, CollectRaises, Gather, account, Gathering
<1>13. CASE Strike \/ Sweep \/ Gathered \/ AllCollected \/ ShutDown \/ Unwind
  BY <1>10, <1>11, <1>13 DEF Strike, Sweep, Gathered, AllCollected, ShutDown, Unwind, account, plan, Gathering
<1>14. CASE Assemble
  <2>1. /\ main = "drain" /\ main' = "over" /\ UNCHANGED <<at, completed, ctrlC>>
        /\ \A u \in Units : at[u] \in Settled
        /\ unit' = [u \in Units |-> Recorded(u)]
        /\ events' = [u \in Units |-> IF Recorded(u).ran THEN events[u] ELSE Append(events[u], Recorded(u).status)]
    BY <1>14 DEF Assemble
  <2>2. ctrlC = "collect" \/ completed = Units
    BY <2>1 DEF Gathering
  <2>3. ASSUME NEW u \in completed
        PROVE  IF unit'[u].ran
                 THEN /\ events'[u] = <<"started", unit'[u].status>>
                      /\ unit'[u].status \in Statuses \ {"unscheduled"}
               ELSE events'[u] = <<unit'[u].status>> /\ unit'[u].status \in {"interrupted", "unscheduled"}
    <3>1. at[u] = "done" /\ Told(u) /\ u \in Units
      BY <1>0, <2>1 DEF Gathering
    <3>2. unit'[u] = unit[u] /\ events'[u] = IF unit[u].ran THEN events[u] ELSE Append(events[u], unit[u].status)
      BY <2>1, <3>1 DEF Recorded
    <3> QED
      <4>1. CASE unit[u].ran
        BY <3>1, <3>2, <4>1 DEF Told
      <4>2. CASE ~unit[u].ran
        <5>1. events[u] = <<>> /\ unit[u].status \in {"interrupted", "unscheduled"}
          BY <3>1, <4>2 DEF Told
        <5>2. Append(<<>>, unit[u].status) = <<unit[u].status>>
          OBVIOUS
        <5> QED
          BY <3>2, <4>2, <5>1, <5>2
      <4> QED
        BY <4>1, <4>2
  <2>4. ASSUME NEW u \in Units \ completed PROVE unit'[u] = NeverRan("interrupted")
    BY <2>1 DEF Recorded
  <2> QED
    BY <1>0, <2>1, <2>2, <2>3, <2>4 DEF Gathering
<1>15. CASE Commands \/ UNCHANGED toolVars
  BY <1>15 DEF Commands, toolVars, plan, account, Gathering, Told
<1> QED
  BY <1>3, <1>4, <1>5, <1>6, <1>7, <1>8, <1>9, <1>12, <1>13, <1>14, <1>15
     DEF ToolNext, UnitGoesOn, CallerGoesOn, ChildExits, ChildTimesOut, ChildStopped, ChildStruck, Endings

LEMMA ToolInvariant == ToolSpec => []ToolInv
<1>1. ToolInit => ToolInv
  <2> SUFFICES ASSUME ToolInit PROVE ToolInv
    OBVIOUS
  <2> USE DEF ToolInit
  <2>1. ToolTypeOK
    <3>1. at \in [Units -> Active \cup Settled \cup {"queued"}]
      OBVIOUS
    <3>2. room \in [Units -> 0..Ceiling] /\ remaining \in 0..Budget /\ kept \in Nat /\ excess \in Nat
      BY ToolRunAssumption
    <3>3. unit \in [Units -> [status: Statuses \cup {"none"}, ran: BOOLEAN]]
      BY DEF Nothing
    <3>4. events \in [Units -> Seq(Statuses \cup {"started"})]
      OBVIOUS
    <3>5. cancel \in BOOLEAN /\ token \in BOOLEAN /\ lanePaused \in BOOLEAN
      BY Zenon
    <3> QED
      BY <3>1, <3>2, <3>3, <3>4, <3>5 DEF ToolTypeOK
  <2>2. Running = {} /\ Holding = {} /\ Due = {}
    <3>1. \A u \in Units : at[u] = "queued" /\ room[u] = 0
      OBVIOUS
    <3>2. "queued" \notin Active /\ "queued" \notin {"checkpoint", "open"}
      BY DEF Active, Endings
    <3>3. Running = {}
      BY <3>1, <3>2 DEF Running
    <3>4. Holding = {}
      BY <3>1 DEF Holding
    <3>5. Due = {}
      BY <3>1, <3>2 DEF Due
    <3> QED
      BY <3>3, <3>4, <3>5
  <2>3. InTurn
    BY <2>2, FS_EmptySet, ToolRunAssumption DEF InTurn, Slots
  <2>4. InFlight
    <3>1. 1 \in Units
      BY ToolRunAssumption DEF Units
    <3>2. Cardinality(Holding \ {1}) = 0
      BY <2>2, FS_EmptySet
    <3>3. (NJobs - 1) * Ceiling \in Nat
      BY ToolRunAssumption
    <3>4. kept + 2 * room[1] + 2 * (Cardinality(Holding \ {1}) * Ceiling) <= Budget + 2 * ((NJobs - 1) * Ceiling) + Ceiling
      BY <3>1, <3>2, <3>3, ToolRunAssumption
    <3>5. /\ \A u \in Units : room[u] > 0 => at[u] = "child"
          /\ \A u \in Units : at[u] = "child" /\ room[u] = 0 => remaining = 0
      OBVIOUS
    <3>6. remaining > 0 => kept = Budget - remaining
      BY ToolRunAssumption
    <3> QED
      BY <3>1, <3>4, <3>5, <3>6 DEF InFlight
  <2>5. LateStarts /\ Gathering
    BY DEF LateStarts, Gathering, IsCancelled, Told, Endings
  <2> QED
    BY <2>1, <2>3, <2>4, <2>5 DEF ToolInv
<1>2. ToolInv /\ [ToolNext]_toolVars => ToolInv'
  BY ToolTypesKept, InTurnKept, InFlightKept, LateStartsKept, GatheringKept DEF ToolInv
<1> QED
  BY <1>1, <1>2, PTL DEF ToolSpec

(* A tool's run keeps its types: ToolTypeOK.                               *)
THEOREM ToolTypeCorrect == ToolSpec => []ToolTypeOK
<1>1. ToolInv => ToolTypeOK
  BY DEF ToolInv
<1> QED
  BY <1>1, ToolInvariant, PTL

(* The budget of tool output is overdrawn by what was in flight, and no    *)
(* more: OutputBounded, of OutputBudget and output_room.                   *)
THEOREM OutputBoundedTheorem == ToolSpec => []OutputBounded
<1>1. ToolInv => OutputBounded
  <2> SUFFICES ASSUME ToolInv PROVE OutputBounded
    OBVIOUS
  <2>1. PICK last \in Units :
          kept + 2 * room[last] + 2 * (Cardinality(Holding \ {last}) * Ceiling)
             <= Budget + 2 * ((NJobs - 1) * Ceiling) + Ceiling
    BY DEF ToolInv, InFlight
  <2>2. /\ kept \in Nat /\ room[last] \in Nat /\ Cardinality(Holding \ {last}) \in Nat
        /\ Ceiling \in Nat /\ Budget \in Nat /\ NJobs \in Nat
    BY SomeUnits, ToolRunAssumption DEF ToolInv, ToolTypeOK, Holding
  <2>3. Cardinality(Holding \ {last}) * Ceiling \in Nat
    BY <2>2
  <2>4. (2 * NJobs - 1) * Ceiling = 2 * ((NJobs - 1) * Ceiling) + Ceiling
    BY <2>2
  <2> QED
    BY <2>1, <2>2, <2>3, <2>4 DEF OutputBounded
<1> QED
  BY <1>1, ToolInvariant, PTL

(* A stop is followed by one late start in a loop, and by one of each      *)
(* thread of a pool: FewLateStarts, of execute() and its checks.           *)
THEOREM FewLateStartsTheorem == ToolSpec => []FewLateStarts
<1>1. ToolInv => FewLateStarts
  <2> SUFFICES ASSUME ToolInv PROVE FewLateStarts
    OBVIOUS
  <2>1. late \in Nat /\ Slots \in Nat
    BY ToolRunAssumption DEF ToolInv, ToolTypeOK, Slots
  <2>2. Cardinality(Due) \in Nat
    BY SomeUnits DEF Due
  <2>3. late + Cardinality(Due) <= Slots \/ late = 0
    BY Zenon DEF ToolInv, LateStarts
  <2>4. late <= Slots
    BY <2>1, <2>2, <2>3
  <2> QED
    BY <2>4 DEF FewLateStarts, Slots
<1> QED
  BY <1>1, ToolInvariant, PTL

(* The record and the events tell one story of every unit: AccountAgrees,  *)
(* of the collecting of futures and the assembling of the record.          *)
THEOREM AccountAgreesTheorem == ToolSpec => []AccountAgrees
<1>1. ToolInv => AccountAgrees
  BY DEF ToolInv, Gathering, AccountAgrees
<1> QED
  BY <1>1, ToolInvariant, PTL

(* The tool's verdict is borne out by what happened to its processes:      *)
(* VerdictIsBorneOut, of aggregate_units over the record of run().         *)
THEOREM VerdictIsBorneOutTheorem == ToolSpec => []VerdictIsBorneOut
<1>1. ToolInv => VerdictIsBorneOut
  <2> SUFFICES ASSUME ToolInv, main = "over" PROVE VerdictIsBorneOut
    BY DEF VerdictIsBorneOut
  <2>1. ASSUME NEW u \in Units, unit[u].status \in {"completed", "partial"}
        PROVE  unit[u].ran /\ events[u] = <<"started", unit[u].status>>
    BY <2>1 DEF ToolInv, Gathering, NeverRan
  <2>2. Status = "completed" => \A u \in Units : events[u] = <<"started", "completed">>
    BY <2>1 DEF Status
  <2>3. Status \in {"completed", "partial"} => \E u \in Units : Valid(u) /\ unit[u].ran
    <3>1. 1 \in Units
      BY ToolRunAssumption DEF Units
    <3> QED
      BY <2>1, <3>1 DEF Status, Valid
  <2>4. ASSUME Status # "interrupted", NEW u \in Units
        PROVE  at[u] = "done" /\ events[u] # <<"started", "interrupted">>
    <3>1. unit[u].status # "interrupted"
      BY <2>4 DEF Status
    <3>2. u \in completed
      BY <3>1 DEF ToolInv, Gathering, NeverRan
    <3>3. CASE unit[u].ran
      <4>1. events[u] = <<"started", unit[u].status>>
        BY <3>2, <3>3 DEF ToolInv, Gathering
      <4> QED
        BY <3>1, <3>2, <4>1 DEF ToolInv, InTurn
    <3>4. CASE ~unit[u].ran
      <4>1. events[u] = <<unit[u].status>>
        BY <3>2, <3>4 DEF ToolInv, Gathering
      <4> QED
        BY <3>2, <4>1 DEF ToolInv, InTurn
    <3> QED
      BY <3>3, <3>4
  <2> QED
    BY <2>2, <2>3, <2>4 DEF VerdictIsBorneOut
<1> QED
  BY <1>1, ToolInvariant, PTL

=============================================================================
