------------------------------ MODULE Pipeline ------------------------------
(***************************************************************************)
(* One command-line run: _analyze of runner.py.                            *)
(*                                                                         *)
(* After the set-up two threads share one manifest: the calling thread     *)
(* runs the static tools and the build-context loop, a second one the LLM  *)
(* scan (_run_together).  Each publishes its half by serialising the whole *)
(* manifest, writing it to one temporary file and replacing the manifest   *)
(* with it.  Then the calling thread alone verifies the source, derives    *)
(* the review, decides the gate, exports, reports and publishes the run in *)
(* latest.json.                                                            *)
(*                                                                         *)
(* A run is stopped through its token (a front end) or by a signal: Ctrl+C *)
(* or SIGTERM, raised as KeyboardInterrupt in the calling thread wherever  *)
(* it is.                                                                  *)
(***************************************************************************)
EXTENDS Integers, Sequences

CONSTANTS
    NTools,         \* the requested tools, run in this order
    Rerunnable,     \* the tools whose units the build-context loop re-runs
    Rounds,         \* assist_rounds
    MaxFaults       \* bound: errors, writes of the manifest that fail included

ASSUME PipelineAssumption ==
    /\ NTools \in Nat \ {0} /\ Rounds \in Nat /\ MaxFaults \in Nat
    /\ Rerunnable \subseteq 1..NTools

VARIABLES
    options,        \* what the configuration enables
    manifest,       \* the manifest in memory
    disk,           \* manifest.json
    tmp,            \* .manifest.json.tmp
    snap,           \* snap[t]: what thread t has serialised
    lock,           \* manifest_lock: the thread that holds it
    pc,             \* pc[t]: where thread t is
    resume,         \* resume[t]: where it goes on after its save
    tool,           \* the tool being run, or re-run
    round,          \* rounds of the build-context loop done for it
    cancelled,      \* the run's token
    interrupted,    \* the static side's own flag
    failure,        \* failures[0] of _run_together
    paused,         \* the static lane is paused by the operator
    held,           \* the source was seen whole, and held still
    latest,         \* what latest.json says of this run
    struck,         \* where the signal struck; bound: one signal
    faults          \* errors that struck

vars == <<options, manifest, disk, tmp, snap, lock, pc, resume, tool, round, cancelled,
          interrupted, failure, paused, held, latest, struck, faults>>

Threads == {"main", "llm"}
Tools == 1..NTools
Final == {"completed", "partial", "failed", "not_applicable"}
ToolStatuses == Final \cup {"not_requested", "running", "skipped", "missing", "interrupted"}
None == [status |-> "none"]     \* no such file

(* How a run ends: "returned" with the manifest's exit code, "raised" with *)
(* an error, "killed" by a signal nothing caught (the command line exits   *)
(* with 130 then), "early", before there was a run directory.              *)
Ends == {"returned", "raised", "killed", "early"}
Ended == pc["main"] \in Ends
StaticPoints == {"tool", "work", "context", "ask", "rerun", "record", "wrapUp"}

Options == [llm : BOOLEAN, review : BOOLEAN, export : BOOLEAN, assist : BOOLEAN]

Init ==
    /\ options \in Options
    /\ manifest = [status |-> "running", exit |-> -1, gate |-> FALSE,
                   tools |-> [t \in Tools |-> "not_requested"], llm |-> "not_requested",
                   review |-> IF options.review THEN "pending" ELSE "disabled",
                   export |-> IF options.export THEN "pending" ELSE "disabled"]
    /\ disk = None /\ tmp = None /\ latest = None
    /\ snap = [t \in Threads |-> None]
    /\ lock = "free"
    /\ pc = [main |-> "setup", llm |-> "over"]
    /\ resume = [t \in Threads |-> "none"]
    /\ tool = 1 /\ round = 0
    /\ cancelled = FALSE /\ interrupted = FALSE /\ paused = FALSE
    /\ failure = "none"
    /\ held = FALSE
    /\ struck = "none" /\ faults = 0
-----------------------------------------------------------------------------
(* Saving: serialise, write the temporary file, replace.                   *)

Going(t, place) == pc' = [pc EXCEPT ![t] = place]

(* Variant: the manifest is serialised and written without the lock.       *)
Enter_Unlocked(t) == UNCHANGED lock

(* The lock spans the change, the serialisation and the replacement.       *)
Enter(t) == lock = "free" /\ lock' = t

(* Thread t changes the manifest to m and serialises it; then it goes on   *)
(* at the given place.                                                     *)
Publish(t, m, place) ==
    /\ manifest' = m
    /\ snap' = [snap EXCEPT ![t] = m]
    /\ Going(t, "write")
    /\ resume' = [resume EXCEPT ![t] = place]
    /\ UNCHANGED <<options, disk, tmp, latest>>

(* The save is over, one way or another.                                   *)
Saved(t) ==
    /\ lock' = IF lock = t THEN "free" ELSE lock
    /\ snap' = [snap EXCEPT ![t] = None] /\ resume' = [resume EXCEPT ![t] = "none"]

Write(t) ==
    /\ pc[t] = "write"
    /\ tmp' = snap[t]
    /\ Going(t, "replace")
    /\ UNCHANGED <<options, manifest, disk, snap, lock, resume, tool, round, cancelled,
                   interrupted, failure, paused, held, latest, struck, faults>>

Replace(t) ==
    /\ pc[t] = "replace" /\ tmp # None
    /\ disk' = tmp /\ tmp' = None
    /\ Going(t, resume[t])
    /\ Saved(t)
    /\ UNCHANGED <<options, manifest, tool, round, cancelled, interrupted,
                   failure, paused, held, latest, struck, faults>>

InStatic ==
    \/ pc["main"] \in StaticPoints
    \/ pc["main"] \in {"write", "replace"} /\ resume["main"] \in StaticPoints

Failed(kind) == failure' = IF failure = "none" THEN kind ELSE failure

(* An error ends the LLM's thread; the static side holds it until the      *)
(* other side is down; outside the window it ends the run.                 *)
Raise(t) ==
    /\ UNCHANGED cancelled
    /\ IF t = "llm" THEN Going(t, "over") /\ Failed("llm")
       ELSE IF InStatic /\ options.llm
              THEN Going(t, "join") /\ Failed("static")
              ELSE Going(t, "raised") /\ UNCHANGED failure

(* The disk refuses the write, or somebody else replaced the temporary     *)
(* file: the save raises.                                                  *)
SaveFails(t) ==
    /\ \/ pc[t] = "write" /\ faults < MaxFaults /\ faults' = faults + 1
       \/ pc[t] = "replace" /\ tmp = None /\ UNCHANGED faults
    /\ Raise(t)
    /\ Saved(t)
    /\ UNCHANGED <<options, manifest, disk, tmp, tool, round, interrupted,
                   paused, held, latest, struck>>
-----------------------------------------------------------------------------
(* The set-up and the static side.                                         *)

static == <<tool, round, cancelled, interrupted, failure, paused, held, struck, faults>>

(* The run directory and its first manifest; then both sides start.        *)
SetUp ==
    /\ pc["main"] = "setup" /\ ~cancelled
    /\ Enter("main")
    /\ Publish("main", manifest, "start")
    /\ UNCHANGED static

(* AnalysisCancelled: before a report directory exists.                    *)
CancelledEarly ==
    /\ pc["main"] = "setup" /\ cancelled
    /\ Going("main", "early")
    /\ UNCHANGED <<options, manifest, disk, tmp, snap, lock, resume, latest, static>>

Start ==
    /\ pc["main"] = "start"
    /\ pc' = [main |-> "tool", llm |-> IF options.llm THEN "begin" ELSE "over"]
    /\ interrupted' = cancelled
    /\ UNCHANGED <<options, manifest, disk, tmp, snap, lock, resume, tool, round, cancelled,
                   failure, paused, held, latest, struck, faults>>

(* run_process catches a signal that strikes while its process runs.       *)
Caught(signal, place) ==
    IF signal THEN struck = "none" /\ struck' = place ELSE UNCHANGED struck

WithTool(t, status) == [manifest EXCEPT !.tools[t] = status]

(* Where the static side goes after this tool.                             *)
PointAfter(stop) ==
    IF tool < NTools THEN "tool"
    ELSE IF options.assist /\ ~stop /\ ~cancelled THEN "context" ELSE "wrapUp"

NextTool == tool' = IF tool < NTools THEN tool + 1 ELSE 1

(* Variant: a paused lane waits for its operator, stopped or not.          *)
AtCheckpoint_Deaf == pc["main"] = "tool" /\ ~paused

(* checkpoint: waits while the lane is paused and the run not cancelled.   *)
AtCheckpoint == pc["main"] = "tool" /\ (~paused \/ cancelled)

(* Skipped by the operator, missing or incompatible.                       *)
NotRun ==
    /\ AtCheckpoint
    /\ \/ ~cancelled /\ Enter("main") /\ Publish("main", WithTool(tool, "skipped"), PointAfter(interrupted))
       \/ ~cancelled /\ ~interrupted /\ Enter("main") /\ Publish("main", WithTool(tool, "missing"), PointAfter(interrupted))
    /\ NextTool
    /\ UNCHANGED <<round, cancelled, interrupted, failure, paused, held, struck, faults>>

(* The stop was seen before the tool started: noted, not yet saved.        *)
Interrupt ==
    /\ AtCheckpoint
    /\ interrupted \/ cancelled
    /\ lock = "free"
    /\ interrupted' = TRUE
    /\ manifest' = WithTool(tool, "interrupted")
    /\ Going("main", PointAfter(TRUE))
    /\ NextTool
    /\ UNCHANGED <<options, disk, tmp, snap, lock, resume, round, cancelled, failure,
                   paused, held, latest, struck, faults>>

(* The placeholder is on disk before the tool starts.                      *)
StartTool ==
    /\ AtCheckpoint
    /\ ~cancelled /\ ~interrupted
    /\ Enter("main")
    /\ Publish("main", WithTool(tool, "running"), "work")
    /\ UNCHANGED static

(* The adapter returned or raised.  A signal that is caught makes an        *)
(* interrupted unit.                                                       *)
EndTool ==
    /\ pc["main"] = "work"
    /\ \E status \in Final \cup {"interrupted"}, signal \in BOOLEAN :
         /\ status = "interrupted" => signal \/ cancelled
         /\ signal => status = "interrupted"
         /\ Caught(signal, "tool")
         /\ interrupted' = (status = "interrupted")
         /\ Enter("main")
         /\ Publish("main", WithTool(tool, status), PointAfter(status = "interrupted"))
    /\ NextTool
    /\ UNCHANGED <<round, cancelled, failure, paused, held, faults>>
-----------------------------------------------------------------------------
(* The build-context loop, inside the static side.                         *)

Rank == [failed |-> 0, partial |-> 1, completed |-> 2]
Unfinished == {t \in Rerunnable : manifest.tools[t] \in {"failed", "partial"}}

(* The head of a round, for a tool that ran and can re-run.                *)
AtRound ==
    pc["main"] = "context" /\ tool \in Rerunnable /\ manifest.tools[tool] \in Final /\ round < Rounds

(* A tool with units to re-run gets a patch, which is tried on some of     *)
(* them, and the operator is asked (or the policy answers by itself).      *)
(* Nothing remembers a signal that the process of the trial catches.       *)
Propose ==
    /\ AtRound /\ ~cancelled
    /\ tool \in Unfinished
    /\ \E signal \in BOOLEAN : Caught(signal, "context")
    /\ Going("main", "ask")
    /\ UNCHANGED <<options, manifest, disk, tmp, snap, lock, resume, latest, tool, round,
                   cancelled, interrupted, failure, paused, held, faults>>

(* This tool needs no other context, or the tree proves nothing.           *)
PassOver ==
    /\ pc["main"] = "context" /\ (AtRound => ~cancelled)
    /\ IF tool < NTools THEN tool' = tool + 1 /\ round' = 0 /\ Going("main", "context")
                        ELSE UNCHANGED <<tool, round>> /\ Going("main", "record")
    /\ UNCHANGED <<options, manifest, disk, tmp, snap, lock, resume, cancelled, interrupted,
                   failure, paused, held, latest, struck, faults>>

(* The loop's head sees the stop and leaves, its outcome unrecorded.       *)
LeaveLoop ==
    /\ AtRound /\ cancelled
    /\ Going("main", "wrapUp")
    /\ UNCHANGED <<options, manifest, disk, tmp, snap, lock, resume, latest, static>>

(* The decision: apply and re-run, or reject, which a stop answers too.    *)
Decide ==
    /\ pc["main"] = "ask"
    /\ \/ Going("main", "rerun") /\ UNCHANGED <<tool, round>>
       \/ Going("main", "context") /\ round' = Rounds /\ UNCHANGED tool
    /\ UNCHANGED <<options, manifest, disk, tmp, snap, lock, resume, cancelled, interrupted,
                   failure, paused, held, latest, struck, faults>>

(* The re-run's units are merged: a unit is superseded by one that did at  *)
(* least as well, so an interrupted re-run changes nothing: nothing        *)
(* remembers a signal caught here.                                         *)
EndRerun ==
    /\ pc["main"] = "rerun"
    /\ \E status \in DOMAIN Rank, signal \in BOOLEAN :
         /\ Rank[status] >= Rank[manifest.tools[tool]]
         /\ signal => status = manifest.tools[tool]
         /\ Caught(signal, "context")
         /\ Enter("main")
         /\ Publish("main", WithTool(tool, status), "context")
    /\ \E r \in {round + 1, Rounds} : round' = r
    /\ UNCHANGED <<tool, cancelled, interrupted, failure, paused, held, faults>>

(* The adapter raises: nothing is merged, this tool's rounds are over.      *)
RerunFails ==
    /\ pc["main"] = "rerun"
    /\ Going("main", "context") /\ round' = Rounds
    /\ UNCHANGED <<options, manifest, disk, tmp, snap, lock, resume, tool, cancelled, interrupted,
                   failure, paused, held, latest, struck, faults>>

(* An error between the saves: asking a tool for its version, trying a     *)
(* patch, writing down the configuration that was applied.                 *)
StaticRaises ==
    /\ \/ AtCheckpoint /\ ~cancelled /\ ~interrupted
       \/ pc["main"] = "context" /\ tool \in Rerunnable /\ manifest.tools[tool] \in Final
    /\ faults < MaxFaults /\ faults' = faults + 1
    /\ Raise("main")
    /\ UNCHANGED <<options, manifest, disk, tmp, snap, lock, resume, tool, round, interrupted,
                   paused, held, latest, struck>>

(* manifest["build_context"] is recorded.                                  *)
Record ==
    /\ pc["main"] = "record"
    /\ Enter("main")
    /\ Publish("main", manifest, "wrapUp")
    /\ UNCHANGED static

(* run_static returns; nothing looks at its locals and its lane any more.  *)
WrapUp ==
    /\ pc["main"] = "wrapUp"
    /\ Going("main", "join")
    /\ tool' = 1 /\ round' = 0 /\ paused' = FALSE
    /\ UNCHANGED <<options, manifest, disk, tmp, snap, lock, resume, cancelled, interrupted,
                   failure, held, latest, struck, faults>>

Static ==
    \/ SetUp \/ CancelledEarly \/ Start \/ NotRun \/ Interrupt \/ StartTool \/ EndTool
    \/ Propose \/ PassOver \/ LeaveLoop \/ EndRerun \/ RerunFails \/ StaticRaises
    \/ Record \/ WrapUp
-----------------------------------------------------------------------------
(* The LLM side.                                                           *)

BeginScan ==
    /\ pc["llm"] = "begin"
    /\ Enter("llm")
    /\ Publish("llm", [manifest EXCEPT !.llm = "running"], "scan")
    /\ UNCHANGED static

EndScan ==
    /\ pc["llm"] = "scan"
    /\ \E status \in {"completed", "partial", "failed", "interrupted"} :
         /\ status = "interrupted" => cancelled
         /\ Enter("llm")
         /\ Publish("llm", [manifest EXCEPT !.llm = status], "over")
    /\ UNCHANGED static
-----------------------------------------------------------------------------
(* After the window.                                                       *)

Main(from, to) == pc["main"] = from /\ Going("main", to)

(* worker.join: the other side is down.                                    *)
Joined == pc["llm"] = "over"

(* failures[0] is raised: an error ends the run, a signal finishes it.     *)
Join ==
    /\ Joined
    /\ Main("join",
            IF failure \in {"static", "llm"} THEN "raised"
            ELSE IF failure = "signal" \/ interrupted \/ cancelled \/ manifest.llm = "interrupted"
              THEN "finish" ELSE "stability")
    /\ cancelled' = (cancelled \/ failure = "signal")
    /\ UNCHANGED <<options, manifest, disk, tmp, snap, lock, resume, tool, round, interrupted,
                   failure, paused, held, latest, struck, faults>>

(* status.overall.  A partial or completed tool left a valid report, and a *)
(* failed one none; stable stands for the two walks of the source.         *)
Overall(stable, export, review) ==
    LET Is(t, statuses) == manifest.tools[t] \in statuses
        Complete ==
            /\ \E t \in Tools : ~Is(t, {"not_applicable"})
            /\ \A t \in Tools : Is(t, {"completed", "not_applicable"})
            /\ stable
            /\ export \in {"completed", "disabled"} /\ review \in {"completed", "disabled"}
    IN IF \E t \in Tools : Is(t, {"interrupted"}) THEN [status |-> "interrupted", exit |-> 130]
       ELSE IF Complete THEN [status |-> "complete", exit |-> 0]
       ELSE IF \E t \in Tools : Is(t, {"completed", "partial"}) THEN [status |-> "partial", exit |-> 10]
       ELSE [status |-> "failed", exit |-> 20]

Judged(m, verdict) == [m EXCEPT !.status = verdict.status, !.exit = verdict.exit]

(* A run that was complete so far is partial after all.                    *)
Lowered(m) ==
    IF m.exit \in {0, 1} THEN [m EXCEPT !.status = "partial", !.exit = 10] ELSE m
Decided(m, to) == manifest' = m /\ Going("main", to)
rest == <<options, disk, tmp, snap, lock, resume, tool, round, cancelled, interrupted, failure,
          paused, latest, struck, faults>>

(* The source is walked again; the verdict foresees the export's success.  *)
Verify ==
    /\ pc["main"] = "stability" /\ ~cancelled
    /\ held' \in BOOLEAN
    /\ Decided(Judged(manifest, Overall(held', IF options.export THEN "completed" ELSE "disabled", "disabled")),
              IF options.review THEN "review" ELSE "gate")
    /\ UNCHANGED rest

(* The review is derived, is partial, or fails: a stop makes it fail.      *)
Review ==
    /\ pc["main"] = "review"
    /\ \/ Decided([manifest EXCEPT !.review = "completed"], "gate")
       \/ Decided([Lowered(manifest) EXCEPT !.review = "partial", !.gate = FALSE], "gate")
       \/ Decided([Lowered(manifest) EXCEPT !.review = "failed"], "gate")
    /\ UNCHANGED <<rest, held>>

(* The gate, from a review there is, on a complete run; then a save.       *)
Gate ==
    /\ pc["main"] = "gate" /\ ~cancelled
    /\ Enter("main")
    /\ \E fails \in BOOLEAN :
         /\ fails => manifest.exit = 0 /\ manifest.review \in {"completed", "partial"}
         /\ Publish("main",
                    IF fails THEN [manifest EXCEPT !.gate = TRUE, !.exit = 1] ELSE manifest,
                    IF options.export THEN "export" ELSE "report")
    /\ UNCHANGED static

(* Variant: a successful export lifts the verdict without the review's.    *)
ExportSucceeds_NoReview ==
    LET verdict == Overall(held, "completed", "disabled")
        m == Judged([manifest EXCEPT !.export = "completed"], verdict)
    IN [m EXCEPT !.gate = @ /\ verdict.status = "complete",
                 !.exit = IF m.gate /\ verdict.status = "complete" THEN 1 ELSE @]

ExportSucceeds ==
    LET verdict == Overall(held, "completed", manifest.review)
        m == Judged([manifest EXCEPT !.export = "completed"], verdict)
    IN [m EXCEPT !.gate = @ /\ verdict.status = "complete",
                 !.exit = IF m.gate /\ verdict.status = "complete" THEN 1 ELSE @]

ExportFails ==
    [Judged([manifest EXCEPT !.export = "failed"], Overall(held, "failed", manifest.review))
        EXCEPT !.gate = FALSE]

(* The export is made or fails (a stop makes it fail).                     *)
Export ==
    /\ pc["main"] = "export"
    /\ Decided(ExportSucceeds, "report") \/ Decided(ExportFails, "report")
    /\ UNCHANGED <<rest, held>>

(* The dashboard is rendered from the final manifest, which is saved.      *)
Report ==
    /\ pc["main"] = "report" /\ ~cancelled
    /\ Enter("main")
    /\ Publish("main", manifest, "publish")
    /\ UNCHANGED static

(* A check of the token between the stages sees the stop.                  *)
StageStopped ==
    /\ pc["main"] \in {"stability", "gate", "report"} /\ cancelled
    /\ Going("main", "finish")
    /\ UNCHANGED <<options, manifest, disk, tmp, snap, lock, resume, latest, static>>

(* A run nobody can find is not complete.                                  *)
Unpublished(m) == IF m.exit \in {0, 1} THEN [Lowered(m) EXCEPT !.gate = FALSE] ELSE m

Said(m) == [status |-> m.status, exit |-> m.exit]

(* latest.json names the run and its verdict.                              *)
PublishLatest ==
    /\ Main("publish", "returned")
    /\ latest' = Said(manifest)
    /\ UNCHANGED <<options, manifest, disk, tmp, snap, lock, resume, static>>

(* It cannot be written.                                                   *)
PublishFails ==
    /\ pc["main"] = "publish"
    /\ Enter("main")
    /\ Publish("main", Unpublished(manifest), "returned")
    /\ UNCHANGED static

(* Variant: a tool caught in its work keeps the placeholder.               *)
Closed_NotRunning(status) == IF status = "not_requested" THEN "interrupted" ELSE status

Closed(status) == IF status \in {"not_requested", "running"} THEN "interrupted" ELSE status

(* _finish_interrupted; it takes no lock.  It saves, renders the dashboard *)
(* from what it saved and saves again, with the page among the artifacts.  *)
Finish ==
    /\ pc["main"] = "finish"
    /\ Publish("main",
               [status |-> "interrupted", exit |-> 130, gate |-> FALSE,
                tools |-> [t \in Tools |-> Closed(manifest.tools[t])],
                llm |-> IF manifest.llm = "running" THEN "interrupted" ELSE manifest.llm,
                review |-> IF options.review THEN "interrupted" ELSE "disabled",
                export |-> IF options.export THEN "failed" ELSE "disabled"],
               "rendered")
    /\ UNCHANGED <<lock, static>>

FinishAgain ==
    /\ pc["main"] = "rendered"
    /\ Publish("main", manifest, "finished")
    /\ UNCHANGED <<lock, static>>

(* If latest.json cannot be written the error is saved, in one more write  *)
(* of what is on disk already: left out, with its failure.                 *)
FinishPublishes ==
    /\ Main("finished", "returned")
    /\ latest' = Said(manifest) \/ UNCHANGED latest
    /\ UNCHANGED <<options, manifest, disk, tmp, snap, lock, resume, static>>

Stages ==
    \/ Join \/ Verify \/ Review \/ Gate \/ Export \/ Report \/ StageStopped
    \/ PublishLatest \/ PublishFails
    \/ Finish \/ FinishAgain \/ FinishPublishes
-----------------------------------------------------------------------------
(* The operator and the supervisor.                                        *)

(* A front end cancels the run's token.                                    *)
Cancel ==
    /\ ~cancelled /\ ~Ended
    /\ cancelled' = TRUE
    /\ UNCHANGED <<options, manifest, disk, tmp, snap, lock, pc, resume, tool, round, interrupted,
                   failure, paused, held, latest, struck, faults>>

(* The pause is looked at at a checkpoint; it need not change elsewhere.   *)
TogglePause ==
    /\ pc["main"] = "tool"
    /\ paused' = ~paused
    /\ UNCHANGED <<options, manifest, disk, tmp, snap, lock, pc, resume, tool, round, cancelled,
                   interrupted, failure, held, latest, struck, faults>>

(* KeyboardInterrupt on the static side, an adapter's own code included:   *)
(* it tells the other side, waits for it, and is raised again (or at once, *)
(* without another side).                                                  *)
SignalStatic ==
    /\ InStatic /\ struck' = "static"
    /\ cancelled' = TRUE
    /\ IF options.llm THEN Going("main", "join") /\ Failed("signal")
                      ELSE Going("main", "finish") /\ UNCHANGED failure
    /\ Saved("main")

(* In the wait for the other side: the run is finished without waiting on, *)
(* beside a scan that still runs ("join") unless it is over ("joined").    *)
SignalJoin ==
    /\ pc["main"] = "join" /\ struck' = IF Joined THEN "joined" ELSE "join"
    /\ cancelled' = TRUE
    /\ Going("main", "finish")
    /\ UNCHANGED <<failure, lock, snap, resume>>

(* Before or after the window nothing catches it but the command line.     *)
SignalOutside ==
    /\ ~InStatic /\ pc["main"] # "join" /\ ~Ended
    /\ struck' = "outside"
    /\ Going("main", "killed")
    /\ Saved("main")
    /\ UNCHANGED <<cancelled, failure>>

Signal ==
    /\ struck = "none"
    /\ SignalStatic \/ SignalJoin \/ SignalOutside
    /\ UNCHANGED <<options, manifest, disk, tmp, tool, round, interrupted,
                   paused, held, latest, faults>>

Saving(t) == Write(t) \/ Replace(t) \/ SaveFails(t)
MainNext == Static \/ Stages \/ Saving("main")
LlmNext == BeginScan \/ EndScan \/ Saving("llm")
Next == MainNext \/ Decide \/ LlmNext \/ Cancel \/ TogglePause \/ Signal

Spec == Init /\ [][Next]_vars

(* Both threads run.  A tool ends by its timeout; an answer to a decision  *)
(* and the end of a scan are promised only once the token is cancelled:    *)
(* an operator may never answer, and may leave the model lane paused.  (A  *)
(* front end that brings a decider of its own must end its question then;  *)
(* the runner does not look at the token while it asks.)                   *)
Fairness ==
    /\ WF_vars(MainNext \/ (Decide /\ cancelled))
    /\ WF_vars(BeginScan \/ Saving("llm") \/ (EndScan /\ cancelled))

FairSpec == Spec /\ Fairness
-----------------------------------------------------------------------------
Verdicts == {<<"running", -1>>, <<"complete", 0>>, <<"complete", 1>>, <<"partial", 10>>,
             <<"failed", 20>>, <<"interrupted", 130>>}

Manifests ==
    [status : {"running", "complete", "partial", "failed", "interrupted"},
     exit : {-1, 0, 1, 10, 20, 130}, gate : BOOLEAN, tools : [Tools -> ToolStatuses],
     llm : {"not_requested", "running", "completed", "partial", "failed", "interrupted"},
     review : {"pending", "disabled", "completed", "partial", "failed", "interrupted"},
     export : {"pending", "disabled", "completed", "failed"}]

Points == {"tool", "work", "context", "ask", "rerun", "record", "wrapUp", "setup", "start",
           "join", "stability", "review", "gate", "export", "report", "publish", "finish",
           "rendered", "finished", "begin", "scan", "over"} \cup Ends

(* The variables have their types.                                         *)
TypeOK ==
    /\ options \in Options
    /\ manifest \in Manifests
    /\ disk \in Manifests \cup {None} /\ tmp \in Manifests \cup {None}
    /\ snap \in [Threads -> Manifests \cup {None}]
    /\ lock \in Threads \cup {"free"}
    /\ pc \in [Threads -> Points \cup {"write", "replace"}]
    /\ resume \in [Threads -> Points \cup {"none"}]
    /\ tool \in Tools /\ round \in 0..Rounds /\ faults \in 0..MaxFaults
    /\ cancelled \in BOOLEAN /\ interrupted \in BOOLEAN /\ paused \in BOOLEAN /\ held \in BOOLEAN
    /\ failure \in {"none", "static", "llm", "signal"}
    /\ struck \in {"none", "tool", "context", "static", "join", "joined", "outside"}

(* Whenever the run is looked at, or dies: the manifest on disk says       *)
(* complete only of a run whose every tool completed, over a source that   *)
(* held still, with its review done; a gate has failed exactly when the    *)
(* exit code says so; word and code belong together; and a complete run    *)
(* that has returned was exported.                                         *)
VerdictIsEarned ==
    disk # None =>
      /\ disk.status = "complete" =>
           /\ \A t \in Tools : disk.tools[t] \in {"completed", "not_applicable"}
           /\ disk.llm # "running" /\ held
           /\ disk.review \in {"completed", "disabled"}
           /\ pc["main"] = "returned" => disk.export \in {"completed", "disabled"}
      /\ disk.gate <=> disk.exit = 1
      /\ <<disk.status, disk.exit>> \in Verdicts

(* Two threads publish one manifest and neither loses what the other has   *)
(* published; the only error of a run costs it the half of the side that   *)
(* erred, never the other's.  A signal that strikes in the wait for a      *)
(* scan that still runs breaks off the window, and the claim.              *)
HalvesOnDisk == struck # "join" =>
    /\ pc["main"] = "stability" => disk.tools = manifest.tools /\ disk.llm = manifest.llm
    /\ pc["main"] = "raised" /\ failure = "static" /\ faults = 1 => disk.llm = manifest.llm
    /\ pc["main"] = "raised" /\ failure = "llm" /\ faults = 1 /\ struck = "none" =>
         \A t \in Tools : disk.tools[t] = manifest.tools[t] \/ manifest.tools[t] = "interrupted"

(* A run that has returned leaves a true account: no tool and no scan is   *)
(* left as running, or as if nobody had asked for it; the exit code is the *)
(* manifest's; and what latest.json says of the run is what the manifest   *)
(* says.  Except after a signal that strikes in the wait for a scan that   *)
(* still runs, be it the first and only one: the run is closed beside the  *)
(* scan, whose next save may put back an older manifest or say "running".  *)
(* What the run returns, what latest.json says, if it says anything, and   *)
(* what is in memory of the tools are the interruption's even then.        *)
AccountIsTrue ==
    pc["main"] = "returned" =>
      /\ latest # None => latest = Said(manifest)
      /\ \A t \in Tools : manifest.tools[t] \notin {"running", "not_requested"}
      /\ struck = "join" => Said(manifest) = [status |-> "interrupted", exit |-> 130]
      /\ struck # "join" =>
           /\ disk.tools = manifest.tools /\ Said(disk) = Said(manifest)
           /\ options.llm => disk.llm \notin {"running", "not_requested"}

(* The checks of the token are behind the run.                             *)
LastCheckPassed ==
    \/ pc["main"] = "publish"
    \/ pc["main"] \in {"write", "replace"} /\ resume["main"] \in {"publish", "returned"}

(* A run whose token is cancelled before its last check ends, interrupted  *)
(* and with 130, also when its lanes are paused or it waits for a decision *)
(* nobody makes; unless an error, or a signal, ends it.                    *)
StopEnds ==
    (cancelled /\ ~LastCheckPassed /\ ~Ended) ~>
      \/ pc["main"] \in {"early", "raised", "killed"} \/ (Ended /\ struck = "join")
      \/ pc["main"] = "returned" /\ disk.status = "interrupted" /\ disk.exit = 130

(* "Ctrl-C during the window has to reach the thread it did not land on":  *)
(* a static side that was interrupted waits for a side that was told.      *)
BothSidesHear == pc["main"] = "join" /\ interrupted => cancelled
=============================================================================
