------------------------------ MODULE ToolRun ------------------------------
(***************************************************************************)
(* One run of a native tool: its units, the processes they start and the   *)
(* account that is made of them (tools/splint.py, cppcheck.py,             *)
(* flawfinder.py, common.py, adapter.py; process.py; status.py;            *)
(* RunControl.checkpoint).                                                 *)
(*                                                                         *)
(* cppcheck, flawfinder and splint with one job run their units in the     *)
(* calling thread, one after the other ("loop"); splint with more jobs     *)
(* hands them to a thread pool and collects the futures ("pool").  In      *)
(* between stand the operator, who pauses, skips and stops, the deadline,  *)
(* and Ctrl+C, which strikes the calling thread.                           *)
(***************************************************************************)
EXTENDS Integers, Sequences, FiniteSets, FiniteSetsExt

CONSTANTS
    NUnits,         \* units of the plan
    NJobs,          \* threads of the pool
    Budget,         \* OutputBudget of the run (RUN_OUTPUT_BYTES)
    Ceiling,        \* what one stream of a process may store (MAX_OUTPUT_BYTES)
    Flood           \* what a runaway stream writes

ASSUME ToolRunAssumption ==
    /\ NUnits \in Nat \ {0} /\ NJobs \in Nat \ {0, 1}
    /\ Budget \in Nat /\ Ceiling \in Nat \ {0} /\ Flood \in Nat

VARIABLES
    mode,       \* "loop" or "pool"
    at,         \* at[u]: where unit u is
    room,       \* room[u]: max_output_bytes of its process
    remaining,  \* OutputBudget._remaining
    kept,       \* history: what the processes stored that had room
    excess,     \* history: what those stored that had none
    unit,       \* unit[u]: the record its execution made
    events,     \* events[u]: started, and how it ended, as announced
    completed,  \* the units whose future was collected
    main,       \* where the calling thread is
    ctrlC,      \* where Ctrl+C struck; bound: one signal
    cancel,     \* the pool's own event
    late,       \* history: the processes started after a stop
    token,      \* the run's token is cancelled
    lanePaused  \* the static lane is paused

plan == <<mode, completed, main, ctrlC>>
stops == <<cancel, late>>
operator == <<token, lanePaused>>
process == <<room, remaining, kept, excess>>
account == <<unit, events>>
toolVars == <<plan, operator, process, account, at, stops>>

Units == 1..NUnits

(* A unit that starts nothing, and the two ends of a future.               *)
Endings == {"exited", "timed out", "stopped"}     \* of a process
Active == {"begin", "checkpoint", "open", "child"} \cup Endings
Settled == {"done", "cancelled", "raised"}
Nothing == [status |-> "none", ran |-> FALSE]
NeverRan(status) == [status |-> status, ran |-> FALSE]

ToolInit ==
    /\ mode \in {"loop", "pool"}
    /\ at = [u \in Units |-> "queued"]
    /\ room = [u \in Units |-> 0]
    /\ remaining = Budget /\ kept = 0 /\ excess = 0
    /\ unit = [u \in Units |-> Nothing]
    /\ events = [u \in Units |-> <<>>]
    /\ completed = {}
    /\ main = "collect" /\ ctrlC = "none"
    /\ late = 0 /\ cancel = FALSE /\ token = FALSE /\ lanePaused = FALSE

Go(u, from, to) == at[u] = from /\ at' = [at EXCEPT ![u] = to]

IsCancelled == cancel \/ token
-----------------------------------------------------------------------------
(* execute(): one unit, in its thread.                                     *)

(* A free thread takes the first unit; the loop goes on when the last one  *)
(* is accounted for.                                                       *)
Take(u) ==
    /\ Go(u, "queued", "begin")
    /\ \A v \in Units : v < u => at[v] # "queued"
    /\ IF mode = "pool" THEN Cardinality({v \in Units : at[v] \in Active}) < NJobs
                        ELSE main = "collect" /\ \A v \in 1..(u - 1) : v \in completed
    /\ UNCHANGED <<plan, operator, process, account, stops>>

(* A unit that never runs: the future ends with such a record.             *)
Settle(u, record) == unit' = [unit EXCEPT ![u] = record] /\ UNCHANGED events

(* Variant: only the lane's checkpoint looks for a stop.                   *)
Begin_Unchecked(u) ==
    /\ Go(u, "begin", "checkpoint")
    /\ UNCHANGED <<plan, operator, process, account, stops>>

(* is_cancelled(), asked before anything else.                             *)
Begin(u) ==
    /\ IF IsCancelled THEN Go(u, "begin", "done") /\ Settle(u, NeverRan("interrupted"))
                      ELSE Go(u, "begin", "checkpoint") /\ UNCHANGED account
    /\ UNCHANGED <<plan, operator, process, stops>>

(* Variant: a paused lane waits, stopped or not.                           *)
Waits_Deaf == lanePaused

(* RunControl.checkpoint waits out a pause.                                *)
Waits == lanePaused /\ ~token

(* The run was stopped; or the operator skipped the unit or the tool, or   *)
(* the tool's deadline has passed: that may be so of any unit.             *)
TurnedAway(u) ==
    /\ ~Waits
    /\ Go(u, "checkpoint", "done")
    /\ Settle(u, NeverRan(IF token THEN "interrupted" ELSE "unscheduled"))
    /\ UNCHANGED <<plan, operator, process, stops>>

(* The unit's directory is made and its start announced.                   *)
Announce(u) ==
    /\ ~Waits /\ ~token
    /\ Go(u, "checkpoint", "open")
    /\ events' = [events EXCEPT ![u] = Append(@, "started")]
    /\ UNCHANGED <<plan, operator, process, unit, stops>>

(* The directory cannot be made, or the executable cannot be started: the  *)
(* exception leaves execute().                                             *)
FailToStart(u) ==
    /\ at[u] \in {"checkpoint", "open"}
    /\ at[u] = "checkpoint" => ~Waits /\ ~token
    /\ at' = [at EXCEPT ![u] = "raised"]
    /\ UNCHANGED <<plan, operator, process, account, stops>>

(* output_room, then Popen: what is left of the run's budget is looked at  *)
(* here and charged when the process has ended.                            *)
OutputRoom == Min({Ceiling, remaining})

Open(u) ==
    /\ Go(u, "open", "child")
    /\ room' = [room EXCEPT ![u] = OutputRoom]
    /\ late' = IF IsCancelled THEN late + 1 ELSE late
    /\ UNCHANGED <<plan, operator, remaining, kept, excess, account, cancel>>
-----------------------------------------------------------------------------
(* run_process, and the charge.                                            *)

(* absorb: a stream stores up to its room; a room of 0 is no limit.        *)
Kept(u, written) == IF room[u] <= 0 THEN written ELSE Min({room[u], written})

(* Variant: what a process kept is not charged.                            *)
Spend_Nothing(total) == UNCHANGED remaining

(* OutputBudget.spend.                                                     *)
Spend(total) == remaining' = Max({0, remaining - total})

(* The child is gone and both its pipes are drained or given up; a quiet   *)
(* process stores nothing, a runaway one what it may.                      *)
ChildEnds(u, ending) ==
    /\ Go(u, "child", ending)
    /\ \E written \in {0, Flood} :
         LET total == 2 * Kept(u, written)
         IN /\ Spend(total)
            /\ IF room[u] > 0 THEN kept' = kept + total /\ UNCHANGED excess
                             ELSE excess' = excess + total /\ UNCHANGED kept
    /\ room' = [room EXCEPT ![u] = 0]
    /\ UNCHANGED <<operator, account, stops, mode, completed, main>>

(* By itself; at the unit's own timeout or the tool's deadline; or because *)
(* the loop of run_process saw the stop.                                   *)
ChildExits(u) == ChildEnds(u, "exited") /\ UNCHANGED ctrlC
ChildTimesOut(u) == ChildEnds(u, "timed out") /\ UNCHANGED ctrlC
ChildStopped(u) == IsCancelled /\ ChildEnds(u, "stopped") /\ UNCHANGED ctrlC

(* Ctrl+C while the calling thread itself is in run_process.               *)
ChildStruck(u) ==
    /\ mode = "loop" /\ ctrlC = "none"
    /\ ctrlC' = "process"
    /\ ChildEnds(u, "stopped")

(* unit_outcome: the ladder from how the process ended and whether its     *)
(* report is valid to the unit's status.                                   *)
Outcome(ending, valid, succeeded) ==
    IF ending = "stopped" THEN "interrupted"
    ELSE IF ending = "timed out" THEN IF valid THEN "partial" ELSE "timed_out"
    ELSE IF succeeded THEN "completed"
    ELSE IF valid THEN "partial" ELSE "failed"

Judge(u) ==
    /\ at[u] \in Endings /\ at' = [at EXCEPT ![u] = "done"]
    /\ \E valid, succeeded \in BOOLEAN :
         LET status == Outcome(at[u], valid, succeeded)
         IN /\ succeeded => valid /\ at[u] = "exited"
            /\ unit' = [unit EXCEPT ![u] = [status |-> status, ran |-> TRUE]]
            /\ events' = [events EXCEPT ![u] = Append(@, status)]
    /\ UNCHANGED <<plan, operator, process, stops>>
-----------------------------------------------------------------------------
(* The calling thread.                                                     *)

(* A future is collected; an interrupted unit stops the rest.              *)
Collect(u) ==
    /\ main = "collect"
    /\ at[u] = "done" /\ u \notin completed
    /\ completed' = completed \cup {u}
    /\ cancel' = (IsCancelled \/ unit[u].status = "interrupted")
    /\ UNCHANGED <<mode, main, ctrlC, operator, process, account, at, late>>

(* future.result() raises: the pool is shut down, the tool has failed.     *)
CollectRaises(u) ==
    /\ main = "collect"
    /\ at[u] = "raised"
    /\ main' = "unwind"
    /\ UNCHANGED <<mode, completed, ctrlC, operator, process, account, at, stops>>

(* Ctrl+C while the calling thread waits for the pool: cancel.set().       *)
Strike ==
    /\ mode = "pool" /\ main = "collect" /\ ctrlC = "none"
    /\ completed # Units
    /\ ctrlC' = "collect" /\ main' = "sweep"
    /\ cancel' = TRUE
    /\ UNCHANGED <<mode, completed, operator, process, account, at, late>>

CancelQueued == at' = [u \in Units |-> IF at[u] = "queued" THEN "cancelled" ELSE at[u]]

(* Nothing that waits in the pool's queue will start; what has ended by    *)
(* now is taken over ...                                                   *)
Sweep ==
    /\ main = "sweep" /\ main' = "gather"
    /\ CancelQueued
    /\ completed' = {u \in Units : at[u] = "done"}
    /\ UNCHANGED <<mode, ctrlC, operator, process, account, stops>>

(* ... and so is what ends before its future is looked at.                 *)
Gather(u) ==
    /\ main = "gather"
    /\ at[u] = "done" /\ u \notin completed
    /\ completed' = completed \cup {u}
    /\ UNCHANGED <<mode, main, ctrlC, operator, process, account, at, stops>>

Gathered ==
    /\ main = "gather" /\ main' = "drain"
    /\ UNCHANGED <<mode, completed, ctrlC, operator, process, account, at, stops>>

(* Variant: a stop ends the collecting; the pool is shut down.             *)
AllCollected_Early ==
    /\ main = "collect" /\ (completed = Units \/ IsCancelled)
    /\ main' = "drain"
    /\ CancelQueued
    /\ UNCHANGED <<mode, completed, ctrlC, operator, process, account, stops>>

AllCollected ==
    /\ main = "collect" /\ completed = Units
    /\ main' = "drain"
    /\ UNCHANGED <<mode, completed, ctrlC, operator, process, account, at, stops>>

(* executor.shutdown(wait=True, cancel_futures=True).                      *)
ShutDown ==
    /\ main = "unwind" /\ \E u \in Units : at[u] = "queued"
    /\ CancelQueued
    /\ UNCHANGED <<plan, operator, process, account, stops>>

(* A unit nobody collected counts as never run; those are announced in one *)
(* event for each reason.                                                  *)
Recorded(u) == IF u \in completed THEN unit[u] ELSE NeverRan("interrupted")

Assemble ==
    /\ main = "drain" /\ \A u \in Units : at[u] \in Settled
    /\ main' = "over"
    /\ unit' = [u \in Units |-> Recorded(u)]
    /\ events' = [u \in Units |-> IF Recorded(u).ran THEN events[u] ELSE Append(events[u], Recorded(u).status)]
    /\ UNCHANGED <<mode, completed, ctrlC, operator, process, at, stops>>

Unwind ==
    /\ main = "unwind" /\ \A u \in Units : at[u] \in Settled
    /\ main' = "failed"
    /\ UNCHANGED <<mode, completed, ctrlC, operator, process, account, at, stops>>

(* The report of a unit that was not stopped is valid in these states.     *)
Valid(u) == unit[u].status \in {"completed", "partial"}

(* Variant: any valid report makes the tool partial.                       *)
Status_ValidFirst ==
    IF \A u \in Units : unit[u].status = "completed" THEN "completed"
    ELSE IF \E u \in Units : Valid(u) THEN "partial"
    ELSE IF \E u \in Units : unit[u].status = "interrupted" THEN "interrupted" ELSE "failed"

(* aggregate_units, for a tool that has units.                             *)
Status ==
    LET Are(statuses) == \A u \in Units : unit[u].status \in statuses
    IN IF \E u \in Units : unit[u].status = "interrupted" THEN "interrupted"
       ELSE IF Are({"completed"}) THEN "completed"
       ELSE IF \E u \in Units : Valid(u) THEN "partial"
       ELSE IF Are({"timed_out", "unscheduled"}) THEN "timed_out" ELSE "failed"
-----------------------------------------------------------------------------
(* The operator.                                                           *)

Live == main \notin {"over", "failed"}

Pause == Live /\ lanePaused' = ~lanePaused /\ UNCHANGED token
Stop == Live /\ ~token /\ token' = TRUE /\ UNCHANGED lanePaused

Commands ==
    /\ Pause \/ Stop
    /\ UNCHANGED <<plan, process, account, at, stops>>

(* A worker's next step, which its process cannot hold up: it is timed out. *)
UnitGoesOn(u) ==
    Take(u) \/ Begin(u) \/ TurnedAway(u) \/ Announce(u) \/ Open(u) \/ ChildTimesOut(u) \/ Judge(u)

CallerGoesOn ==
    \/ \E u \in Units : Collect(u) \/ CollectRaises(u)
    \/ Sweep \/ Gathered \/ AllCollected \/ ShutDown \/ Assemble \/ Unwind

ToolNext ==
    \/ \E u \in Units :
         \/ UnitGoesOn(u) \/ FailToStart(u)
         \/ ChildExits(u) \/ ChildStopped(u) \/ ChildStruck(u)
         \/ Gather(u)
    \/ CallerGoesOn
    \/ Strike
    \/ Commands

ToolSpec == ToolInit /\ [][ToolNext]_toolVars
(* Every unit has a timeout, and nothing but a pause holds a thread up.    *)
ToolFairSpec == ToolSpec /\ WF_toolVars(CallerGoesOn) /\ \A u \in Units : WF_toolVars(UnitGoesOn(u))
-----------------------------------------------------------------------------
Statuses == {"completed", "partial", "timed_out", "failed", "interrupted", "unscheduled"}

(* The variables have their types.                                         *)
ToolTypeOK ==
    /\ mode \in {"loop", "pool"}
    /\ at \in [Units -> Active \cup Settled \cup {"queued"}]
    /\ room \in [Units -> 0..Ceiling] /\ remaining \in 0..Budget
    /\ kept \in Nat /\ excess \in Nat
    /\ unit \in [Units -> [status: Statuses \cup {"none"}, ran: BOOLEAN]]
    /\ events \in [Units -> Seq(Statuses \cup {"started"})]
    /\ completed \subseteq Units
    /\ main \in {"collect", "sweep", "gather", "drain", "unwind", "over", "failed"}
    /\ ctrlC \in {"none", "process", "collect"}
    /\ cancel \in BOOLEAN /\ late \in Nat
    /\ token \in BOOLEAN /\ lanePaused \in BOOLEAN

(* "How many bytes of tool output one whole run may keep", tools/adapter.py *)
(* 51: as long as something is left, what is kept beyond the budget is what *)
(* the other threads had in hand when the last unit looked at it.           *)
OutputBounded == kept <= Budget + (2 * NJobs - 1) * Ceiling

(* "Exhausted ...: the next unit is allowed zero bytes", test_adapters.py   *)
(* 187: a unit that found the budget used up keeps nothing.                 *)
NothingOnceExhausted == excess = 0

(* A stop is not followed by a queue of processes that still start: each   *)
(* thread may start the one it was about to, and no more.                  *)
FewLateStarts == late <= IF mode = "loop" THEN 1 ELSE NJobs

(* The record the review reads and the events the pages drew tell one      *)
(* story of every unit: it never ran, or it started once and ended the way *)
(* both say.  (Not after Ctrl+C in the pool: a unit that was running then  *)
(* is recorded as never run.)                                              *)
AccountAgrees ==
    main = "over" => \A u \in Units :
        ctrlC # "collect" \/ u \in completed =>
            events[u] = IF unit[u].ran THEN <<"started", unit[u].status>> ELSE <<unit[u].status>>

(* The tool's verdict is borne out by what happened to its processes,      *)
(* whatever stopped them and however many futures were thrown away.        *)
VerdictIsBorneOut ==
    main = "over" =>
        /\ Status = "completed" => \A u \in Units : events[u] = <<"started", "completed">>
        /\ Status \in {"completed", "partial"} => \E u \in Units : Valid(u) /\ unit[u].ran
        /\ Status # "interrupted" => \A u \in Units : at[u] = "done" /\ events[u] # <<"started", "interrupted">>

(* Unless the lane stays paused and the run goes on, the tool ends: no     *)
(* thread waits for another, whichever unit is stopped, skipped, timed out *)
(* or raises.                                                              *)
ToolEnds == <>[](~lanePaused \/ token) => <>(main \in {"over", "failed"})
=============================================================================
