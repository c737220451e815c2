------------------------------- MODULE Engine -------------------------------
(***************************************************************************)
(* The batch engine of a review job: class Engine of jobs/engine.py.       *)
(*                                                                         *)
(* One task at a time is taken from the head of the queue and worked on.   *)
(* Work returns an attempt, possibly with follow-up tasks, or raises; a    *)
(* preempted task goes back to the head of the queue.  Before each task    *)
(* the engine asks whether it may go on: the job's stop flag, the circuit  *)
(* breaker, the GPU budget.                                                *)
(*                                                                         *)
(* Tasks are numbered as they are planned, follow-ups after the initial    *)
(* ones.  What work does is any of its outcomes here; ReviewLane composes  *)
(* the engine with the work of a review and the GPU broker.                *)
(***************************************************************************)
EXTENDS Integers, Sequences, FiniteSets

CONSTANTS
    NPlan,          \* tasks in the initial plan
    Budget,         \* budget_seconds
    MaxCost,        \* bound: GPU seconds one attempt can use
    BreakerLimit,   \* breaker_limit; 0 turns the breaker off
    MaxFollowUps,   \* bound: follow-ups of one attempt
    MaxPlanned      \* bound: tasks ever planned

ASSUME EngineAssumption ==
    /\ NPlan \in Nat /\ Budget \in Nat /\ MaxCost \in Nat
    /\ BreakerLimit \in Nat /\ MaxFollowUps \in Nat
    /\ MaxPlanned \in Nat /\ NPlan <= MaxPlanned

VARIABLES
    queue,          \* the tasks still to run, head first
    current,        \* the task being worked on, 0 for none
    planned,        \* summary.planned
    byStatus,       \* summary.by_status
    spent,          \* summary.gpu_seconds
    consecutive,    \* host failures in a row
    breaker,        \* summary.breaker: closed, off (no model), unreachable
    cancelled,      \* the job's token: the evaluator stopped the job
    state,          \* running, returned, or raised by on_outcome
    outcomes        \* the on_outcome calls that returned: task and why

engineVars == <<queue, current, planned, byStatus, spent, consecutive,
                breaker, cancelled, state, outcomes>>

Statuses == {"done", "cached", "failed", "unscheduled"}

(* Why an attempt ended as it did, and the status that gives it.           *)
StatusOf == [done |-> "done", cached |-> "cached",
             contract |-> "failed", refused |-> "failed", host |-> "failed",
             disabled |-> "failed", internal |-> "failed",
             window |-> "unscheduled", stopped |-> "unscheduled",
             blocked |-> "unscheduled"]
Whys == DOMAIN StatusOf

Init ==
    /\ queue = [i \in 1..NPlan |-> i]
    /\ current = 0
    /\ planned = NPlan
    /\ byStatus = [s \in Statuses |-> 0]
    /\ spent = 0
    /\ consecutive = 0
    /\ breaker = "closed"
    /\ cancelled = FALSE
    /\ state = "running"
    /\ outcomes = <<>>

(* _blocked.                                                               *)
Blocked == cancelled \/ breaker # "closed" \/ spent >= Budget

(* _settle: count it, then tell the job, whose ledger may not be writable. *)
Settle(task, why) ==
    /\ byStatus' = [byStatus EXCEPT ![StatusOf[why]] = @ + 1]
    /\ \/ /\ outcomes' = Append(outcomes, [task |-> task, why |-> why])
          /\ UNCHANGED state
       \/ /\ state' = "raised"
          /\ UNCHANGED outcomes

(* The head of the queue is taken and must not run.                        *)
Skip ==
    /\ state = "running" /\ current = 0 /\ queue # <<>>
    /\ Blocked
    /\ queue' = Tail(queue)
    /\ Settle(Head(queue), "blocked")
    /\ UNCHANGED <<current, planned, spent, consecutive, breaker, cancelled>>

(* The head of the queue is taken and worked on.                           *)
Take ==
    /\ state = "running" /\ current = 0 /\ queue # <<>>
    /\ ~Blocked
    /\ current' = Head(queue)
    /\ queue' = Tail(queue)
    /\ UNCHANGED <<planned, byStatus, spent, consecutive, breaker, cancelled, state, outcomes>>

(* Variant: a preempted task goes to the end of the queue.                 *)
PutBack_AtTheEnd ==
    /\ current # 0
    /\ queue' = Append(queue, current)
    /\ current' = 0
    /\ UNCHANGED <<planned, byStatus, spent, consecutive, breaker, cancelled, state, outcomes>>

(* Preempted: the task goes back to the head, nothing is counted.          *)
PutBack ==
    /\ current # 0
    /\ queue' = <<current>> \o queue
    /\ current' = 0
    /\ UNCHANGED <<planned, byStatus, spent, consecutive, breaker, cancelled, state, outcomes>>

(* k follow-ups are planned and queued behind everything else.             *)
FollowUps(k) ==
    /\ planned' = planned + k
    /\ queue' = queue \o [i \in 1..k |-> planned + i]

(* The attempt is settled: its cost, its follow-ups, its status.           *)
Finish(why, cost, k) ==
    /\ current # 0
    /\ spent' = spent + cost
    /\ FollowUps(k)
    /\ Settle(current, why)
    /\ current' = 0
    /\ UNCHANGED cancelled

(* Variant: a reply leaves the count of failures as it is.                 *)
Reset_Never == UNCHANGED <<consecutive, breaker>>

Reset == consecutive' = 0 /\ UNCHANGED breaker

(* Work returned done or cached.                                           *)
Done(why, cost, k) == Finish(why, cost, k) /\ Reset

(* Work returned failed or unscheduled, or raised something unexpected:    *)
(* the count of host failures stays.                                       *)
Other(why, cost) == Finish(why, cost, 0) /\ UNCHANGED <<consecutive, breaker>>

(* A ModelError that says nothing of the host.                             *)
Refused == Finish("refused", 0, 0) /\ Reset

(* The model lane is switched off: nothing else can run.                   *)
Disabled ==
    /\ Finish("disabled", 0, 0)
    /\ consecutive' = 0
    /\ breaker' = "off"

(* TRANSPORT, TIMEOUT, SERVER or RATE_LIMIT.                               *)
HostFailure ==
    /\ Finish("host", 0, 0)
    /\ consecutive' = consecutive + 1
    /\ breaker' = IF BreakerLimit > 0 /\ consecutive' >= BreakerLimit /\ breaker = "closed"
                    THEN "unreachable" ELSE breaker

(* Cancelled because the job was stopped.                                  *)
Stopped == cancelled /\ Other("stopped", 0)

Return ==
    /\ state = "running" /\ current = 0 /\ queue = <<>>
    /\ state' = "returned"
    /\ UNCHANGED <<queue, current, planned, byStatus, spent, consecutive, breaker, cancelled, outcomes>>

(* The evaluator stops the job.                                            *)
Stop ==
    /\ ~cancelled
    /\ cancelled' = TRUE
    /\ UNCHANGED <<queue, current, planned, byStatus, spent, consecutive, breaker, state, outcomes>>

Attempt ==
    \/ \E cost \in 0..MaxCost, k \in 0..MaxFollowUps :
         planned + k <= MaxPlanned /\ \E why \in {"done", "cached"} : Done(why, cost, k)
    \/ \E cost \in 0..MaxCost : Other("contract", cost)
    \/ Other("internal", 0) \/ Other("window", 0)
    \/ Refused \/ Disabled \/ HostFailure \/ Stopped

Work == Skip \/ Take \/ PutBack \/ Attempt \/ Return
Next == Work \/ Stop

Spec == Init /\ [][Next]_engineVars
FairSpec == Spec /\ WF_engineVars(Work)
-----------------------------------------------------------------------------
TypeOK ==
    /\ queue \in Seq(1..planned)
    /\ planned \in NPlan..MaxPlanned
    /\ current \in 0..planned
    /\ byStatus \in [Statuses -> Nat]
    /\ spent \in Nat /\ consecutive \in Nat
    /\ breaker \in {"closed", "off", "unreachable"}
    /\ cancelled \in BOOLEAN
    /\ state \in {"running", "returned", "raised"}
    /\ outcomes \in Seq([task : 1..planned, why : Whys])

Started == byStatus["done"] + byStatus["cached"] + byStatus["failed"]
InHand == IF current = 0 THEN 0 ELSE 1

(* "planned == started + unscheduled", preemption and follow-ups included: *)
(* at every moment the planned tasks are the settled ones and those still  *)
(* queued or in hand, so none is missing when the queue is empty.          *)
Accounted == planned = Started + byStatus["unscheduled"] + Len(queue) + InHand

(* Every task is settled once, in the order of the plan (grouped by lens   *)
(* to share the host's prompt cache), follow-ups last, however often tasks *)
(* were preempted and put back.                                            *)
InOrder == \A i \in DOMAIN outcomes : outcomes[i].task = i

(* Those of the calls from i to j that ended in one of these ways.          *)
Of(calls, kinds, i, j) == {n \in i..j : calls[n].why \in kinds}

(* The host was reached, or it was not.                                    *)
Answered == {"done", "cached", "refused", "disabled"}
Unreached == {"host"}

(* BreakerLimit host failures with no answer of the host between them.     *)
InARow(calls) ==
    \E i, j \in DOMAIN calls :
        /\ Cardinality(Of(calls, Unreached, i, j)) >= BreakerLimit
        /\ Of(calls, Answered, i, j) = {}

(* The breaker opens at the third host failure with no answer from the     *)
(* host in between, and then at once.  Attempts that never reached the     *)
(* host, or whose answer was no good, neither count nor reset.             *)
BreakerIsRight ==
    state # "raised" => (breaker = "unreachable" <=> BreakerLimit > 0 /\ InARow(outcomes))

(* A job overruns its GPU budget by less than one attempt.                 *)
WithinBudget == spent = 0 \/ spent < Budget + MaxCost

(* The breaker and the budget only ever stop tasks: what is settled as     *)
(* stopped by the evaluator was, and a run that returns has settled all.   *)
Explained ==
    /\ \A i \in DOMAIN outcomes : outcomes[i].why = "stopped" => cancelled
    /\ state = "returned" => Len(outcomes) = planned

(* A stopped job ends, even when its task has just been preempted.         *)
StopEnds == cancelled ~> state # "running"
=============================================================================
