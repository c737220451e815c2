----------------------------- MODULE ScanPhase -----------------------------
(***************************************************************************)
(* The LLM scan phase of a run: class _Phase of llm/scan.py under the      *)
(* RunControl of control.py, which an operator steers from another thread. *)
(*                                                                         *)
(* A pool of threads takes the units in dispatch order.  A unit passes the *)
(* checkpoint (pause, skip, cancel), then the gate (how many run at once), *)
(* then the phase's own conditions (breaker, deadline), then reserves its  *)
(* tokens, is scanned in a session or replayed from the cache, gives back  *)
(* what it did not use and is counted by the circuit breaker.  After the   *)
(* first round the operator's retries are served, a round each.            *)
(*                                                                         *)
(* The pool's threads are interchangeable, so the state is kept by unit.   *)
(* Re-planning rounds (max_replan_rounds, 0 unless configured) are left    *)
(* out; the reasons of unscheduled units are wording.                      *)
(***************************************************************************)
EXTENDS Integers, FiniteSets

CONSTANTS
    NUnits,             \* tasks, in dispatch order
    Pool,               \* threads: at most LLM_JOBS_CEILING
    Ceiling,            \* LLM_JOBS_CEILING
    Jobs,               \* the limit the operator starts with
    Prompt,             \* Prompt[u]: the estimated tokens of a unit's prompt
    PromptBudget,       \* total_prompt_tokens
    Reservation,        \* max_completion_tokens
    CompletionBudget,   \* total_completion_tokens
    BreakerLimit,       \* consecutive_failure_limit; 0 turns the breaker off
    Cached,             \* the units an earlier run left in the cache
    Named,              \* sets of units an operator names: to skip, to retry
    Raising,            \* bound: the units whose thread may raise an error
    Rounds,             \* OPERATOR_ROUNDS
    MaxCommands         \* bound: what the operator does in one phase

Units == 1..NUnits

ASSUME ScanAssumption ==
    /\ NUnits \in Nat /\ Pool \in Nat \ {0}
    /\ Ceiling \in Nat \ {0} /\ Jobs \in 1..Ceiling
    /\ Prompt \in [Units -> Nat \ {0}] /\ Reservation \in Nat \ {0}
    /\ PromptBudget \in Nat /\ CompletionBudget \in Nat /\ BreakerLimit \in Nat
    /\ Cached \subseteq Units
    /\ Named \subseteq SUBSET Units
    /\ Rounds \in Nat /\ MaxCommands \in Nat

VARIABLES
    paused,         \* _paused["llm"]
    cancelled,      \* the run's cancellation token
    skipped,        \* _skipped and _skipped_units
    retry,          \* _retries["llm"]: none, every failed unit, or named ones
    named,          \* the units named
    limit,          \* the gate's _limit
    commands,       \* what the operator has done so far
    active,         \* the gate's _active
    at,             \* at[u]: where unit u is in this round
    record,         \* record[u]: the status of u's latest record
    cache,          \* the units whose prompt is in the cache
    expired,        \* the deadline has passed
    promptSpent,    \* prompt_spent
    reserved,       \* completion_reserved
    consecutive,    \* _consecutive
    breaker,        \* breaker_open
    phase,          \* round, between rounds, done; failing and failed after an error
    retries,        \* operator rounds begun
    used            \* history: tokens generated, a unit's up to its reservation

control == <<paused, cancelled, skipped, retry, named, limit, commands>>
budget == <<promptSpent, reserved, used>>
trip == <<consecutive, breaker>>
rounds == <<phase, retries>>
vars == <<control, active, at, record, cache, expired, budget, trip, rounds>>

Places == {"out", "queued", "checkpoint", "gate", "admit", "reserve",
           "session", "replay", "lost"}
InGate == {"admit", "reserve", "session", "replay"}
Outcomes == {"answered", "cut", "failed", "provider", "transport", "interrupted"}

(* What a record says, as far as a retry asks: a model's answer or a       *)
(* failure of its own (scanned); none, for want of budget, endpoint or     *)
(* leave (unanswered); the run was stopped (interrupted).                  *)
Statuses == {"scanned", "unanswered", "interrupted"}
StatusOf == [answered |-> "scanned", cut |-> "scanned", failed |-> "scanned", provider |-> "unanswered",
             transport |-> "unanswered", interrupted |-> "interrupted"]

At(places) == {u \in Units : at[u] \in places}
Lesser(m, n) == IF m < n THEN m ELSE n

Init ==
    /\ paused = FALSE /\ cancelled = FALSE /\ skipped = {}
    /\ retry = "none" /\ named = {}
    /\ limit = Jobs /\ active = 0 /\ commands = 0
    /\ at = [u \in Units |-> "queued"]
    /\ record = [u \in Units |-> "none"]
    /\ cache = Cached
    /\ expired = FALSE
    /\ promptSpent = 0 /\ reserved = 0 /\ used = 0
    /\ consecutive = 0 /\ breaker = FALSE
    /\ phase = "round" /\ retries = 0
-----------------------------------------------------------------------------
(* One unit on its way: _Phase.execute.                                    *)

Move(u, place) == at' = [at EXCEPT ![u] = place]

(* execute returns a record; a unit in the gate gives its slot back.       *)
Report(u, status) ==
    /\ record' = [record EXCEPT ![u] = status]
    /\ Move(u, "out")

(* What execute does outside its own try raises: no record.                *)
Lose(u) == u \in Raising /\ Move(u, "lost") /\ UNCHANGED record

(* Variant: a stop while waiting leaves without a record.                  *)
Start_Silent(u) ==
    /\ u \in At({"queued"})
    /\ \A v \in At({"queued"}) : u <= v
    /\ Cardinality(At(Places \ {"out", "queued", "lost"})) < Pool
    /\ Move(u, IF cancelled THEN "out" ELSE "checkpoint")
    /\ UNCHANGED <<control, active, record, cache, expired, budget, trip, rounds>>

(* A thread of the pool takes the next unit.                               *)
Start(u) ==
    /\ u \in At({"queued"})
    /\ \A v \in At({"queued"}) : u <= v
    /\ Cardinality(At(Places \ {"out", "queued", "lost"})) < Pool
    /\ IF cancelled THEN Report(u, "interrupted") ELSE Move(u, "checkpoint") /\ UNCHANGED record
    /\ UNCHANGED <<control, active, cache, expired, budget, trip, rounds>>

Held == paused /\ ~cancelled

(* RunControl.checkpoint: a pause is waited out, cancel wins over a skip.  *)
Checkpoint(u) ==
    /\ at[u] = "checkpoint"
    /\ ~Held
    /\ \/ cancelled /\ Report(u, "interrupted")
       \/ ~cancelled /\ u \in skipped /\ Report(u, "unanswered")
       \/ ~cancelled /\ u \notin skipped /\ Move(u, "gate") /\ UNCHANGED record
    /\ UNCHANGED <<control, active, cache, expired, budget, trip, rounds>>

(* AdjustableSemaphore.acquire.                                            *)
Acquire(u) ==
    /\ at[u] = "gate"
    /\ active < limit
    /\ active' = active + 1
    /\ Move(u, "admit")
    /\ UNCHANGED <<control, record, cache, expired, budget, trip, rounds>>

(* No slot, and the run was cancelled: acquire says no.                    *)
GiveUp(u) ==
    /\ at[u] = "gate"
    /\ active >= limit /\ cancelled
    /\ Report(u, "interrupted")
    /\ UNCHANGED <<control, active, cache, expired, budget, trip, rounds>>

(* Variant: a slot is not given back.                                      *)
LeaveGate_Never == UNCHANGED active

(* The finally of execute, release(): never below zero.                    *)
LeaveGate == active' = IF active > 0 THEN active - 1 ELSE 0

(* Variant: the breaker is looked at when the unit is taken, not here.     *)
Refusal_NoBreaker == expired

(* No session any more: the breaker is open, the deadline has passed.      *)
Refusal == breaker \/ expired

(* _execute_gated up to the reservation.                                   *)
Admit(u) ==
    /\ at[u] = "admit"
    /\ \/ cancelled /\ Report(u, "interrupted") /\ LeaveGate
       \/ ~cancelled /\ Refusal /\ Report(u, "unanswered") /\ LeaveGate
       \/ ~cancelled /\ ~Refusal /\ Move(u, "reserve") /\ UNCHANGED <<record, active>>
    /\ UNCHANGED <<control, cache, expired, budget, trip, rounds>>

(* A unit too long for the endpoint's window is refused as one that the    *)
(* budget can never pay.                                                   *)
Fits(u) ==
    /\ promptSpent + Prompt[u] <= PromptBudget
    /\ reserved + Reservation <= CompletionBudget

(* _reserve, and the session or the replay begins.                         *)
Reserve(u) ==
    /\ at[u] = "reserve"
    /\ IF Fits(u)
         THEN /\ promptSpent' = promptSpent + Prompt[u]
              /\ reserved' = reserved + Reservation
              /\ Move(u, IF u \in cache THEN "replay" ELSE "session")
              /\ UNCHANGED <<record, active>>
         ELSE /\ Report(u, "unanswered") /\ LeaveGate
              /\ UNCHANGED <<promptSpent, reserved>>
    /\ UNCHANGED <<control, cache, expired, used, trip, rounds>>

(* Variant: everything comes back when the provider reported any usage.    *)
Unused_All(reported, tokens) == IF reported THEN Reservation ELSE 0

(* What _release gives back of the reservation: nothing unless the         *)
(* provider reported its usage.                                            *)
Unused(reported, tokens) ==
    IF reported THEN Reservation - Lesser(tokens, Reservation) ELSE 0

(* The breaker counts transport failures; an answer, or a valid report of  *)
(* a session that the provider stopped, and nothing else, starts the count *)
(* again.                                                                  *)
Count(how) ==
    CASE how = "transport" -> consecutive + 1
      [] how \in {"answered", "cut"} -> 0
      [] OTHER -> consecutive

Trips(how) == how = "transport" /\ BreakerLimit > 0 /\ Count(how) >= BreakerLimit

(* The session ends: an answer, one that the provider cut short, an error  *)
(* of one kind or another, or the cancelling.  _release settles the        *)
(* budget, _observe the breaker, the cache may keep an answer; an error in *)
(* what follows loses the unit.  The two take the lock one after the       *)
(* other; what another unit does in between it could as well do before,    *)
(* because it cannot both be admitted and reserve in one step.             *)
EndSession(u) ==
    /\ at[u] = "session"
    /\ \E how \in Outcomes, reported \in BOOLEAN, tokens \in 0..Reservation + 1 :
         /\ how = "interrupted" => cancelled
         /\ reserved' = reserved - Unused(reported, tokens)
         /\ used' = used + Lesser(tokens, Reservation)
         /\ promptSpent' = IF how = "transport"
                             THEN promptSpent - Lesser(Prompt[u], promptSpent)
                             ELSE promptSpent
         /\ consecutive' = Count(how)
         /\ breaker' = (breaker \/ Trips(how))
         /\ cache' \in IF how = "answered" THEN {cache, cache \cup {u}} ELSE {cache}
         /\ Report(u, StatusOf[how]) \/ Lose(u)
    /\ LeaveGate
    /\ UNCHANGED <<control, expired, rounds>>

(* A replayed unit: the kept reply is judged, its tokens stay reserved,    *)
(* and the breaker takes no notice of it but for an answer.                *)
EndReplay(u) ==
    /\ at[u] = "replay"
    /\ \E how \in {"answered", "failed", "interrupted"} :
         /\ how = "interrupted" => cancelled
         /\ consecutive' = Count(how)
         /\ Report(u, StatusOf[how]) \/ Lose(u)
    /\ LeaveGate
    /\ UNCHANGED <<control, cache, expired, budget, breaker, rounds>>

Expire ==
    /\ ~expired
    /\ expired' = TRUE
    /\ UNCHANGED <<control, active, at, record, cache, budget, trip, rounds>>
-----------------------------------------------------------------------------
(* The phase's own thread: execute_all returns, _operator_rounds.          *)

RoundOver ==
    /\ phase = "round"
    /\ \A u \in Units : at[u] = "out"
    /\ phase' = "between"
    /\ UNCHANGED <<control, active, at, record, cache, expired, budget, trip, retries>>

(* A unit's error reaches execute_all: what is queued is not begun, what   *)
(* runs is waited for, and the error passes on, and no record with it.     *)
Abort ==
    /\ phase = "round" /\ At({"lost"}) # {}
    /\ phase' = "failing"
    /\ at' = [u \in Units |-> IF at[u] = "queued" THEN "lost" ELSE at[u]]
    /\ UNCHANGED <<control, active, record, cache, expired, budget, trip, retries>>

Fail ==
    /\ phase = "failing"
    /\ \A u \in Units : at[u] \in {"out", "lost"}
    /\ phase' = "failed"
    /\ record' = [u \in Units |-> "none"]
    /\ UNCHANGED <<control, active, at, cache, expired, budget, trip, retries>>

(* What never got a model's answer, or what the operator named.            *)
Targets ==
    IF retry = "named" THEN named
    ELSE {u \in Units : record[u] = "unanswered"}

Finish ==
    /\ phase = "between"
    /\ retry = "none" \/ cancelled \/ retries = Rounds
    /\ phase' = "done"
    /\ UNCHANGED <<control, active, at, record, cache, expired, budget, trip, retries>>

(* A retry round; the breaker is armed again if there is something to do.  *)
Retry ==
    /\ phase = "between"
    /\ retry # "none" /\ ~cancelled /\ retries < Rounds
    /\ retries' = retries + 1
    /\ retry' = "none" /\ named' = {}
    /\ IF Targets = {}
         THEN UNCHANGED <<phase, at, trip>>
         ELSE /\ phase' = "round"
              /\ at' = [u \in Units |-> IF u \in Targets THEN "queued" ELSE "out"]
              /\ consecutive' = 0 /\ breaker' = FALSE
    /\ UNCHANGED <<paused, cancelled, skipped, limit, commands, active, record, cache, expired, budget>>
-----------------------------------------------------------------------------
(* The operator, from another thread.                                      *)

Steer ==
    /\ commands < MaxCommands /\ commands' = commands + 1
    /\ phase \notin {"done", "failed"}
    /\ UNCHANGED <<active, at, record, cache, expired, budget, trip, rounds>>

Pause ==
    /\ ~paused
    /\ paused' = TRUE
    /\ UNCHANGED <<cancelled, skipped, retry, named, limit>> /\ Steer

Resume ==
    /\ paused
    /\ paused' = FALSE
    /\ UNCHANGED <<cancelled, skipped, retry, named, limit>> /\ Steer

Cancel ==
    /\ ~cancelled
    /\ cancelled' = TRUE
    /\ UNCHANGED <<paused, skipped, retry, named, limit>> /\ Steer

Skip ==
    /\ \E units \in Named : skipped' = skipped \cup units
    /\ UNCHANGED <<paused, cancelled, retry, named, limit>> /\ Steer

SetJobs ==
    /\ limit' \in 1..Ceiling \ {limit}
    /\ UNCHANGED <<paused, cancelled, skipped, retry, named>> /\ Steer

RequestRetry ==
    /\ \/ retry' = "failed" /\ named' = {}
       \/ retry' = "named" /\ named' \in Named
    /\ UNCHANGED <<paused, cancelled, skipped, limit>> /\ Steer

Operator == Pause \/ Resume \/ Cancel \/ Skip \/ SetJobs \/ RequestRetry

Thread(u) ==
    \/ Start(u) \/ Checkpoint(u) \/ Acquire(u) \/ GiveUp(u) \/ Admit(u)
    \/ Reserve(u) \/ EndSession(u) \/ EndReplay(u)

Main == RoundOver \/ Abort \/ Fail \/ Finish \/ Retry

Threads == \E u \in Units : Thread(u)

Next == Expire \/ Operator \/ Main \/ Threads

Spec == Init /\ [][Next]_vars

(* Threads run, and a session ends by its own timeouts; nobody has to      *)
(* resume, cancel or ask for anything.                                     *)
FairSpec == Spec /\ WF_vars(Main) /\ WF_vars(Threads)
-----------------------------------------------------------------------------
TypeOK ==
    /\ paused \in BOOLEAN /\ cancelled \in BOOLEAN /\ expired \in BOOLEAN /\ breaker \in BOOLEAN
    /\ skipped \subseteq Units /\ cache \subseteq Units
    /\ retry \in {"none", "failed", "named"} /\ named \subseteq Units
    /\ limit \in 1..Ceiling /\ active \in Nat /\ commands \in 0..MaxCommands
    /\ at \in [Units -> Places]
    /\ record \in [Units -> Statuses \cup {"none"}]
    /\ {promptSpent, reserved, used, consecutive} \subseteq Nat
    /\ phase \in {"round", "between", "done", "failing", "failed"} /\ retries \in 0..Rounds

(* "A task with no record is one the pool never ran: interrupted, never    *)
(* lost": once a round is over, every unit has a record, whatever was      *)
(* skipped, refused, stopped or retried on the way.  A round in which a    *)
(* unit's thread raised is never over: the phase fails as a whole, and     *)
(* none of its records is kept (scan.py:735, runner.py:569).               *)
NeverLost == phase \in {"between", "done"} => \A u \in Units : at[u] = "out" /\ record[u] # "none"

(* The budget holds over reservations, refunds, retries and failures of    *)
(* every kind: no refund gives back what a session in flight still holds,  *)
(* or what a model has generated.                                          *)
PromptTokens(units) == UNION {{u} \X (1..Prompt[u]) : u \in units}
PromptsPaid ==
    /\ Cardinality(PromptTokens(At({"session"}))) <= promptSpent
    /\ promptSpent <= PromptBudget
CompletionsPaid ==
    /\ used + Reservation * Cardinality(At({"session"})) <= reserved
    /\ reserved <= CompletionBudget
WithinBudget == PromptsPaid /\ CompletionsPaid

(* A dead endpoint is asked fewer than breaker_limit + jobs times: the     *)
(* failures counted and the sessions still open never add up to more.      *)
DeadEndpoint ==
    BreakerLimit > 0 =>
        consecutive + Cardinality(At({"session"})) <= BreakerLimit + Ceiling - 1

(* The phase ends unless it stays paused and nobody cancels it: a          *)
(* cancelled one although the lane is paused and the gate is full, however *)
(* the limit is moved and whatever its threads raise.                      *)
Ended == phase \in {"done", "failed"}
PhaseEnds == <>[]~Held => <>Ended
=============================================================================
