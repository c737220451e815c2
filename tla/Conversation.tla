---------------------------- MODULE Conversation ----------------------------
(***************************************************************************)
(* The conversation of an evaluation (kernel/session.py) and its turns     *)
(* (kernel/loop.py): requests put messages in a queue, one worker thread   *)
(* takes them and runs a turn of at most MaxSteps model calls.             *)
(*                                                                         *)
(* A reply may hold read calls, an action and calls that do not parse; the *)
(* answer's text does not matter.  A thread's step ends at an append to    *)
(* the ledger, at the conversation's lock, at the queue and at the model.  *)
(***************************************************************************)
EXTENDS Integers, Sequences, FiniteSets

CONSTANTS
    MaxSteps,       \* MAX_STEPS
    MaxReads,       \* bound: read calls in one reply
    MaxFaults,      \* bound: appends that raise and deaths of the server
    MaxSaid, MaxEvents, MaxStops        \* bounds

ASSUME ConversationAssumption ==
    /\ MaxSteps \in Nat \ {0} /\ MaxReads \in Nat /\ MaxFaults \in Nat
    /\ MaxSaid \in Nat /\ MaxEvents \in Nat /\ MaxStops \in Nat

VARIABLES
    log,        \* the records that the worker appends to the ledger
    queue,      \* _queue: messages, or 0 for a wake
    worker,     \* where _work is
    message,    \* the message it has in hand
    busy,       \* _busy
    token,      \* _token of the turn: none, live, or cut
    turn,       \* the turn's number (_generation, kept over restarts)
    step,       \* the turn's model call
    repaired,   \* whether the one repair was used
    reply,      \* the calls of the reply in hand
    sayer,      \* sayer[m]: where the request that says message m is
    earlier,    \* history: the messages whose requests had ended before m's
    stopper,    \* the turn whose token interrupt() has read, 0 for none
    herald,     \* the thread that tells of a finished job
    said, told, pressed, faults     \* messages, events, stopped turns, faults

workerVars == <<worker, message, busy, token, turn, step, repaired, reply>>
sayers == <<sayer, earlier>>
inputVars == <<sayers, stopper, herald>>
counters == <<said, told, pressed, faults>>
vars == <<log, queue, workerVars, inputVars, counters>>

Messages == 1..MaxSaid
Wake == 0
NoReply == [reads |-> 0, act |-> FALSE, bad |-> FALSE]

Init ==
    /\ log = <<>> /\ queue = <<>>
    /\ worker = "get" /\ message = Wake /\ busy = FALSE /\ token = "none"
    /\ turn = 0 /\ step = 0 /\ repaired = FALSE /\ reply = NoReply
    /\ sayer = [m \in Messages |-> "idle"] /\ earlier = [m \in Messages |-> {}]
    /\ stopper = 0 /\ herald = "idle"
    /\ said = 0 /\ told = 0 /\ pressed = {} /\ faults = 0

Record(kind, n) == [kind |-> kind, turn |-> turn, step |-> step, n |-> n]
Writes(kind, n) == log' = Append(log, Record(kind, n))
-----------------------------------------------------------------------------
(* An append to the ledger raises.                                         *)
Fault == faults < MaxFaults /\ faults' = faults + 1
Raises == Fault
-----------------------------------------------------------------------------
(* What the operator and the jobs do.                                      *)

(* say, of one request or of several at once, looks at the busy flag ...   *)
Say ==
    /\ said < MaxSaid /\ said' = said + 1
    /\ sayer' = [sayer EXCEPT ![said + 1] = IF busy THEN "note" ELSE "put"]
    /\ earlier' = [earlier EXCEPT ![said + 1] = {m \in 1..said : sayer[m] = "idle"}]
    /\ UNCHANGED <<log, queue, workerVars, stopper, herald, told, pressed, faults>>

SayerGoes(m, place) == sayer' = [sayer EXCEPT ![m] = place] /\ UNCHANGED earlier

(* ... notes the message as queued ...                                     *)
NoteQueued(m) ==
    /\ sayer[m] = "note"
    /\ \/ SayerGoes(m, "put") /\ UNCHANGED faults
       \/ Raises /\ SayerGoes(m, "idle")
    /\ UNCHANGED <<log, queue, workerVars, stopper, herald, said, told, pressed>>

(* Variant: the message is put before those that wait.                     *)
PutMessage_First(m) ==
    /\ sayer[m] = "put"
    /\ queue' = <<m>> \o queue
    /\ SayerGoes(m, "idle")
    /\ UNCHANGED <<log, workerVars, stopper, herald, counters>>

(* ... and puts it.                                                        *)
PutMessage(m) ==
    /\ sayer[m] = "put"
    /\ queue' = Append(queue, m)
    /\ SayerGoes(m, "idle")
    /\ UNCHANGED <<log, workerVars, stopper, herald, counters>>

(* interrupt reads the token under the lock and cancels it after.          *)
PressStop ==
    /\ stopper = 0 /\ Cardinality(pressed) < MaxStops
    /\ token # "none"
    /\ stopper' = turn /\ pressed' = pressed \cup {turn}
    /\ UNCHANGED <<log, queue, workerVars, sayers, herald, said, told, faults>>

(* Variant: whatever token there is now is cancelled.                      *)
StopsTurn_Current == token # "none"

StopsTurn == stopper = turn /\ token # "none"

CancelToken ==
    /\ stopper # 0
    /\ token' = IF StopsTurn THEN "cut" ELSE token
    /\ stopper' = 0
    /\ UNCHANGED <<log, queue, worker, message, busy, turn, step, repaired, reply>>
    /\ UNCHANGED <<sayers, herald, counters>>

(* event: a job has finished; it is recorded (the manager swallows what    *)
(* its callback raises) ...                                                *)
TellEvent ==
    /\ herald = "idle" /\ told < MaxEvents
    /\ told' = told + 1
    /\ \/ herald' = "told" /\ UNCHANGED faults
       \/ Raises /\ UNCHANGED herald
    /\ UNCHANGED <<log, queue, workerVars, sayers, stopper, said, pressed>>

(* ... and an idle agent is woken unless the operator is typing.           *)
SeeIdle ==
    /\ herald = "told"
    /\ herald' \in IF ~busy /\ queue = <<>> THEN {"wake", "idle"} ELSE {"idle"}
    /\ UNCHANGED <<log, queue, workerVars, sayers, stopper, counters>>

PutWake ==
    /\ herald = "wake"
    /\ queue' = Append(queue, Wake)
    /\ herald' = "idle"
    /\ UNCHANGED <<log, workerVars, sayers, stopper, counters>>
-----------------------------------------------------------------------------
(* The worker: _work.                                                      *)
At(place) == worker = place
Goes(place) == worker' = place
Rest == <<queue, inputVars, counters>>
RestButFaults == <<queue, inputVars, said, told, pressed>>
TurnVars == <<message, busy, token, turn>>

Take ==
    /\ At("get") /\ queue # <<>>
    /\ message' = Head(queue) /\ queue' = Tail(queue)
    /\ Goes("got")
    /\ UNCHANGED <<log, busy, token, turn, step, repaired, reply, inputVars, counters>>

(* Variant: a message is dropped as a wake is when another waits.          *)
Superseded_Any == queue # <<>>

(* A wake gives way to what was said since.                                *)
Superseded == message = Wake /\ queue # <<>>

Drop ==
    /\ At("got") /\ Superseded
    /\ Goes("get")
    /\ UNCHANGED <<Rest, log, TurnVars, step, repaired, reply>>

Begin ==
    /\ At("got") /\ ~Superseded
    /\ busy' = TRUE /\ token' = "live" /\ turn' = turn + 1
    /\ step' = 1 /\ repaired' = FALSE /\ reply' = NoReply
    /\ Goes(IF message = Wake THEN "ask" ELSE "said")
    /\ UNCHANGED <<Rest, log, message>>

RecordSaid ==
    /\ At("said")
    /\ Writes("user_said", message)
    /\ Goes("ask")
    /\ UNCHANGED <<Rest, TurnVars, step, repaired, reply>>

Replies == {NoReply, [NoReply EXCEPT !.bad = TRUE]} \cup
    [reads : 0..MaxReads, act : BOOLEAN, bad : {FALSE}]

(* The request was cancelled, or the model or the kernel failed.           *)
NoAnswer ==
    /\ At("ask")
    /\ \/ token = "cut" /\ Goes("cut")
       \/ Goes("failed")
    /\ UNCHANGED <<Rest, log, TurnVars, step, repaired, reply>>
-----------------------------------------------------------------------------
(* One step of a turn.                                                     *)
Last == step = MaxSteps
Calls(r) == r.reads + (IF r.act THEN 1 ELSE 0)

(* All reads and the first action; the last step's calls are ignored.      *)
Chosen(r) == IF Last THEN 0 ELSE Calls(r)

(* The reply is complete, which it never is after a cancel, and recorded.  *)
Reply ==
    /\ At("ask") /\ token = "live"
    /\ \E r \in Replies :
         /\ reply' = r
         /\ Writes("agent_said", Chosen(r))
         /\ Goes(IF Chosen(r) > 0 THEN "run"
                 ELSE IF r.bad /\ ~repaired /\ ~Last THEN "repair"
                 ELSE "finish")
    /\ UNCHANGED <<Rest, TurnVars, step, repaired>>

(* The model is told what did not parse, once.                             *)
Repair ==
    /\ At("repair")
    /\ Writes("event_said", 0)
    /\ repaired' = TRUE /\ step' = step + 1 /\ reply' = NoReply
    /\ Goes("ask")
    /\ UNCHANGED <<Rest, TurnVars>>

Results == Cardinality({i \in DOMAIN log : log[i].kind = "tool_result"
                            /\ log[i].turn = turn /\ log[i].step = step})

(* Where the turn goes after the result that is recorded now.              *)
NextCall ==
    IF Results + 1 < Calls(reply) THEN UNCHANGED <<worker, step, reply>>
    ELSE IF reply.act THEN Goes("finish") /\ UNCHANGED <<step, reply>>
    ELSE Goes("ask") /\ step' = step + 1 /\ reply' = NoReply

(* Variant: what shows a card is not recorded as a result.                 *)
RunCall_CardOnly ==
    /\ At("run")
    /\ IF Results = reply.reads THEN UNCHANGED log ELSE Writes("tool_result", Results + 1)
    /\ NextCall
    /\ UNCHANGED <<Rest, TurnVars, repaired>>

(* The next call runs and its result is recorded; an action ends the turn. *)
RunCall ==
    /\ At("run")
    /\ Writes("tool_result", Results + 1)
    /\ NextCall
    /\ UNCHANGED <<Rest, TurnVars, repaired>>

(* Most errors of a call become its result; others end the turn, as does a *)
(* card (see Desk) that cannot be shown.                                   *)
CallRaises ==
    /\ At("run")
    /\ Goes("failed")
    /\ UNCHANGED <<Rest, log, TurnVars, step, repaired, reply>>

Finish ==
    /\ At("finish")
    /\ Writes("turn_finished", 0)
    /\ Goes("end")
    /\ UNCHANGED <<Rest, TurnVars, step, repaired, reply>>

(* An append raises inside the try: the turn ends with an error.           *)
AppendFails ==
    /\ Raises
    /\ At("said") \/ At("repair") \/ At("finish")
    /\ Goes("failed")
    /\ UNCHANGED <<RestButFaults, log, TurnVars, step, repaired, reply>>

(* turn_cancelled or agent_error is appended in the except clause ...      *)
RecordEnd ==
    /\ At("cut") \/ At("failed")
    /\ Writes(IF At("cut") THEN "turn_cancelled" ELSE "agent_error", 0)
    /\ Goes("end")
    /\ UNCHANGED <<Rest, TurnVars, step, repaired, reply>>

(* ... where an error leaves the loop: the thread ends.                    *)
RecordEndFails ==
    /\ Raises
    /\ At("cut") \/ At("failed")
    /\ Goes("die")
    /\ UNCHANGED <<RestButFaults, log, TurnVars, step, repaired, reply>>

(* finally: idle again, and the page is told.                              *)
Release ==
    /\ At("end") \/ At("die")
    /\ busy' = FALSE /\ token' = "none"
    /\ step' = 0 /\ repaired' = FALSE /\ reply' = NoReply
    /\ Goes(IF At("die") THEN "dead" ELSE "get")
    /\ UNCHANGED <<Rest, log, message, turn>>

(* The server dies and starts again: what was in memory is gone.           *)
Crash ==
    /\ Fault
    /\ queue' = <<>>
    /\ worker' = "get" /\ message' = Wake /\ busy' = FALSE /\ token' = "none"
    /\ step' = 0 /\ repaired' = FALSE /\ reply' = NoReply
    /\ sayer' = [m \in Messages |-> "idle"] /\ stopper' = 0 /\ herald' = "idle"
    /\ UNCHANGED <<log, earlier, turn, said, told, pressed>>
-----------------------------------------------------------------------------
Requests ==
    \/ \E m \in Messages : NoteQueued(m) \/ PutMessage(m)
    \/ CancelToken \/ SeeIdle \/ PutWake
Work ==
    \/ Take \/ Drop \/ Begin \/ RecordSaid \/ Reply \/ NoAnswer \/ Repair \/ RunCall
    \/ CallRaises \/ Finish \/ AppendFails \/ RecordEnd \/ RecordEndFails \/ Release

Next == Say \/ PressStop \/ TellEvent \/ Requests \/ Work \/ Crash

Spec == Init /\ [][Next]_vars

(* As long as one of the threads can go on, one of them does; a request to *)
(* the model comes to an end (it has a timeout).                           *)
FairSpec == Spec /\ WF_vars(Requests \/ Work)
-----------------------------------------------------------------------------
Places == {"get", "got", "said", "ask", "repair", "run", "finish", "cut", "failed",
           "end", "die", "dead"}
Outcomes == {"turn_finished", "turn_cancelled", "agent_error"}
RecordKinds == Outcomes \cup
    {"user_said", "agent_said", "event_said", "tool_result"}

TypeOK ==
    /\ log \in Seq([kind : RecordKinds, turn : Nat, step : 0..MaxSteps, n : Nat])
    /\ queue \in Seq(0..said)
    /\ worker \in Places /\ message \in 0..said
    /\ busy \in BOOLEAN /\ token \in {"none", "live", "cut"} /\ (busy <=> token # "none")
    /\ turn \in Nat /\ step \in 0..MaxSteps /\ repaired \in BOOLEAN
    /\ reply \in Replies
    /\ sayer \in [Messages -> {"idle", "note", "put"}] /\ earlier \in [Messages -> SUBSET Messages]
    /\ stopper \in 0..turn /\ herald \in {"idle", "told", "wake"}
    /\ said \in 0..MaxSaid /\ told \in 0..MaxEvents
    /\ pressed \subseteq 1..turn /\ faults \in 0..MaxFaults

Of(kind) == {i \in DOMAIN log : log[i].kind = kind}

(* m may be recorded before n: it is another message, and its request did  *)
(* not begin only after n's had ended.                                     *)
MayPrecede(m, n) == m # n /\ n \notin earlier[m]

(* What the operator says is recorded once, and a message after all whose  *)
(* requests had ended when its own began (of requests at the same time,    *)
(* either may be first), whatever was queued, stopped, woken or restarted. *)
SaidInOrder ==
    \A i, j \in Of("user_said") : i < j => MayPrecede(log[i].n, log[j].n)

(* A turn that goes on or ends well has one result for each call it chose, *)
(* before anything the model says next: the history of a call is whole.    *)
CallsAnswered ==
    \A i \in Of("agent_said"), j \in DOMAIN log :
        (/\ i < j /\ log[j].turn = log[i].turn
         /\ log[j].kind \in {"agent_said", "turn_finished", "turn_cancelled"})
        => \A call \in 1..log[i].n :
             Cardinality({k \in i..j : /\ log[k].kind = "tool_result"
                                       /\ log[k].turn = log[i].turn
                                       /\ log[k].step = log[i].step
                                       /\ log[k].n = call}) = 1

(* A turn is ended as interrupted only if the operator stopped that turn:  *)
(* a stop that comes late never costs the next message its answer.         *)
StopIsForItsTurn ==
    \A i \in Of("turn_cancelled") : log[i].turn \in pressed

(* Once something waits in the queue, the time comes when all that has     *)
(* been said is answered -- recorded, and its turn ended -- unless an      *)
(* append has failed or the server has died.                               *)
Ended(m) == \E i \in Of("user_said"), j \in DOMAIN log :
                log[i].n = m /\ log[j].turn = log[i].turn /\ log[j].kind \in Outcomes
Answered == queue # <<>> ~> (faults > 0 \/ \A m \in 1..said : Ended(m))
=============================================================================
