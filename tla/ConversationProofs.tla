------------------------- MODULE ConversationProofs -------------------------
(***************************************************************************)
(* What the operator says is recorded once and in order, and a stop ends   *)
(* only the turn it was pressed for, for any number of steps, messages,    *)
(* events, stops and faults.                                               *)
(*                                                                         *)
(* The argument for the order: a message is recorded, in the worker's      *)
(* hand, in the queue or still in the hand of the request that says it,    *)
(* and along that line each may precede the next (InLine); one whose       *)
(* request has not ended is earlier than none (Heard).  For the stop: the  *)
(* number of the stopped turn is among the pressed ones from the press     *)
(* until the turn's end is recorded (Owed).                                *)
(***************************************************************************)
EXTENDS Conversation, SequenceTheorems, FiniteSetTheorems, TLAPS

(* Only a step that is not the last repairs or calls; turns count from 1;  *)
(* only what has been said has a request.                                  *)
Positions ==
    /\ worker \in {"repair", "run"} => step < MaxSteps
    /\ busy => turn > 0
    /\ \A m \in Messages : sayer[m] # "idle" => m <= said

TInv == TypeOK /\ Positions

(* A stop on its way is a pressed one.                                     *)
Owed ==
    /\ stopper # 0 => stopper \in pressed
    /\ token = "cut" => turn \in pressed
    /\ worker = "cut" => turn \in pressed

InHand == worker \in {"got", "said"} /\ message # Wake
Queued == {k \in DOMAIN queue : queue[k] # Wake}

(* The messages whose requests have ended.                                 *)
Done == {m \in 1..said : sayer[m] = "idle"}

Heard == \A m \in Messages : earlier[m] \subseteq Done

(* n may come before all that is still to be recorded.                     *)
BeforeQueue(n) == \A k \in Queued : MayPrecede(n, queue[k])
BeforeHand(n) == InHand => MayPrecede(n, message)

InLine ==
    /\ \A i \in Of("user_said") :
         log[i].n \in Done /\ BeforeHand(log[i].n) /\ BeforeQueue(log[i].n)
    /\ InHand => message \in Done /\ BeforeQueue(message)
    /\ \A j, k \in Queued : j < k => MayPrecede(queue[j], queue[k])
    /\ \A k \in Queued : queue[k] \in Done
    /\ worker = "said" => message # Wake
-----------------------------------------------------------------------------
(* What an append to the ledger does to it.                                *)
LEMMA LogGrows ==
    ASSUME TypeOK, NEW kind \in RecordKinds, NEW n \in Nat, Writes(kind, n)
    PROVE  /\ log' \in Seq([kind : RecordKinds, turn : Nat, step : 0..MaxSteps, n : Nat])
           /\ Len(log) \in Nat /\ DOMAIN log = 1..Len(log)
           /\ DOMAIN log' = 1..(Len(log) + 1)
           /\ \A i \in DOMAIN log : log'[i] = log[i]
           /\ log'[Len(log) + 1] = Record(kind, n)
<1> DEFINE R == [kind : RecordKinds, turn : Nat, step : 0..MaxSteps, n : Nat]
<1>1. Record(kind, n) \in R /\ log \in Seq(R)
  BY DEF TypeOK, Record
<1> HIDE DEF R
<1>2. log' = Append(log, Record(kind, n))
  BY DEF Writes
<1>3. log' \in Seq(R) /\ Len(log') = Len(log) + 1
  BY <1>1, <1>2
<1>4. \A i \in 1..Len(log) : log'[i] = log[i]
  BY <1>1, <1>2, AppendProperties
<1>5. log'[Len(log) + 1] = Record(kind, n)
  BY <1>1, <1>2, AppendProperties
<1>6. Len(log) \in Nat /\ DOMAIN log = 1..Len(log) /\ DOMAIN log' = 1..(Len(log) + 1)
  BY <1>1, <1>3
<1>7. log' \in Seq([kind : RecordKinds, turn : Nat, step : 0..MaxSteps, n : Nat])
  BY <1>3 DEF R
<1> QED
  BY <1>4, <1>5, <1>6, <1>7

(* An append of another kind leaves the records of a kind as they are.     *)
LEMMA OtherKind ==
    ASSUME TypeOK, NEW kind \in RecordKinds, NEW n \in Nat, Writes(kind, n),
           NEW other, other # kind
    PROVE  Of(other)' = Of(other) /\ \A i \in Of(other) : log'[i] = log[i]
<1>1. /\ DOMAIN log' = 1..(Len(log) + 1) /\ DOMAIN log = 1..Len(log) /\ Len(log) \in Nat
      /\ \A i \in DOMAIN log : log'[i] = log[i]
      /\ log'[Len(log) + 1] = Record(kind, n)
  BY LogGrows
<1>2. Record(kind, n).kind = kind
  BY DEF Record
<1> QED
  BY <1>1, <1>2 DEF Of
-----------------------------------------------------------------------------
(* The calls of a reply that are run, and the results there are.           *)
LEMMA ResultsIsNat == TypeOK => Results \in Nat
<1> SUFFICES ASSUME TypeOK PROVE Results \in Nat
  OBVIOUS
<1> DEFINE Mine == {i \in DOMAIN log : log[i].kind = "tool_result"
                            /\ log[i].turn = turn /\ log[i].step = step}
<1>1. DOMAIN log = 1..Len(log) /\ Len(log) \in Nat
  BY DEF TypeOK
<1>2. IsFiniteSet(1..Len(log))
  BY <1>1, FS_Interval
<1>3. IsFiniteSet(Mine)
  BY <1>1, <1>2, FS_Subset
<1> QED
  BY <1>3, FS_CardinalityType DEF Results

LEMMA CallsIsNat == ASSUME NEW r \in Replies PROVE Calls(r) \in Nat
<1>1. r.reads \in Nat
  <2>1. NoReply.reads = 0 /\ [NoReply EXCEPT !.bad = TRUE].reads = 0
    BY DEF NoReply
  <2>2. \A q \in [reads : 0..MaxReads, act : BOOLEAN, bad : {FALSE}] : q.reads \in Nat
    BY ConversationAssumption
  <2>3. ASSUME r = NoReply \/ r = [NoReply EXCEPT !.bad = TRUE] PROVE r.reads \in Nat
    <3>1. r.reads = 0
      BY <2>1, <2>3, Zenon
    <3> QED
      BY <3>1
  <2>4. \/ r = NoReply \/ r = [NoReply EXCEPT !.bad = TRUE]
        \/ r \in [reads : 0..MaxReads, act : BOOLEAN, bad : {FALSE}]
    BY Zenon DEF Replies
  <2> QED
    BY <2>2, <2>3, <2>4, Zenon
<1> QED
  BY <1>1 DEF Calls

LEMMA ChosenIsNat ==
    ASSUME NEW r \in Replies
    PROVE  Chosen(r) \in Nat /\ (Chosen(r) > 0 => ~Last)
BY CallsIsNat DEF Chosen
-----------------------------------------------------------------------------
(* The types are kept.                                                     *)
LEMMA TInvInit == Init => TInv
<1> SUFFICES ASSUME Init PROVE TInv
  OBVIOUS
<1>1. busy \in BOOLEAN /\ (busy <=> token # "none") /\ ~busy
  BY DEF Init
<1>2. log \in Seq([kind : RecordKinds, turn : Nat, step : 0..MaxSteps, n : Nat])
  BY DEF Init
<1>3. reply \in Replies
  BY DEF Init, NoReply, Replies
<1> QED
  <2>1. /\ queue = <<>> /\ worker = "get" /\ message = 0 /\ token = "none" /\ turn = 0 /\ step = 0
        /\ sayer \in [Messages -> {"idle", "note", "put"}] /\ earlier \in [Messages -> SUBSET Messages]
        /\ \A m \in Messages : sayer[m] = "idle"
        /\ stopper = 0 /\ herald = "idle"
        /\ said = 0 /\ told = 0 /\ pressed = {} /\ faults = 0
    BY DEF Init, Wake
  <2>2. repaired \in BOOLEAN
    BY DEF Init
  <2> QED
    BY <1>1, <1>2, <1>3, <2>1, <2>2, ConversationAssumption DEF TInv, TypeOK, Positions, Places

LEMMA TInvNext == TInv /\ [Next]_vars => TInv'
<1> SUFFICES ASSUME TInv, [Next]_vars PROVE TInv'
  OBVIOUS
<1> USE ConversationAssumption
<1>t. TypeOK /\ Positions
  BY DEF TInv
<1>r. NoReply \in Replies /\ Results \in Nat
  BY <1>t, ResultsIsNat DEF NoReply, Replies
<1>l. ASSUME NEW kind \in RecordKinds, NEW n \in Nat, Writes(kind, n)
      PROVE  log' \in Seq([kind : RecordKinds, turn : Nat, step : 0..MaxSteps, n : Nat])
  BY <1>t, <1>l, LogGrows
<1>s. said \in Nat /\ turn \in Nat /\ faults \in Nat /\ message \in Nat
  BY <1>t DEF TypeOK
<1>1. CASE Say
  <2>1. queue \in Seq(0..said')
    <3> DEFINE now == 0..said
               then == 0..said'
    <3>1. queue' \in Seq(now) /\ now \subseteq then
      BY <1>1, <1>t, <1>s DEF Say, TypeOK
    <3> HIDE DEF now, then
    <3>2. queue' \in Seq(then)
      BY <3>1
    <3> QED
      BY <1>1, <3>2 DEF Say, then
  <2> QED
    <3>1. said' = said + 1 /\ said' \in 0..MaxSaid
      BY <1>1, <1>t DEF Say, TypeOK
    <3>2. sayer' \in [Messages -> {"idle", "note", "put"}] /\ earlier' \in [Messages -> SUBSET Messages]
      <4>1. {m \in 1..said : sayer[m] = "idle"} \in SUBSET Messages
        BY <1>1, <1>t DEF Say, TypeOK, Messages
      <4> QED
        BY <1>1, <1>t, <4>1 DEF Say, TypeOK
    <3>3. message \in 0..said' /\ \A m \in Messages : sayer'[m] # "idle" => m <= said'
      BY <1>1, <1>t, <1>s, <3>1 DEF Say, TypeOK, Positions, Messages
    <3> QED
      BY <1>1, <1>t, <2>1, <3>1, <3>2, <3>3 DEF Say, workerVars, sayers, TInv, TypeOK, Positions
<1>2. CASE \E m \in Messages : NoteQueued(m)
  <2>1. PICK m \in Messages : NoteQueued(m)
    BY <1>2
  <2>2. /\ sayer' \in [Messages -> {"idle", "note", "put"}] /\ UNCHANGED earlier
        /\ \A n \in Messages : sayer'[n] # "idle" => n <= said
    BY <1>t, <2>1 DEF NoteQueued, SayerGoes, TypeOK, Positions
  <2> QED
    BY <1>t, <2>1, <2>2 DEF NoteQueued, Raises, Fault, workerVars, sayers, TInv, TypeOK, Positions
<1>3. CASE \E m \in Messages : PutMessage(m)
  <2>1. PICK m \in Messages : PutMessage(m)
    BY <1>3
  <2>2. /\ sayer' \in [Messages -> {"idle", "note", "put"}] /\ UNCHANGED earlier
        /\ \A n \in Messages : sayer'[n] # "idle" => n <= said
    BY <1>t, <2>1 DEF PutMessage, SayerGoes, TypeOK, Positions
  <2>3. queue' \in Seq(0..said)
    <3>1. queue \in Seq(0..said) /\ m \in 0..said /\ queue' = Append(queue, m)
      BY <1>t, <2>1 DEF PutMessage, TypeOK, Positions, Messages
    <3> QED
      BY <3>1
  <2> QED
    BY <1>t, <1>s, <2>1, <2>2, <2>3 DEF PutMessage, workerVars, sayers, counters, TInv, TypeOK, Positions
<1>4. CASE PressStop
  BY <1>4, <1>t DEF PressStop, workerVars, sayers, TInv, TypeOK, Positions
<1>5. CASE CancelToken
  BY <1>5, <1>t DEF CancelToken, StopsTurn, sayers, counters, TInv, TypeOK, Positions
<1>6. CASE TellEvent
  BY <1>6, <1>t DEF TellEvent, Raises, Fault, workerVars, sayers, TInv, TypeOK, Positions
<1>7. CASE SeeIdle
  BY <1>7, <1>t DEF SeeIdle, workerVars, sayers, counters, TInv, TypeOK, Positions
<1>8. CASE PutWake
  BY <1>8, <1>t, <1>s DEF PutWake, Wake, workerVars, sayers, counters, TInv, TypeOK, Positions
<1>9. CASE Take
  BY <1>9, <1>t DEF Take, At, Goes, inputVars, sayers, counters, TInv, TypeOK, Positions, Places
<1>10. CASE Drop
  BY <1>10, <1>t DEF Drop, At, Goes, Rest, TurnVars, inputVars, sayers, counters, TInv, TypeOK, Positions, Places
<1>11. CASE Begin
  <2>1. busy' \in BOOLEAN /\ (busy' <=> token' # "none")
    BY <1>11 DEF Begin
  <2>2. /\ UNCHANGED <<Rest, log, message>>
        /\ token' = "live" /\ turn' = turn + 1 /\ step' = 1 /\ reply' = NoReply
        /\ worker' \in {"ask", "said"} /\ repaired' \in BOOLEAN
    BY <1>11 DEF Begin, Goes
  <2>3. Positions'
    BY <1>t, <1>s, <2>2 DEF Positions, Rest, inputVars, sayers, counters
  <2>4. TypeOK'
    BY <1>t, <1>r, <1>s, <2>1, <2>2 DEF Rest, inputVars, sayers, counters, TypeOK, Places
  <2> QED
    BY <2>3, <2>4 DEF TInv
<1>12. CASE RecordSaid
  <2>1. log' \in Seq([kind : RecordKinds, turn : Nat, step : 0..MaxSteps, n : Nat])
    BY <1>12, <1>l, <1>s DEF RecordSaid, RecordKinds
  <2> QED
    BY <1>12, <1>t, <2>1 DEF RecordSaid, At, Goes, Rest, TurnVars, inputVars, sayers, counters, TInv, TypeOK, Positions, Places
<1>13. CASE Reply
  <2>1. PICK r \in Replies :
           /\ reply' = r
           /\ Writes("agent_said", Chosen(r))
           /\ Goes(IF Chosen(r) > 0 THEN "run"
                   ELSE IF r.bad /\ ~repaired /\ ~Last THEN "repair"
                   ELSE "finish")
    BY <1>13 DEF Reply
  <2>2. Chosen(r) \in Nat /\ (Chosen(r) > 0 => ~Last)
    BY <1>t, ChosenIsNat
  <2>3. log' \in Seq([kind : RecordKinds, turn : Nat, step : 0..MaxSteps, n : Nat])
    BY <2>1, <2>2, <1>l DEF RecordKinds
  <2>4. worker' \in {"run", "repair", "finish"} /\ (worker' \in {"repair", "run"} => ~Last)
    BY <2>1, <2>2 DEF Goes
  <2>5. ~Last => step < MaxSteps
    BY <1>t DEF Last, TypeOK
  <2> QED
    BY <1>13, <1>t, <2>1, <2>3, <2>4, <2>5
    DEF Reply, Rest, TurnVars, inputVars, sayers, counters, TInv, TypeOK, Positions, Places
<1>14. CASE NoAnswer
  BY <1>14, <1>t DEF NoAnswer, At, Goes, Rest, TurnVars, inputVars, sayers, counters, TInv, TypeOK, Positions, Places
<1>15. CASE Repair
  <2>1. log' \in Seq([kind : RecordKinds, turn : Nat, step : 0..MaxSteps, n : Nat])
    BY <1>15, <1>l DEF Repair, RecordKinds
  <2> QED
    BY <1>15, <1>t, <1>r, <2>1 DEF Repair, At, Goes, Rest, TurnVars, inputVars, sayers, counters, TInv, TypeOK, Positions, Places
<1>16. CASE RunCall
  <2>1. log' \in Seq([kind : RecordKinds, turn : Nat, step : 0..MaxSteps, n : Nat])
    <3>1. Results + 1 \in Nat /\ "tool_result" \in RecordKinds /\ Writes("tool_result", Results + 1)
      BY <1>16, <1>r DEF RunCall, RecordKinds
    <3> QED
      BY <3>1, <1>l
  <2>2. \/ UNCHANGED <<worker, step, reply>>
        \/ worker' = "finish" /\ UNCHANGED <<step, reply>>
        \/ worker' = "ask" /\ step' = step + 1 /\ reply' = NoReply
    BY <1>16 DEF RunCall, NextCall, Goes
  <2> QED
    BY <1>16, <1>t, <1>r, <2>1, <2>2 DEF RunCall, At, Rest, TurnVars, inputVars, sayers, counters, TInv, TypeOK, Positions, Places
<1>17. CASE CallRaises
  BY <1>17, <1>t DEF CallRaises, At, Goes, Rest, TurnVars, inputVars, sayers, counters, TInv, TypeOK, Positions, Places
<1>18. CASE Finish
  <2>1. log' \in Seq([kind : RecordKinds, turn : Nat, step : 0..MaxSteps, n : Nat])
    BY <1>18, <1>l DEF Finish, RecordKinds, Outcomes
  <2> QED
    BY <1>18, <1>t, <2>1 DEF Finish, At, Goes, Rest, TurnVars, inputVars, sayers, counters, TInv, TypeOK, Positions, Places
<1>19. CASE AppendFails
  BY <1>19, <1>t DEF AppendFails, Raises, Fault, At, Goes, RestButFaults, TurnVars, inputVars, sayers, TInv, TypeOK, Positions, Places
<1>20. CASE RecordEnd
  <2>1. log' \in Seq([kind : RecordKinds, turn : Nat, step : 0..MaxSteps, n : Nat])
    BY <1>20, <1>l DEF RecordEnd, RecordKinds, Outcomes
  <2> QED
    BY <1>20, <1>t, <2>1 DEF RecordEnd, At, Goes, Rest, TurnVars, inputVars, sayers, counters, TInv, TypeOK, Positions, Places
<1>21. CASE RecordEndFails
  BY <1>21, <1>t DEF RecordEndFails, Raises, Fault, At, Goes, RestButFaults, TurnVars, inputVars, sayers, TInv, TypeOK, Positions, Places
<1>22. CASE Release
  <2>1. busy' \in BOOLEAN /\ (busy' <=> token' # "none")
    BY <1>22 DEF Release
  <2>2. /\ UNCHANGED <<Rest, log, message, turn>>
        /\ token' = "none" /\ step' = 0 /\ reply' = NoReply
        /\ worker' \in {"get", "dead"} /\ repaired' \in BOOLEAN
    BY <1>22 DEF Release, Goes
  <2>3. Positions'
    BY <1>t, <2>1, <2>2 DEF Positions, Rest, inputVars, sayers, counters
  <2>4. TypeOK'
    BY <1>t, <1>r, <1>s, <2>1, <2>2 DEF Rest, inputVars, sayers, counters, TypeOK, Places
  <2> QED
    BY <2>3, <2>4 DEF TInv
<1>23. CASE Crash
  <2>1. busy' \in BOOLEAN /\ (busy' <=> token' # "none")
    BY <1>23 DEF Crash
  <2>2. /\ UNCHANGED <<log, turn, said, told, pressed>>
        /\ queue' = <<>> /\ worker' = "get" /\ message' = 0
        /\ token' = "none" /\ step' = 0 /\ reply' = NoReply /\ repaired' \in BOOLEAN
        /\ sayer' = [m \in Messages |-> "idle"] /\ UNCHANGED earlier /\ stopper' = 0 /\ herald' = "idle"
        /\ faults < MaxFaults /\ faults' = faults + 1
    BY <1>23 DEF Crash, Fault, Wake
  <2>3. Positions'
    BY <2>1, <2>2 DEF Positions
  <2>4. TypeOK'
    BY <1>t, <1>r, <1>s, <2>1, <2>2 DEF TypeOK, Places
  <2> QED
    BY <2>3, <2>4 DEF TInv
<1>24. CASE UNCHANGED vars
  BY <1>24, <1>t DEF vars, workerVars, inputVars, sayers, counters, TInv, TypeOK, Positions
<1> QED
  BY <1>1, <1>2, <1>3, <1>4, <1>5, <1>6, <1>7, <1>8, <1>9, <1>10, <1>11, <1>12, <1>13, <1>14,
     <1>15, <1>16, <1>17, <1>18, <1>19, <1>20, <1>21, <1>22, <1>23, <1>24 DEF Next, Requests, Work

(* The variables of the conversation keep their types.                     *)
THEOREM Typed == Spec => []TypeOK
<1>1. TInv => TypeOK
  BY DEF TInv
<1> QED
  BY TInvInit, TInvNext, <1>1, PTL DEF Spec
-----------------------------------------------------------------------------
(* A turn ends as interrupted only when it was pressed.                    *)
SInv == Owed /\ StopIsForItsTurn

LEMMA SInvInit == Init => SInv
BY DEF Init, SInv, Owed, StopIsForItsTurn, Of

(* The record of a turn's end, and those that end no turn.                 *)
LEMMA StopRecorded ==
    ASSUME TypeOK, SInv, NEW kind \in RecordKinds, NEW n \in Nat, Writes(kind, n),
           kind = "turn_cancelled" => turn \in pressed, pressed' = pressed
    PROVE  StopIsForItsTurn'
<1>1. /\ DOMAIN log' = 1..(Len(log) + 1) /\ DOMAIN log = 1..Len(log) /\ Len(log) \in Nat
      /\ \A i \in DOMAIN log : log'[i] = log[i]
      /\ log'[Len(log) + 1] = Record(kind, n)
  BY LogGrows
<1>2. Record(kind, n).kind = kind /\ Record(kind, n).turn = turn
  BY DEF Record
<1>3. \A i \in DOMAIN log' : log'[i].kind = "turn_cancelled" => log'[i].turn \in pressed
  BY <1>1, <1>2 DEF SInv, StopIsForItsTurn, Of
<1> QED
  BY <1>3 DEF StopIsForItsTurn, Of

LEMMA SInvNext == TInv /\ SInv /\ [Next]_vars => SInv'
<1> SUFFICES ASSUME TInv, SInv, [Next]_vars PROVE SInv'
  OBVIOUS
<1>t. TypeOK /\ Owed /\ StopIsForItsTurn
  BY DEF TInv, SInv
<1>q. ASSUME UNCHANGED log, pressed \subseteq pressed' PROVE StopIsForItsTurn'
  BY <1>t, <1>q DEF StopIsForItsTurn, Of
<1>l. ASSUME NEW kind \in RecordKinds, NEW n \in Nat, Writes(kind, n),
             kind # "turn_cancelled" \/ worker = "cut", pressed' = pressed
      PROVE  StopIsForItsTurn'
  BY <1>l, <1>t, StopRecorded DEF Owed
<1>1. CASE Say \/ (\E m \in Messages : NoteQueued(m) \/ PutMessage(m)) \/ TellEvent \/ SeeIdle \/ PutWake
  BY <1>1, <1>t, <1>q DEF Say, NoteQueued, PutMessage, TellEvent, SeeIdle, PutWake, Raises, Fault,
     workerVars, sayers, counters, SInv, Owed
<1>2. CASE PressStop
  BY <1>2, <1>t, <1>q DEF PressStop, workerVars, sayers, SInv, Owed
<1>3. CASE CancelToken
  BY <1>3, <1>t, <1>q DEF CancelToken, StopsTurn, sayers, counters, SInv, Owed
<1>4. CASE Take \/ Drop \/ NoAnswer \/ CallRaises \/ AppendFails \/ RecordEndFails
  BY <1>4, <1>t, <1>q DEF Take, Drop, NoAnswer, CallRaises, AppendFails, RecordEndFails, Raises, Fault,
     At, Goes, Rest, RestButFaults, TurnVars, inputVars, sayers, counters, SInv, Owed
<1>5. CASE Begin
  BY <1>5, <1>t, <1>q DEF Begin, At, Goes, Rest, inputVars, sayers, counters, SInv, Owed
<1>6. CASE RecordSaid
  <2>1. StopIsForItsTurn'
    <3>1. "user_said" \in RecordKinds /\ message \in Nat /\ Writes("user_said", message) /\ pressed' = pressed
      BY <1>6, <1>t DEF RecordSaid, RecordKinds, Rest, counters, TypeOK
    <3> QED
      BY <3>1, <1>l
  <2> QED
    BY <1>6, <1>t, <2>1 DEF RecordSaid, At, Goes, Rest, TurnVars, inputVars, sayers, counters, SInv, Owed
<1>7. CASE Reply
  <2>1. PICK r \in Replies : Writes("agent_said", Chosen(r)) /\ worker' # "cut"
    BY <1>7 DEF Reply, Goes
  <2>2. Chosen(r) \in Nat
    BY <1>t, ChosenIsNat
  <2>3. StopIsForItsTurn'
    <3>1. "agent_said" \in RecordKinds /\ pressed' = pressed
      BY <1>7 DEF Reply, RecordKinds, Rest, counters
    <3> QED
      BY <2>1, <2>2, <3>1, <1>l
  <2> QED
    BY <1>7, <1>t, <2>1, <2>3 DEF Reply, Rest, TurnVars, inputVars, sayers, counters, SInv, Owed
<1>8. CASE Repair
  <2>1. StopIsForItsTurn'
    <3>1. "event_said" \in RecordKinds /\ Writes("event_said", 0) /\ pressed' = pressed
      BY <1>8 DEF Repair, RecordKinds, Rest, counters
    <3> QED
      BY <3>1, <1>l
  <2> QED
    BY <1>8, <1>t, <2>1 DEF Repair, At, Goes, Rest, TurnVars, inputVars, sayers, counters, SInv, Owed
<1>9. CASE RunCall
  <2>1. StopIsForItsTurn'
    <3>1. "tool_result" \in RecordKinds /\ Writes("tool_result", Results + 1) /\ pressed' = pressed
      BY <1>9 DEF RunCall, RecordKinds, Rest, counters
    <3>2. Results + 1 \in Nat
      BY <1>t, ResultsIsNat
    <3> QED
      BY <3>1, <3>2, <1>l
  <2>2. worker' \in {worker, "finish", "ask"} /\ worker = "run"
    BY <1>9 DEF RunCall, NextCall, Goes, At
  <2> QED
    BY <1>9, <1>t, <2>1, <2>2 DEF RunCall, Rest, TurnVars, inputVars, sayers, counters, SInv, Owed
<1>10. CASE Finish
  <2>1. StopIsForItsTurn'
    <3>1. "turn_finished" \in RecordKinds /\ Writes("turn_finished", 0) /\ pressed' = pressed
      BY <1>10 DEF Finish, RecordKinds, Outcomes, Rest, counters
    <3> QED
      BY <3>1, <1>l
  <2> QED
    BY <1>10, <1>t, <2>1 DEF Finish, At, Goes, Rest, TurnVars, inputVars, sayers, counters, SInv, Owed
<1>11. CASE RecordEnd
  <2>1. StopIsForItsTurn'
    <3>1. PICK kind \in {"turn_cancelled", "agent_error"} :
             Writes(kind, 0) /\ (kind = "turn_cancelled" => worker = "cut")
      BY <1>11 DEF RecordEnd, At
    <3>2. kind \in RecordKinds /\ pressed' = pressed
      BY <1>11 DEF RecordEnd, RecordKinds, Outcomes, Rest, counters
    <3> QED
      BY <3>1, <3>2, <1>l
  <2> QED
    BY <1>11, <1>t, <2>1 DEF RecordEnd, At, Goes, Rest, TurnVars, inputVars, sayers, counters, SInv, Owed
<1>12. CASE Release
  BY <1>12, <1>t, <1>q DEF Release, At, Goes, Rest, inputVars, sayers, counters, SInv, Owed
<1>13. CASE Crash
  BY <1>13, <1>t, <1>q DEF Crash, Fault, SInv, Owed
<1>14. CASE UNCHANGED vars
  BY <1>14, <1>t, <1>q DEF vars, workerVars, inputVars, sayers, counters, SInv, Owed
<1> QED
  BY <1>1, <1>2, <1>3, <1>4, <1>5, <1>6, <1>7, <1>8, <1>9, <1>10, <1>11, <1>12, <1>13, <1>14
  DEF Next, Requests, Work

(* A turn is ended as interrupted only if the operator stopped that turn.  *)
THEOREM StopsItsTurn == Spec => []StopIsForItsTurn
<1>1. SInv => StopIsForItsTurn
  BY DEF SInv
<1> QED
  BY TInvInit, TInvNext, SInvInit, SInvNext, <1>1, PTL DEF Spec
-----------------------------------------------------------------------------
(* What the operator says stays in line.                                   *)
OInv == SaidInOrder /\ Heard /\ InLine

LEMMA OInvInit == Init => OInv
BY DEF Init, OInv, SaidInOrder, Heard, InLine, Of, Queued, InHand

(* Steps that record nothing the operator said and move no message.        *)
LEMMA Aside ==
    ASSUME TypeOK, OInv,
           Of("user_said")' = Of("user_said"), \A i \in Of("user_said") : log'[i] = log[i],
           UNCHANGED <<queue, message>>,
           InHand' => InHand, worker' = "said" => message # Wake,
           Done \subseteq Done', \A m \in Done : earlier'[m] = earlier[m], Heard'
    PROVE  OInv'
<1>1. Queued' = Queued /\ \A k \in Queued : queue'[k] = queue[k]
  BY DEF Queued
<1>2. \A i \in Of("user_said") : log[i].n \in Done
  BY DEF OInv, InLine
<1>3. SaidInOrder'
  BY <1>2 DEF OInv, SaidInOrder, MayPrecede
<1>4. ASSUME NEW n \in Done PROVE /\ BeforeHand(n) => BeforeHand(n)'
                                  /\ BeforeQueue(n) => BeforeQueue(n)'
  BY <1>1 DEF BeforeHand, BeforeQueue, MayPrecede
<1>5. InLine'
  <2>1. ASSUME NEW i \in Of("user_said")'
        PROVE  log'[i].n \in Done' /\ BeforeHand(log[i].n)' /\ BeforeQueue(log[i].n)'
    BY <2>1, <1>2, <1>4 DEF OInv, InLine
  <2>2. InHand' => message' \in Done' /\ BeforeQueue(message)'
    BY <1>4 DEF OInv, InLine
  <2>3. \A k, l \in Queued' : k < l => MayPrecede(queue[k], queue[l])'
    BY <1>1 DEF OInv, InLine, MayPrecede
  <2> QED
    BY <1>1, <2>1, <2>2, <2>3 DEF OInv, InLine, BeforeHand, BeforeQueue
<1> QED
  BY <1>3, <1>5 DEF OInv

LEMMA SayersStill ==
    ASSUME Heard, UNCHANGED <<sayers, said>>
    PROVE  Done' = Done /\ UNCHANGED earlier /\ Heard'
BY DEF Heard, Done, sayers

(* An append of another kind is such a step.                               *)
LEMMA AsideRecord ==
    ASSUME TypeOK, OInv, NEW kind \in RecordKinds, NEW n \in Nat, Writes(kind, n), kind # "user_said",
           UNCHANGED <<queue, message, sayers, said>>,
           InHand' => InHand, worker' = "said" => message # Wake
    PROVE  OInv'
BY OtherKind, Aside, SayersStill DEF OInv

(* A request ends: it was heard by none.                                   *)
LEMMA RequestGoes ==
    ASSUME TypeOK, Positions, Heard, NEW m \in Messages, NEW place, SayerGoes(m, place), sayer[m] # "idle", UNCHANGED said
    PROVE  Done \subseteq Done' /\ UNCHANGED earlier /\ Heard' /\ m \notin Done /\ (place = "idle" => m \in Done')
<1>1. /\ \A n \in Messages : sayer'[n] = IF n = m THEN place ELSE sayer[n]
      /\ UNCHANGED earlier
  BY DEF SayerGoes, TypeOK
<1>2. m \in 1..said /\ said \in 0..MaxSaid
  BY DEF TypeOK, Positions, Messages
<1>3. 1..said \subseteq Messages
  BY <1>2, ConversationAssumption DEF Messages
<1> QED
  BY <1>1, <1>2, <1>3 DEF Done, Heard

LEMMA OInvNext == TInv /\ OInv /\ [Next]_vars => OInv'
<1> SUFFICES ASSUME TInv, OInv, [Next]_vars PROVE OInv'
  OBVIOUS
<1>t. TypeOK /\ Positions /\ SaidInOrder /\ Heard /\ InLine
  BY DEF TInv, OInv
<1>s. /\ said \in Nat /\ message \in 0..said /\ queue \in Seq(0..said)
      /\ DOMAIN queue = 1..Len(queue) /\ Len(queue) \in Nat
      /\ \A k \in DOMAIN queue : queue[k] \in 0..said
  BY <1>t DEF TypeOK
<1>m. 1..said \subseteq Messages /\ MaxSaid \in Nat /\ Done \subseteq Messages
      /\ \A m \in Done : sayer[m] = "idle" /\ m <= said
  BY <1>t, <1>s, ConversationAssumption DEF TypeOK, Messages, Done
<1>k. ASSUME UNCHANGED log
      PROVE  Of("user_said")' = Of("user_said") /\ \A i \in Of("user_said") : log'[i] = log[i]
  BY <1>k DEF Of
<1>a. ASSUME UNCHANGED <<log, queue, message>>, InHand' => InHand, worker' = "said" => message # Wake,
             Done \subseteq Done', \A m \in Done : earlier'[m] = earlier[m], Heard'
      PROVE  OInv'
  BY <1>a, <1>k, <1>t, Aside DEF OInv
<1>u. ASSUME UNCHANGED <<log, queue, said, message, sayers>>, InHand' => InHand,
             worker' = "said" => message # Wake
      PROVE  OInv'
  BY <1>u, <1>a, <1>t, SayersStill
<1>w. UNCHANGED <<worker, message>> => (InHand' => InHand) /\ (worker' = "said" => message # Wake)
  BY <1>t DEF InHand, InLine
<1>1. CASE Say
  <2>1. /\ said' = said + 1 /\ said + 1 \in Messages /\ UNCHANGED <<log, queue, worker, message>>
        /\ \A m \in Messages \ {said + 1} : sayer'[m] = sayer[m] /\ earlier'[m] = earlier[m]
        /\ earlier'[said + 1] = Done
    <3>1. said' = said + 1 /\ said + 1 \in Messages /\ UNCHANGED <<log, queue, worker, message>>
      BY <1>1, <1>s, <1>m DEF Say, workerVars, Messages
    <3> QED
      BY <1>1, <1>t, <3>1 DEF Say, TypeOK, Done
  <2>2. Done \subseteq Messages \ {said + 1} /\ Done \subseteq Done'
    <3>1. Done \subseteq Messages \ {said + 1}
      BY <1>s, <1>m
    <3>2. \A m \in Done : m \in 1..said' /\ sayer'[m] = "idle"
      BY <1>s, <1>m, <2>1, <3>1 DEF Done
    <3> QED
      BY <3>1, <3>2 DEF Done
  <2>3. Heard'
    BY <1>t, <2>1, <2>2 DEF Heard
  <2> QED
    BY <1>a, <1>w, <2>1, <2>2, <2>3
<1>2. CASE \E m \in Messages : NoteQueued(m)
  <2>1. PICK m \in Messages, place \in {"put", "idle"} :
           SayerGoes(m, place) /\ sayer[m] # "idle" /\ UNCHANGED <<log, queue, said, message, worker>>
    BY <1>2 DEF NoteQueued, workerVars
  <2> QED
    BY <1>a, <1>t, <1>w, <2>1, RequestGoes
<1>2b. CASE PressStop \/ CancelToken \/ TellEvent \/ SeeIdle
  <2>1. UNCHANGED <<log, queue, said, message, worker, sayers>>
    BY <1>2b DEF PressStop, CancelToken, TellEvent, SeeIdle, Raises, Fault, sayers, workerVars, counters
  <2> QED
    BY <1>u, <1>w, <2>1
<1>3. CASE \E m \in Messages : PutMessage(m)
  <2>1. PICK m \in Messages : PutMessage(m)
    BY <1>3
  <2>2. /\ queue' = Append(queue, m) /\ UNCHANGED <<log, said, worker, message>>
        /\ SayerGoes(m, "idle") /\ sayer[m] # "idle"
    BY <2>1 DEF PutMessage, workerVars, counters
  <2>3. Done \subseteq Done' /\ UNCHANGED earlier /\ Heard' /\ m \notin Done /\ m \in Done'
    BY <1>t, <2>2, RequestGoes
  <2>4. /\ DOMAIN queue' = 1..(Len(queue) + 1)
        /\ \A k \in DOMAIN queue : queue'[k] = queue[k]
        /\ queue'[Len(queue) + 1] = m
    <3>1. m \in 0..said
      BY <1>t, <1>s, <2>2 DEF Positions, Messages
    <3> QED
      BY <1>s, <2>2, <3>1, AppendProperties
  <2>5. m # Wake
    BY DEF Wake, Messages
  <2>6. Queued' = Queued \cup {Len(queue) + 1} /\ \A k \in Queued : queue'[k] = queue[k] /\ k \in 1..Len(queue)
    BY <1>s, <2>4, <2>5 DEF Queued, Wake
  <2>7. \A n, b : MayPrecede(n, b) => MayPrecede(n, b)'
    BY <2>3 DEF MayPrecede
  <2>8. \A n \in Done : MayPrecede(n, m)'
    <3>1. \A n \in Done : earlier[n] \subseteq Done /\ n # m
      BY <1>t, <1>m, <2>3 DEF Heard
    <3> QED
      BY <2>3, <3>1 DEF MayPrecede
  <2>9. Of("user_said")' = Of("user_said") /\ InHand' = InHand /\ SaidInOrder'
    BY <1>t, <2>2, <2>7 DEF Of, InHand, SaidInOrder
  <2>10. ASSUME NEW n \in Done, BeforeQueue(n) PROVE BeforeQueue(n)'
    BY <2>4, <2>6, <2>7, <2>8, <2>10 DEF BeforeQueue
  <2>11. \A k, l \in Queued' : k < l => MayPrecede(queue[k], queue[l])'
    BY <1>t, <1>s, <2>4, <2>6, <2>7, <2>8 DEF InLine
  <2>12. \A k \in Queued' : queue'[k] \in Done'
    BY <1>t, <2>3, <2>4, <2>6 DEF InLine
  <2>13. \A i \in Of("user_said")' : log'[i].n \in Done' /\ BeforeHand(log[i].n)' /\ BeforeQueue(log[i].n)'
    BY <1>t, <2>2, <2>3, <2>7, <2>9, <2>10 DEF InLine, BeforeHand
  <2>14. InHand' => message' \in Done' /\ BeforeQueue(message)'
    BY <1>t, <2>2, <2>3, <2>9, <2>10 DEF InLine
  <2>15. InLine'
    BY <1>t, <2>2, <2>11, <2>12, <2>13, <2>14 DEF InLine, BeforeHand, BeforeQueue
  <2> QED
    BY <2>3, <2>9, <2>15 DEF OInv
<1>4. CASE PutWake
  <2>1. queue' = Append(queue, Wake) /\ UNCHANGED <<log, said, worker, message, sayers>>
    BY <1>4 DEF PutWake, workerVars, counters
  <2>2. /\ DOMAIN queue' = 1..(Len(queue) + 1)
        /\ \A k \in DOMAIN queue : queue'[k] = queue[k]
        /\ queue'[Len(queue) + 1] = Wake
    BY <1>s, <2>1, AppendProperties DEF Wake
  <2>3. Queued' = Queued /\ \A k \in Queued : queue'[k] = queue[k]
    BY <1>s, <2>2 DEF Queued
  <2>4. Done' = Done /\ UNCHANGED earlier /\ Heard'
    BY <1>t, <2>1, SayersStill
  <2>5. Of("user_said")' = Of("user_said") /\ InHand' = InHand /\ SaidInOrder'
    BY <1>t, <2>1, <2>4 DEF Of, InHand, SaidInOrder, MayPrecede
  <2>6. \A n : BeforeQueue(n) => BeforeQueue(n)'
    BY <2>3, <2>4 DEF BeforeQueue, MayPrecede
  <2>7. \A n : BeforeHand(n) => BeforeHand(n)'
    BY <2>1, <2>4, <2>5 DEF BeforeHand, MayPrecede
  <2>8. \A k, l \in Queued' : k < l => MayPrecede(queue[k], queue[l])'
    BY <1>t, <2>3, <2>4 DEF InLine, MayPrecede
  <2>9. InLine'
    BY <1>t, <2>1, <2>3, <2>4, <2>5, <2>6, <2>7, <2>8 DEF InLine, BeforeHand, BeforeQueue
  <2> QED
    BY <2>4, <2>5, <2>9 DEF OInv
<1>5. CASE Take
  <2>1. /\ queue # <<>> /\ message' = Head(queue) /\ queue' = Tail(queue) /\ worker' = "got"
        /\ worker = "get" /\ UNCHANGED <<log, said, sayers>>
    BY <1>5 DEF Take, At, Goes, inputVars, counters
  <2>2. /\ message' = queue[1] /\ 1 \in DOMAIN queue
        /\ DOMAIN queue' = 1..(Len(queue) - 1)
        /\ \A k \in 1..(Len(queue) - 1) : queue'[k] = queue[k + 1]
    BY <1>s, <2>1, HeadTailProperties
  <2>3. \A k \in Queued' : k + 1 \in Queued /\ 1 < k + 1 /\ queue'[k] = queue[k + 1]
    BY <1>s, <2>2 DEF Queued
  <2>4. InHand' => 1 \in Queued
    BY <2>1, <2>2 DEF InHand, Queued
  <2>5. Done' = Done /\ UNCHANGED earlier /\ Heard'
    BY <1>t, <2>1, SayersStill
  <2>6. \A n, b : MayPrecede(n, b) => MayPrecede(n, b)'
    BY <2>5 DEF MayPrecede
  <2>7. Of("user_said")' = Of("user_said") /\ SaidInOrder'
    BY <1>t, <2>1, <2>6 DEF Of, SaidInOrder
  <2>8. ASSUME NEW n, BeforeQueue(n)
        PROVE  BeforeQueue(n)' /\ BeforeHand(n)'
    <3>1. \A k \in Queued' : MayPrecede(n, queue[k])'
      BY <2>3, <2>6, <2>8 DEF BeforeQueue
    <3>2. InHand' => MayPrecede(n, message)'
      BY <2>2, <2>4, <2>6, <2>8 DEF BeforeQueue
    <3> QED
      BY <3>1, <3>2 DEF BeforeQueue, BeforeHand
  <2>9. InHand' => message' \in Done' /\ BeforeQueue(message)'
    <3>1. ASSUME InHand', NEW k \in Queued' PROVE MayPrecede(message, queue[k])'
      <4>1. MayPrecede(queue[1], queue[k + 1])
        BY <1>t, <2>3, <2>4, <3>1 DEF InLine
      <4> QED
        BY <2>2, <2>3, <2>6, <4>1
    <3> QED
      BY <1>t, <2>2, <2>4, <2>5, <3>1 DEF InLine, BeforeQueue
  <2>10. \A k, l \in Queued' : k < l => MayPrecede(queue[k], queue[l])'
    <3>1. SUFFICES ASSUME NEW k \in Queued', NEW l \in Queued', k < l PROVE MayPrecede(queue[k], queue[l])'
      OBVIOUS
    <3>2. k + 1 < l + 1
      BY <2>2, <3>1 DEF Queued
    <3>3. MayPrecede(queue[k + 1], queue[l + 1])
      BY <1>t, <2>3, <3>2 DEF InLine
    <3> QED
      BY <2>3, <2>6, <3>3
  <2>11. InLine'
    <3>1. \A k \in Queued' : queue'[k] \in Done'
      BY <1>t, <2>3, <2>5 DEF InLine
    <3>2. \A i \in Of("user_said")' : log'[i].n \in Done' /\ BeforeHand(log[i].n)' /\ BeforeQueue(log[i].n)'
      BY <1>t, <2>1, <2>5, <2>7, <2>8 DEF InLine
    <3> QED
      BY <2>1, <2>9, <2>10, <3>1, <3>2 DEF InLine
  <2> QED
    BY <2>5, <2>7, <2>11 DEF OInv
<1>6. CASE Drop \/ NoAnswer \/ CallRaises \/ AppendFails \/ RecordEndFails \/ Begin \/ Release
  <2>1. UNCHANGED <<log, queue, said, message, sayers>>
    BY <1>6 DEF Drop, NoAnswer, CallRaises, AppendFails, RecordEndFails, Begin, Release,
       Rest, RestButFaults, TurnVars, inputVars, counters
  <2>2. /\ worker' \in {"said"} => message # Wake
        /\ worker' \in {"got", "said"} => worker = "got"
    BY <1>6 DEF Drop, NoAnswer, CallRaises, AppendFails, RecordEndFails, Begin, Release, At, Goes
  <2> QED
    BY <1>u, <2>1, <2>2 DEF InHand
<1>7. CASE RecordSaid
  <2>1. /\ Writes("user_said", message) /\ "user_said" \in RecordKinds /\ message \in Nat
        /\ worker = "said" /\ worker' = "ask" /\ UNCHANGED <<queue, said, message, sayers>>
    BY <1>7, <1>s DEF RecordSaid, At, Goes, Rest, TurnVars, inputVars, counters, RecordKinds
  <2>2. /\ DOMAIN log' = 1..(Len(log) + 1) /\ DOMAIN log = 1..Len(log) /\ Len(log) \in Nat
        /\ \A i \in DOMAIN log : log'[i] = log[i]
        /\ log'[Len(log) + 1] = Record("user_said", message)
    BY <1>t, <2>1, LogGrows
  <2>3. Record("user_said", message).kind = "user_said" /\ Record("user_said", message).n = message
    BY DEF Record
  <2>4. /\ Of("user_said")' = Of("user_said") \cup {Len(log) + 1}
        /\ \A i \in Of("user_said") : log'[i] = log[i] /\ i \in 1..Len(log)
    BY <2>2, <2>3 DEF Of
  <2>5. InHand /\ ~InHand' /\ Queued' = Queued
    BY <1>t, <2>1 DEF InLine, InHand, Queued
  <2>6. Done' = Done /\ UNCHANGED earlier /\ Heard'
    BY <1>t, <2>1, SayersStill
  <2>7. \A n, b : MayPrecede(n, b) => MayPrecede(n, b)'
    BY <2>6 DEF MayPrecede
  <2>8. \A i \in Of("user_said") : MayPrecede(log[i].n, message)
    BY <1>t, <2>5 DEF InLine, BeforeHand
  <2>9. SaidInOrder'
    <3>1. SUFFICES ASSUME NEW i \in Of("user_said")', NEW j \in Of("user_said")', i < j
                   PROVE  MayPrecede(log[i].n, log[j].n)'
      BY DEF SaidInOrder
    <3>2. i \in Of("user_said")
      BY <2>2, <2>4, <3>1 DEF Of
    <3>3. CASE j \in Of("user_said")
      BY <1>t, <2>4, <2>7, <3>1, <3>2, <3>3 DEF SaidInOrder
    <3>4. CASE j = Len(log) + 1
      BY <2>2, <2>3, <2>4, <2>7, <2>8, <3>2, <3>4
    <3> QED
      BY <2>4, <3>3, <3>4
  <2>10. InLine'
    <3>1. ASSUME NEW i \in Of("user_said")'
          PROVE  log'[i].n \in Done' /\ \A k \in Queued' : MayPrecede(log[i].n, queue[k])'
      <4>1. \A n : BeforeQueue(n) => \A k \in Queued' : MayPrecede(n, queue[k])'
        BY <2>1, <2>5, <2>7 DEF BeforeQueue
      <4>2. log'[i].n \in Done /\ BeforeQueue(log'[i].n)
        <5>1. CASE i \in Of("user_said")
          BY <1>t, <2>4, <5>1 DEF InLine
        <5>2. CASE i = Len(log) + 1
          BY <1>t, <2>2, <2>3, <2>5, <5>2 DEF InLine
        <5> QED
          BY <2>4, <3>1, <5>1, <5>2
      <4> QED
        BY <2>6, <4>1, <4>2
    <3>2. \A k, l \in Queued' : k < l => MayPrecede(queue[k], queue[l])'
      BY <1>t, <2>1, <2>5, <2>7 DEF InLine
    <3> QED
      <4>1. \A k \in Queued' : queue'[k] \in Done'
        BY <1>t, <2>1, <2>5, <2>6 DEF InLine
      <4> QED
        BY <2>1, <2>5, <3>1, <3>2, <4>1 DEF InLine, BeforeHand, BeforeQueue
  <2> QED
    BY <2>6, <2>9, <2>10 DEF OInv
<1>8. CASE Reply
  <2>1. PICK r \in Replies : Writes("agent_said", Chosen(r)) /\ worker' \notin {"got", "said"}
    BY <1>8 DEF Reply, Goes
  <2>2. Chosen(r) \in Nat /\ "agent_said" \in RecordKinds /\ UNCHANGED <<queue, said, message, sayers>>
    BY <1>8, ChosenIsNat DEF Reply, Rest, TurnVars, inputVars, counters, RecordKinds
  <2> QED
    BY <1>t, <2>1, <2>2, AsideRecord DEF InHand
<1>9. CASE Repair \/ RunCall \/ Finish \/ RecordEnd
  <2>1. PICK kind \in RecordKinds, n \in Nat : Writes(kind, n) /\ kind # "user_said"
    BY <1>9, <1>t, ResultsIsNat DEF Repair, RunCall, Finish, RecordEnd, RecordKinds, Outcomes
  <2>2. UNCHANGED <<queue, said, message, sayers>> /\ worker' \notin {"got", "said"}
    BY <1>9 DEF Repair, RunCall, NextCall, Finish, RecordEnd, At, Goes, Rest, TurnVars, inputVars, counters
  <2> QED
    BY <1>t, <2>1, <2>2, AsideRecord DEF InHand
<1>10. CASE Crash
  <2>1. /\ queue' = <<>> /\ worker' = "get" /\ UNCHANGED <<log, said, earlier>>
        /\ \A m \in Messages : sayer'[m] = "idle"
    BY <1>10 DEF Crash
  <2>2. Done \subseteq Done'
    BY <1>m, <2>1 DEF Done
  <2>3. Of("user_said")' = Of("user_said") /\ Queued' = {} /\ ~InHand' /\ SaidInOrder' /\ Heard'
    BY <1>t, <2>1, <2>2 DEF Of, Queued, InHand, SaidInOrder, MayPrecede, Heard
  <2> QED
    BY <1>t, <2>1, <2>2, <2>3 DEF OInv, InLine, BeforeHand, BeforeQueue
<1>11. CASE UNCHANGED vars
  BY <1>11, <1>u, <1>w DEF vars, workerVars, inputVars, counters
<1> QED
  BY <1>1, <1>2, <1>2b, <1>3, <1>4, <1>5, <1>6, <1>7, <1>8, <1>9, <1>10, <1>11 DEF Next, Requests, Work

(* What the operator says is recorded once and in the order of the         *)
(* requests that say it (of two at the same time, either may be first),    *)
(* whatever was queued, stopped, woken or restarted in between.            *)
THEOREM Ordered == Spec => []SaidInOrder
<1>1. OInv => SaidInOrder
  BY DEF OInv
<1> QED
  BY TInvInit, TInvNext, OInvInit, OInvNext, <1>1, PTL DEF Spec
-----------------------------------------------------------------------------
(***************************************************************************)
(* A call that is chosen is answered before the model speaks again.        *)
(*                                                                         *)
(* The argument: the steps of a turn are numbered, and a step is new when  *)
(* the model is asked (Numbered, New), so the results of a step belong to  *)
(* one reply and follow it (Follow).  While a reply's calls run, their     *)
(* results are numbered from 1 without a gap (InRun), so the reply has one *)
(* for each call when the worker leaves "run" for anything but an error    *)
(* (Served); after an error the turn says nothing that closes it.          *)
(***************************************************************************)
Speaking == {"said", "ask", "repair", "run", "finish", "cut"}
Turning == Speaking \cup {"failed", "end", "die"}

OfStep(i, t, s) == log[i].turn = t /\ log[i].step = s
Here(i) == OfStep(i, turn, step)
ResultsOf(t, s) == {k \in Of("tool_result") : OfStep(k, t, s)}

Numbered ==
    \A i \in DOMAIN log :
        log[i].turn <= turn /\ (worker \in Turning /\ log[i].turn = turn => log[i].step <= step)
New == worker \in {"said", "ask"} => \A i \in Of("agent_said") \cup Of("tool_result") : ~Here(i)
Follow == \A i \in Of("agent_said") : \A k \in ResultsOf(log[i].turn, log[i].step) : i < k

(* One result, and no other, for each call of the reply recorded at i.     *)
HasOne(i, call) ==
    \E k \in ResultsOf(log[i].turn, log[i].step) :
        \A m \in ResultsOf(log[i].turn, log[i].step) : log[m].n = call <=> m = k
AllServed(i) == \A call \in 1..log[i].n : HasOne(i, call)
Served ==
    worker \in Speaking =>
        \A i \in Of("agent_said") : log[i].turn = turn /\ ~(worker = "run" /\ Here(i)) => AllServed(i)

InRun ==
    worker = "run" =>
        /\ \A i \in Of("agent_said") : Here(i) => log[i].n <= Calls(reply)
        /\ \A k \in ResultsOf(turn, step) : log[k].n \in 1..Results
        /\ \A call \in 1..Results : \E k \in ResultsOf(turn, step) :
              \A m \in ResultsOf(turn, step) : log[m].n = call <=> m = k

AInv == Numbered /\ New /\ Follow /\ Served /\ InRun /\ CallsAnswered

LEMMA RecordLands ==
    ASSUME TypeOK, NEW kind \in RecordKinds, NEW n \in Nat, Writes(kind, n)
    PROVE  LET last == Len(log) + 1
           IN /\ last \in Nat \ {0} /\ DOMAIN log = 1..(last - 1) /\ DOMAIN log' = 1..last
              /\ \A i \in DOMAIN log : log'[i] = log[i] /\ i < last
              /\ log'[last].kind = kind /\ log'[last].turn = turn /\ log'[last].step = step /\ log'[last].n = n
<1>1. Len(log) \in Nat /\ DOMAIN log = 1..Len(log) /\ DOMAIN log' = 1..(Len(log) + 1)
      /\ (\A i \in DOMAIN log : log'[i] = log[i]) /\ log'[Len(log) + 1] = Record(kind, n)
  BY LogGrows
<1>2. /\ Record(kind, n).kind = kind /\ Record(kind, n).turn = turn
      /\ Record(kind, n).step = step /\ Record(kind, n).n = n
  BY DEF Record
<1> QED
  BY <1>1, <1>2

LEMMA LogFields ==
    TypeOK => \A i \in DOMAIN log : log[i].turn \in Nat /\ log[i].step \in Nat /\ log[i].n \in Nat /\ i \in Nat
<1> DEFINE R == [kind : RecordKinds, turn : Nat, step : 0..MaxSteps, n : Nat]
<1>1. \A r \in R : r.turn \in Nat /\ r.step \in Nat /\ r.n \in Nat
  OBVIOUS
<1> HIDE DEF R
<1>2. ASSUME TypeOK PROVE \A i \in DOMAIN log : log[i] \in R /\ i \in Nat
  <2>1. log \in Seq(R)
    BY <1>2 DEF TypeOK, R
  <2> QED
    BY <2>1
<1> QED
  BY <1>1, <1>2

LEMMA AInvInit == Init => AInv
BY DEF Init, AInv, Numbered, New, Follow, Served, InRun, CallsAnswered, Of, ResultsOf, Turning, Speaking

(* Steps that record nothing, and leave no reply to be served.             *)
LEMMA NothingSaid ==
    ASSUME TypeOK, AInv, UNCHANGED <<log, turn>>, worker' \notin {"said", "ask", "run"},
           worker' \in Turning => worker \in Turning /\ step' = step,
           worker' \in Speaking => worker \in Speaking \ {"run"}
    PROVE  AInv'
<1>1. Numbered' /\ New' /\ Follow' /\ InRun' /\ CallsAnswered'
  BY DEF AInv, Numbered, New, Follow, InRun, CallsAnswered, Of, ResultsOf, OfStep
<1>2. \A i \in Of("agent_said") : AllServed(i) => AllServed(i)'
  BY DEF AllServed, HasOne, ResultsOf, OfStep, Of
<1>3. Served'
  BY <1>2 DEF AInv, Served, Of
<1> QED
  BY <1>1, <1>3 DEF AInv

(* What is recorded closes a turn only when the calls before it have each  *)
(* one result.                                                             *)
LEMMA ClosesWhole ==
    ASSUME TypeOK, AInv, NEW kind \in RecordKinds, NEW n \in Nat, Writes(kind, n),
           kind \in {"agent_said", "turn_finished", "turn_cancelled"} =>
               \A i \in Of("agent_said") : log[i].turn = turn => AllServed(i)
    PROVE  CallsAnswered'
<1> DEFINE last == Len(log) + 1
<1>1. /\ last \in Nat \ {0} /\ DOMAIN log = 1..(last - 1) /\ DOMAIN log' = 1..last
      /\ \A i \in DOMAIN log : log'[i] = log[i] /\ i < last
      /\ log'[last].kind = kind /\ log'[last].turn = turn /\ log'[last].step = step /\ log'[last].n = n
  BY RecordLands
<1> HIDE DEF last
<1> SUFFICES ASSUME NEW i \in Of("agent_said")', NEW j \in DOMAIN log', i < j,
                    log'[j].turn = log'[i].turn,
                    log'[j].kind \in {"agent_said", "turn_finished", "turn_cancelled"},
                    NEW call \in 1..log'[i].n
             PROVE  Cardinality({k \in i..j : /\ log'[k].kind = "tool_result"
                                              /\ log'[k].turn = log'[i].turn
                                              /\ log'[k].step = log'[i].step
                                              /\ log'[k].n = call}) = 1
  BY DEF CallsAnswered
<1>2. i \in Of("agent_said") /\ log'[i] = log[i] /\ i \in Nat
  BY <1>1 DEF Of
<1>3. CASE j \in DOMAIN log
  <2>1. \A k \in i..j : log'[k] = log[k]
    BY <1>1, <1>2, <1>3
  <2>2. {k \in i..j : /\ log'[k].kind = "tool_result" /\ log'[k].turn = log'[i].turn
                      /\ log'[k].step = log'[i].step /\ log'[k].n = call}
        = {k \in i..j : /\ log[k].kind = "tool_result" /\ log[k].turn = log[i].turn
                        /\ log[k].step = log[i].step /\ log[k].n = call}
    BY <1>2, <2>1
  <2>3. log[j].turn = log[i].turn /\ log[j].kind \in {"agent_said", "turn_finished", "turn_cancelled"}
        /\ call \in 1..log[i].n
    BY <1>1, <1>2, <1>3
  <2> QED
    BY <1>2, <1>3, <2>2, <2>3 DEF AInv, CallsAnswered
<1>4. CASE j = last
  <2>1. kind \in {"agent_said", "turn_finished", "turn_cancelled"} /\ log[i].turn = turn
    BY <1>1, <1>2, <1>4
  <2>2. HasOne(i, call)
    BY <1>2, <2>1 DEF AllServed
  <2>3. PICK k \in ResultsOf(log[i].turn, log[i].step) :
              \A m \in ResultsOf(log[i].turn, log[i].step) : log[m].n = call <=> m = k
    BY <2>2 DEF HasOne
  <2>4. i < k /\ k < last /\ k \in i..j
    BY <1>1, <1>2, <1>4, <2>3 DEF AInv, Follow, ResultsOf, Of
  <2>5. ASSUME NEW m \in i..j, log'[m].kind = "tool_result", log'[m].turn = log'[i].turn,
               log'[m].step = log'[i].step, log'[m].n = call
        PROVE  m = k
    <3>1. m # last
      BY <1>1, <2>1, <2>5
    <3>2. i \in 1..(last - 1)
      BY <1>1, <1>2 DEF Of
    <3>3. m \in DOMAIN log
      BY <1>1, <1>4, <3>1, <3>2
    <3>4. m \in ResultsOf(log[i].turn, log[i].step) /\ log[m].n = call
      BY <1>1, <1>2, <2>5, <3>3 DEF ResultsOf, OfStep, Of
    <3> QED
      BY <2>3, <3>4
  <2>6. log'[k].kind = "tool_result" /\ log'[k].turn = log'[i].turn /\ log'[k].step = log'[i].step /\ log'[k].n = call
    BY <1>1, <1>2, <2>3 DEF ResultsOf, OfStep, Of
  <2>7. {m \in i..j : /\ log'[m].kind = "tool_result" /\ log'[m].turn = log'[i].turn
                      /\ log'[m].step = log'[i].step /\ log'[m].n = call} = {k}
    BY <2>4, <2>5, <2>6
  <2> QED
    BY <2>7, FS_Singleton
<1> QED
  BY <1>1, <1>3, <1>4

(* A record that is neither a reply nor a result.                          *)
LEMMA AsideOfCalls ==
    ASSUME TypeOK, AInv, NEW kind \in RecordKinds \ {"agent_said", "tool_result"}, NEW n \in Nat, Writes(kind, n),
           turn' = turn, worker \in Turning, worker # "run",
           worker' \in {"ask", "end"}, step' \in Nat, step' >= step,
           worker' = "ask" => worker \in Speaking /\ (step' > step \/ worker = "said"),
           kind \in {"turn_finished", "turn_cancelled"} => worker \in Speaking
    PROVE  AInv'
<1> DEFINE last == Len(log) + 1
<1>1. /\ last \in Nat \ {0} /\ DOMAIN log = 1..(last - 1) /\ DOMAIN log' = 1..last
      /\ \A i \in DOMAIN log : log'[i] = log[i] /\ i < last
      /\ log'[last].kind = kind /\ log'[last].turn = turn /\ log'[last].step = step /\ log'[last].n = n
  BY RecordLands
<1>2. /\ turn \in Nat /\ step \in Nat
      /\ \A i \in DOMAIN log : log[i].turn \in Nat /\ log[i].step \in Nat /\ log[i].n \in Nat
  <2>1. turn \in Nat /\ step \in Nat
    BY DEF TypeOK
  <2>2. \A i \in DOMAIN log : log[i].turn \in Nat /\ log[i].step \in Nat /\ log[i].n \in Nat
    BY LogFields
  <2> QED
    BY <2>1, <2>2
<1> HIDE DEF last
<1>3. /\ Of("agent_said")' = Of("agent_said") /\ Of("tool_result")' = Of("tool_result")
      /\ \A i \in Of("agent_said") \cup Of("tool_result") : log'[i] = log[i] /\ i \in DOMAIN log
  BY <1>1 DEF Of
<1>4. Numbered'
  BY <1>1, <1>2 DEF AInv, Numbered, Turning
<1>5. New'
  BY <1>2, <1>3 DEF AInv, New, Numbered, Here, OfStep
<1>7. Follow'
  <2>1. \A i \in Of("agent_said") : ResultsOf(log[i].turn, log[i].step)' = ResultsOf(log[i].turn, log[i].step)
    BY <1>3 DEF ResultsOf, OfStep
  <2> QED
    BY <1>3, <2>1 DEF AInv, Follow
<1>8. Served'
  <2>1. ASSUME NEW i \in Of("agent_said"), AllServed(i) PROVE AllServed(i)'
    <3>1. ResultsOf(log[i].turn, log[i].step)' = ResultsOf(log[i].turn, log[i].step) /\ log'[i] = log[i]
      BY <1>3 DEF ResultsOf, OfStep
    <3>2. \A m \in ResultsOf(log[i].turn, log[i].step) : log'[m] = log[m]
      BY <1>3 DEF ResultsOf
    <3>3. \A call : HasOne(i, call) => HasOne(i, call)'
      BY <3>1, <3>2 DEF HasOne
    <3> QED
      BY <2>1, <3>1, <3>3 DEF AllServed
  <2> QED
    BY <1>3, <2>1 DEF AInv, Served, Speaking
<1>9. InRun'
  BY DEF InRun
<1>10. CallsAnswered'
  <2>1. kind \in {"agent_said", "turn_finished", "turn_cancelled"} =>
               \A i \in Of("agent_said") : log[i].turn = turn => AllServed(i)
    BY DEF AInv, Served
  <2> QED
    BY <2>1, ClosesWhole
<1> QED
  BY <1>4, <1>5, <1>7, <1>8, <1>9, <1>10 DEF AInv

LEMMA ResultsCount ==
    /\ Results = Cardinality(ResultsOf(turn, step))
    /\ Results' = Cardinality(ResultsOf(turn, step))'
BY DEF Results, ResultsOf, OfStep, Of

(* The model's reply is recorded: its calls, if any, are to be run.        *)
LEMMA ReplySaid == TypeOK /\ AInv /\ Reply => AInv'
<1> SUFFICES ASSUME TypeOK, AInv, Reply PROVE AInv'
  OBVIOUS
<1>0. PICK last : last = Len(log) + 1
  OBVIOUS
<1>1. PICK r \in Replies :
        /\ reply' = r
        /\ Writes("agent_said", Chosen(r))
        /\ Goes(IF Chosen(r) > 0 THEN "run"
                ELSE IF r.bad /\ ~repaired /\ ~Last THEN "repair"
                ELSE "finish")
  BY DEF Reply
<1>2. "agent_said" \in RecordKinds /\ Chosen(r) \in Nat
  BY ChosenIsNat DEF RecordKinds
<1>3. /\ last \in Nat \ {0} /\ DOMAIN log = 1..(last - 1) /\ DOMAIN log' = 1..last
      /\ \A i \in DOMAIN log : log'[i] = log[i] /\ i < last
      /\ log'[last].kind = "agent_said" /\ log'[last].turn = turn /\ log'[last].step = step
      /\ log'[last].n = Chosen(r)
  BY <1>0, <1>1, <1>2, RecordLands
<1>4. /\ worker = "ask" /\ UNCHANGED <<turn, step>>
      /\ worker' \in {"run", "repair", "finish"} /\ (worker' = "run" <=> Chosen(r) > 0)
  BY <1>1, <1>2 DEF Reply, At, Goes, TurnVars
<1>5. /\ turn \in Nat /\ step \in Nat
      /\ \A i \in DOMAIN log : log[i].turn \in Nat /\ log[i].step \in Nat /\ log[i].n \in Nat
  <2>1. turn \in Nat /\ step \in Nat
    BY DEF TypeOK
  <2>2. \A i \in DOMAIN log : log[i].turn \in Nat /\ log[i].step \in Nat /\ log[i].n \in Nat
    BY LogFields
  <2> QED
    BY <2>1, <2>2
<1>6. /\ Of("agent_said")' = Of("agent_said") \cup {last} /\ Of("tool_result")' = Of("tool_result")
      /\ \A i \in Of("agent_said") \cup Of("tool_result") : log'[i] = log[i] /\ i \in DOMAIN log /\ i # last
  <2>1. \A i \in DOMAIN log : i # last
    BY <1>3
  <2>2. \A i : i \in DOMAIN log' <=> i \in DOMAIN log \/ i = last
    BY <1>3
  <2> QED
    BY <1>3, <2>1, <2>2 DEF Of
<1>7. ResultsOf(turn, step)' = {}
  BY <1>4, <1>6 DEF AInv, New, Here, ResultsOf, OfStep
<1>8. ASSUME NEW i \in Of("agent_said")
      PROVE  /\ ResultsOf(log[i].turn, log[i].step)' = ResultsOf(log[i].turn, log[i].step)
             /\ \A m \in ResultsOf(log[i].turn, log[i].step) : log'[m] = log[m]
  BY <1>6 DEF ResultsOf, OfStep
<1>9. ResultsOf(log[last].turn, log[last].step)' = {}
  BY <1>3, <1>4, <1>7 DEF ResultsOf, OfStep
<1>10. Numbered'
  BY <1>3, <1>4, <1>5 DEF AInv, Numbered, Turning, Speaking
<1>11. New'
  BY <1>4 DEF New
<1>12. Follow'
  BY <1>6, <1>8, <1>9 DEF AInv, Follow
<1>13. Served'
  <2>1. ASSUME NEW i \in Of("agent_said"), AllServed(i) PROVE AllServed(i)'
    <3>1. \A call : HasOne(i, call) => HasOne(i, call)'
      BY <1>8 DEF HasOne
    <3> QED
      BY <1>6, <2>1, <3>1 DEF AllServed
  <2>2. worker' # "run" => AllServed(last)'
    BY <1>2, <1>3, <1>4 DEF AllServed
  <2>3. OfStep(last, turn, step)'
    BY <1>3, <1>4 DEF OfStep
  <2> QED
    BY <1>4, <1>6, <2>1, <2>2, <2>3 DEF AInv, Served, Speaking, Here
<1>14. InRun'
  <2>1. Results' = 0
    BY <1>4, <1>7, ResultsCount, FS_EmptySet
  <2>2. Chosen(r) > 0 => Chosen(r) = Calls(r)
    BY DEF Chosen
  <2>3. ASSUME worker' = "run", NEW i \in Of("agent_said")', Here(i)' PROVE log'[i].n <= Calls(reply)'
    <3>1. i = last
      BY <1>4, <1>6, <2>3 DEF AInv, New, Here, OfStep
    <3> QED
      BY <1>1, <1>2, <1>3, <1>4, <2>2, <2>3, <3>1 DEF Calls
  <2> QED
    BY <1>4, <1>7, <2>1, <2>3 DEF InRun
<1>15. CallsAnswered'
  <2>1. \A i \in Of("agent_said") : log[i].turn = turn => AllServed(i)
    BY <1>4 DEF AInv, Served, Speaking
  <2> QED
    BY <1>1, <1>2, <2>1, ClosesWhole
<1> QED
  BY <1>10, <1>11, <1>12, <1>13, <1>14, <1>15 DEF AInv

(* A result is recorded: the next of the reply, and perhaps the last.      *)
LEMMA ResultSaid == TypeOK /\ AInv /\ RunCall => AInv'
<1> SUFFICES ASSUME TypeOK, AInv, RunCall PROVE AInv'
  OBVIOUS
<1>0. PICK last : last = Len(log) + 1
  OBVIOUS
<1> DEFINE old == ResultsOf(turn, step)
           now == {k \in Of("tool_result")' : log'[k].turn = turn /\ log'[k].step = step}
<1>1. Writes("tool_result", Results + 1) /\ Results + 1 \in Nat /\ Results \in Nat /\ "tool_result" \in RecordKinds
  BY ResultsIsNat DEF RunCall, RecordKinds
<1>2. /\ last \in Nat \ {0} /\ DOMAIN log = 1..(last - 1) /\ DOMAIN log' = 1..last
      /\ \A i \in DOMAIN log : log'[i] = log[i] /\ i < last
      /\ log'[last].kind = "tool_result" /\ log'[last].turn = turn /\ log'[last].step = step
      /\ log'[last].n = Results + 1
  BY <1>0, <1>1, RecordLands
<1>3. worker = "run" /\ turn' = turn
  BY DEF RunCall, At, TurnVars
<1>4. \/ worker' = "run" /\ step' = step /\ reply' = reply
      \/ worker' = "finish" /\ step' = step /\ Results + 1 >= Calls(reply)
      \/ worker' = "ask" /\ step' = step + 1 /\ Results + 1 >= Calls(reply)
  <2>1. Calls(reply) \in Nat
    BY CallsIsNat DEF TypeOK
  <2> QED
    BY <1>1, <1>3, <2>1 DEF RunCall, NextCall, Goes
<1>5. /\ turn \in Nat /\ step \in Nat
      /\ \A i \in DOMAIN log : log[i].turn \in Nat /\ log[i].step \in Nat /\ log[i].n \in Nat
  <2>1. turn \in Nat /\ step \in Nat
    BY DEF TypeOK
  <2>2. \A i \in DOMAIN log : log[i].turn \in Nat /\ log[i].step \in Nat /\ log[i].n \in Nat
    BY LogFields
  <2> QED
    BY <2>1, <2>2
<1>6. /\ Of("agent_said")' = Of("agent_said") /\ Of("tool_result")' = Of("tool_result") \cup {last}
      /\ \A i \in Of("agent_said") \cup Of("tool_result") : log'[i] = log[i] /\ i \in DOMAIN log /\ i # last
  <2>1. \A i \in DOMAIN log : i # last
    BY <1>2
  <2>2. \A i : i \in DOMAIN log' <=> i \in DOMAIN log \/ i = last
    BY <1>2
  <2> QED
    BY <1>2, <2>1, <2>2 DEF Of
<1>7. now = old \cup {last} /\ (\A m \in old : log'[m] = log[m]) /\ last \notin old /\ old \subseteq 1..(last - 1)
  BY <1>2, <1>6 DEF ResultsOf, OfStep
<1>8. /\ \A k \in old : log[k].n \in 1..Results
      /\ \A call \in 1..Results : \E k \in old : \A m \in old : log[m].n = call <=> m = k
  BY <1>3 DEF AInv, InRun
<1>9. /\ \A k \in now : log'[k].n \in 1..(Results + 1)
      /\ \A call \in 1..(Results + 1) : \E k \in now : \A m \in now : log'[m].n = call <=> m = k
  <2>1. \A k \in now : log'[k].n \in 1..(Results + 1)
    BY <1>1, <1>2, <1>7, <1>8
  <2>2. ASSUME NEW call \in 1..Results PROVE \E k \in now : \A m \in now : log'[m].n = call <=> m = k
    <3>1. PICK k \in old : \A m \in old : log[m].n = call <=> m = k
      BY <1>8
    <3>2. call # Results + 1
      BY <1>1
    <3> QED
      BY <1>2, <1>7, <3>1, <3>2
  <2>3. \A m \in now : log'[m].n = Results + 1 <=> m = last
    BY <1>1, <1>2, <1>7, <1>8
  <2>4. \A call \in 1..(Results + 1) : call \in 1..Results \/ call = Results + 1
    BY <1>1
  <2> QED
    BY <1>7, <2>1, <2>2, <2>3, <2>4
<1>10. Cardinality(now) = Results + 1
  <2>1. IsFiniteSet(old)
    <3>1. IsFiniteSet(1..(last - 1))
      BY <1>2, FS_Interval
    <3> QED
      BY <1>7, <3>1, FS_Subset
  <2> QED
    BY <1>7, <2>1, FS_AddElement, ResultsCount
<1>11. ASSUME NEW i \in Of("agent_said"), ~Here(i)
       PROVE  /\ ResultsOf(log[i].turn, log[i].step)' = ResultsOf(log[i].turn, log[i].step)
              /\ \A m \in ResultsOf(log[i].turn, log[i].step) : log'[m] = log[m]
  BY <1>2, <1>6, <1>11 DEF ResultsOf, OfStep, Here
<1>12. ASSUME NEW i \in Of("agent_said"), Here(i)
       PROVE  ResultsOf(log[i].turn, log[i].step)' = now
  BY <1>6, <1>12 DEF ResultsOf, OfStep, Here
<1> HIDE DEF old, now
<1>13. Numbered'
  BY <1>2, <1>3, <1>4, <1>5 DEF AInv, Numbered, Turning, Speaking
<1>14. New'
  BY <1>3, <1>4, <1>5, <1>6, <1>2 DEF AInv, New, Numbered, Here, OfStep, Turning, Speaking
<1>15. Follow'
  <2>1. ASSUME NEW i \in Of("agent_said"), NEW k \in ResultsOf(log[i].turn, log[i].step)' PROVE i < k
    <3>1. CASE Here(i)
      <4>1. ResultsOf(log[i].turn, log[i].step) = old
        BY <3>1 DEF Here, OfStep, old
      <4> QED
        BY <1>2, <1>6, <1>7, <1>12, <2>1, <3>1, <4>1 DEF AInv, Follow
    <3>2. CASE ~Here(i)
      BY <1>11, <2>1, <3>2 DEF AInv, Follow
    <3> QED
      BY <3>1, <3>2
  <2> QED
    BY <1>6, <2>1 DEF Follow
<1>16. Served'
  <2>1. ASSUME NEW i \in Of("agent_said"), AllServed(i), ~Here(i) PROVE AllServed(i)'
    <3>1. \A call : HasOne(i, call) => HasOne(i, call)'
      BY <1>11, <2>1 DEF HasOne
    <3> QED
      BY <1>6, <2>1, <3>1 DEF AllServed
  <2>2. ASSUME NEW i \in Of("agent_said"), Here(i), worker' # "run" PROVE AllServed(i)'
    <3>1. log'[i] = log[i] /\ log[i].n <= Calls(reply) /\ log[i].n \in Nat
      BY <1>3, <1>5, <1>6, <2>2 DEF AInv, InRun
    <3>2. Calls(reply) <= Results + 1 /\ Calls(reply) \in Nat
      BY <1>1, <1>4, <2>2, CallsIsNat DEF TypeOK
    <3>3. \A call \in 1..log[i].n : call \in 1..(Results + 1)
      BY <1>1, <3>1, <3>2
    <3>4. \A call \in 1..(Results + 1) : HasOne(i, call)'
      BY <1>9, <1>12, <2>2 DEF HasOne
    <3> QED
      BY <3>1, <3>3, <3>4 DEF AllServed
  <2>3. ASSUME NEW i \in Of("agent_said"), log'[i].turn = turn', ~(worker' = "run" /\ Here(i)') PROVE AllServed(i)'
    <3>1. CASE Here(i)
      <4>1. worker' # "run"
        BY <1>3, <1>4, <1>6, <2>3, <3>1 DEF Here, OfStep
      <4> QED
        BY <2>2, <3>1, <4>1
    <3>2. CASE ~Here(i)
      <4>1. AllServed(i)
        BY <1>3, <1>6, <2>3, <3>2 DEF AInv, Served, Speaking
      <4> QED
        BY <2>1, <3>2, <4>1
    <3> QED
      BY <3>1, <3>2
  <2> QED
    BY <1>6, <2>3 DEF Served
<1>17. InRun'
  <2>1. ASSUME worker' = "run" PROVE InRun'
    <3>1. step' = step /\ reply' = reply
      BY <1>4, <2>1
    <3>2. ResultsOf(turn, step)' = now
      BY <1>3, <3>1 DEF ResultsOf, OfStep, now
    <3>3. Results' = Results + 1
      BY <1>3, <1>10, <3>1, <3>2, ResultsCount
    <3>4. \A i \in Of("agent_said")' : Here(i)' => log'[i].n <= Calls(reply)'
      BY <1>3, <1>6, <3>1 DEF AInv, InRun, Here, OfStep, Calls
    <3> QED
      BY <1>9, <3>2, <3>3, <3>4 DEF InRun
  <2> QED
    BY <2>1 DEF InRun
<1>18. CallsAnswered'
  BY <1>1, ClosesWhole
<1> QED
  BY <1>13, <1>14, <1>15, <1>16, <1>17, <1>18 DEF AInv

LEMMA AInvNext == TInv /\ AInv /\ [Next]_vars => AInv'
<1> SUFFICES ASSUME TInv, AInv, [Next]_vars PROVE AInv'
  OBVIOUS
<1>t. TypeOK /\ turn \in Nat /\ step \in Nat /\ message \in Nat
  BY DEF TInv, TypeOK
<1>u. ASSUME UNCHANGED <<log, worker, turn, step, reply>> PROVE AInv'
  BY <1>u DEF AInv, Numbered, New, Follow, Served, InRun, CallsAnswered, AllServed, HasOne, Here,
     ResultsOf, OfStep, Of, Results, Calls
<1>1. \/ Say \/ PressStop \/ CancelToken \/ TellEvent \/ SeeIdle \/ PutWake
      \/ \E m \in Messages : NoteQueued(m) \/ PutMessage(m)
      => AInv'
  BY <1>u DEF Say, NoteQueued, PutMessage, PressStop, CancelToken, TellEvent, SeeIdle, PutWake, workerVars, sayers
<1>2. CASE Take \/ Drop \/ NoAnswer \/ CallRaises \/ AppendFails \/ RecordEndFails \/ Release \/ Crash
  <2>1. UNCHANGED <<log, turn>> /\ worker' \notin {"said", "ask", "run"}
    BY <1>2 DEF Take, Drop, NoAnswer, CallRaises, AppendFails, RecordEndFails, Release, Crash, At, Goes, TurnVars
  <2>2. worker' \in Turning => worker \in Turning /\ step' = step
    BY <1>2 DEF Take, Drop, NoAnswer, CallRaises, AppendFails, RecordEndFails, Release, Crash, At, Goes,
       Turning, Speaking
  <2>3. worker' \in Speaking => worker \in Speaking \ {"run"}
    BY <1>2 DEF Take, Drop, NoAnswer, CallRaises, AppendFails, RecordEndFails, Release, Crash, At, Goes, Speaking
  <2> QED
    BY <1>t, <2>1, <2>2, <2>3, NothingSaid
<1>3. CASE Begin
  <2>1. log' = log /\ turn' = turn + 1 /\ worker' \in {"ask", "said"}
    BY <1>3 DEF Begin, Goes
  <2>2. \A i \in DOMAIN log : log[i].turn < turn'
    BY <1>t, <2>1, LogFields DEF AInv, Numbered
  <2>3. Numbered' /\ New' /\ Served'
    BY <1>t, <2>1, <2>2, LogFields DEF Numbered, New, Served, Here, OfStep, Of
  <2>4. Follow' /\ CallsAnswered' /\ InRun'
    BY <2>1 DEF AInv, Follow, CallsAnswered, InRun, ResultsOf, OfStep, Of
  <2> QED
    BY <2>3, <2>4 DEF AInv
<1>4. CASE RecordSaid
  <2>1. /\ Writes("user_said", message) /\ worker = "said" /\ worker' = "ask" /\ UNCHANGED <<turn, step>>
        /\ "user_said" \in RecordKinds
    BY <1>4 DEF RecordSaid, At, Goes, TurnVars, RecordKinds
  <2> QED
    BY <1>t, <2>1, AsideOfCalls DEF Turning, Speaking
<1>5. CASE Repair
  <2>1. /\ Writes("event_said", 0) /\ worker = "repair" /\ worker' = "ask" /\ turn' = turn /\ step' = step + 1
        /\ "event_said" \in RecordKinds
    BY <1>5 DEF Repair, At, Goes, TurnVars, RecordKinds
  <2> QED
    BY <1>t, <2>1, AsideOfCalls DEF Turning, Speaking
<1>6. CASE Finish
  <2>1. /\ Writes("turn_finished", 0) /\ worker = "finish" /\ worker' = "end" /\ UNCHANGED <<turn, step>>
        /\ "turn_finished" \in RecordKinds
    BY <1>6 DEF Finish, At, Goes, TurnVars, RecordKinds, Outcomes
  <2> QED
    BY <1>t, <2>1, AsideOfCalls DEF Turning, Speaking
<1>7. CASE RecordEnd
  <2>1. worker' = "end" /\ UNCHANGED <<turn, step>> /\ {"turn_cancelled", "agent_error"} \subseteq RecordKinds
    BY <1>7 DEF RecordEnd, At, Goes, TurnVars, RecordKinds, Outcomes
  <2>2. CASE worker = "cut" /\ Writes("turn_cancelled", 0)
    BY <1>t, <2>1, <2>2, AsideOfCalls DEF Turning, Speaking
  <2>3. CASE worker = "failed" /\ Writes("agent_error", 0)
    BY <1>t, <2>1, <2>3, AsideOfCalls DEF Turning, Speaking
  <2> QED
    BY <1>7, <2>2, <2>3 DEF RecordEnd, At
<1>8. CASE UNCHANGED vars
  BY <1>8, <1>u DEF vars, workerVars, sayers
<1> QED
  BY <1>t, <1>1, <1>2, <1>3, <1>4, <1>5, <1>6, <1>7, <1>8, ReplySaid, ResultSaid DEF Next, Requests, Work

(* A turn that goes on or ends well has one result for each call it chose, *)
(* before the model says anything else, for any number of calls, steps,    *)
(* repairs, stops and faults: CallsAnswered, of run_turn.                  *)
THEOREM EachCallAnswered == Spec => []CallsAnswered
<1>1. AInv => CallsAnswered
  BY DEF AInv
<1> QED
  BY TInvInit, TInvNext, AInvInit, AInvNext, <1>1, PTL DEF Spec
=============================================================================
