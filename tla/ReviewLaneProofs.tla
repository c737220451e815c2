-------------------------- MODULE ReviewLaneProofs --------------------------
(***************************************************************************)
(* The broker, the engine, and the review job that is built from them: the *)
(* theorems about each, and that the job implements the engine.            *)
(***************************************************************************)
EXTENDS ReviewLane, FiniteSetTheorems, SequenceTheorems, TLAPS

(***************************************************************************)
(* The broker keeps its rule for any number of conversations, jobs and     *)
(* tokens and any quiet period: while a conversation's request is out, no  *)
(* background request that still holds a slot was left undisturbed.        *)
(*                                                                         *)
(* The argument: a slot is taken under the lock only when the counter is   *)
(* 0, that is, when no conversation is in interactive() (Counted).  So the *)
(* slots held next to a conversation were held when it came, and it chose  *)
(* them all as victims: each is cancelled or still on its list (Chosen).   *)
(* Its request goes out when the list is empty (Cleared).  Slots belong to *)
(* calls, and no two calls share a token (Slots), so a token is only made  *)
(* live again by a new call, which holds no slot.                          *)
(***************************************************************************)

Talking == {c \in Chats : chat[c] # "out"}
Counted == interactive = Cardinality(Talking)

Slots ==
    /\ \A w \in Workers : worker[w] = "off" <=> token[w] = None
    /\ \A t \in background : \E w \in Workers : token[w] = t /\ worker[w] \in Asking
    /\ \A v, w \in Workers : token[v] = token[w] /\ token[v] # None => v = w

Chosen ==
    \A c \in Chats : chat[c] # "out" =>
        \A t \in background : reason[t] # "live" \/ t \in victims[c]

Cleared == \A c \in Chats : chat[c] = "request" => victims[c] = {}

BrokerInv == BrokerTypeOK /\ Counted /\ Slots /\ Chosen /\ Cleared /\ NoStaleVictim
-----------------------------------------------------------------------------
(* Nobody is counted: nobody is in interactive().                          *)
LEMMA NobodyTalks ==
    ASSUME Counted, interactive = 0
    PROVE  \A c \in Chats : chat[c] = "out"
<1>1. IsFiniteSet(Talking)
  BY FS_Subset, BrokerAssumption DEF Talking
<1>2. Talking = {}
  BY <1>1, FS_EmptySet DEF Counted
<1> QED
  BY <1>2 DEF Talking

(* The counter follows a conversation that comes and one that goes.        *)
LEMMA CountKept ==
    ASSUME BrokerTypeOK, Counted, NEW c \in Chats, NEW s \in {"out", "entering", "request"},
           chat' = [chat EXCEPT ![c] = s],
           interactive' = interactive + (IF s = "out" THEN 0 ELSE 1)
                                      - (IF chat[c] = "out" THEN 0 ELSE 1)
    PROVE  Counted' /\ interactive' \in Nat
<1>1. IsFiniteSet(Talking) /\ Cardinality(Talking) \in Nat
  <2>1. IsFiniteSet(Talking)
    BY FS_Subset, BrokerAssumption DEF Talking
  <2> QED
    BY <2>1, FS_CardinalityType
<1>2. Talking' = IF s = "out" THEN Talking \ {c} ELSE Talking \cup {c}
  BY DEF Talking, BrokerTypeOK
<1>3. /\ Cardinality(Talking \cup {c}) = IF c \in Talking THEN Cardinality(Talking) ELSE Cardinality(Talking) + 1
      /\ Cardinality(Talking \ {c}) = IF c \in Talking THEN Cardinality(Talking) - 1 ELSE Cardinality(Talking)
      /\ Cardinality(Talking \ {c}) \in Nat /\ Cardinality(Talking \cup {c}) \in Nat
  <2>1. IsFiniteSet(Talking \cup {c}) /\ IsFiniteSet(Talking \ {c})
    BY <1>1, FS_AddElement, FS_RemoveElement
  <2> QED
    BY <1>1, <2>1, FS_AddElement, FS_RemoveElement, FS_CardinalityType
<1>4. c \in Talking <=> chat[c] # "out"
  BY DEF Talking
<1>5. Cardinality(Talking') = interactive' /\ interactive' \in Nat
  <2>1. CASE s = "out" /\ chat[c] = "out"
    BY <2>1, <1>1, <1>2, <1>3, <1>4 DEF Counted
  <2>2. CASE s = "out" /\ chat[c] # "out"
    BY <2>2, <1>1, <1>2, <1>3, <1>4 DEF Counted
  <2>3. CASE s # "out" /\ chat[c] = "out"
    BY <2>3, <1>1, <1>2, <1>3, <1>4 DEF Counted
  <2>4. CASE s # "out" /\ chat[c] # "out"
    BY <2>4, <1>1, <1>2, <1>3, <1>4 DEF Counted
  <2> QED
    BY <2>1, <2>2, <2>3, <2>4
<1> QED
  BY <1>5 DEF Counted
-----------------------------------------------------------------------------
LEMMA BrokerInitInv == ASSUME BrokerInit PROVE BrokerInv
<1>1. Talking = {}
  BY DEF BrokerInit, Talking
<1>2. Counted
  BY <1>1, FS_EmptySet DEF BrokerInit, Counted
<1>3. BrokerTypeOK
  BY BrokerAssumption DEF BrokerInit, BrokerTypeOK, Reasons, Results, Asking
<1>4. Slots /\ Chosen /\ Cleared /\ NoStaleVictim
  BY DEF BrokerInit, Slots, Chosen, Cleared, NoStaleVictim
<1> QED
  BY <1>2, <1>3, <1>4 DEF BrokerInv

(* A conversation comes.                                                   *)
LEMMA EnterKeeps == ASSUME BrokerInv, NEW c \in Chats, Enter(c) PROVE BrokerInv'
<1> USE DEF BrokerInv, Enter, Active, calls
<1>1. Counted' /\ interactive' \in Nat
  <2>1. interactive' = interactive + 1 - 0
    BY DEF BrokerTypeOK
  <2> QED
    BY <2>1, CountKept DEF BrokerTypeOK
<1>2. BrokerTypeOK'
  BY <1>1, BrokerAssumption DEF BrokerTypeOK
<1>3. Slots'
  BY DEF Slots
<1>4. Chosen'
  BY DEF Chosen, BrokerTypeOK
<1>5. Cleared'
  BY DEF Cleared, BrokerTypeOK
<1>6. NoStaleVictim'
  <2> SUFFICES ASSUME NEW d \in Chats, NEW w \in Workers, token[w] \in victims'[d]
               PROVE  worker[w] \in Asking
    BY DEF NoStaleVictim
  <2>1. CASE d = c
    <3>1. token[w] \in background
      BY <2>1 DEF BrokerTypeOK
    <3>2. token[w] # None
      BY <3>1, BrokerAssumption DEF BrokerTypeOK
    <3> QED
      BY <3>1, <3>2 DEF Slots
  <2>2. CASE d # c
    BY <2>2 DEF NoStaleVictim, BrokerTypeOK
  <2> QED
    BY <2>1, <2>2
<1> QED
  BY <1>1, <1>2, <1>3, <1>4, <1>5, <1>6

LEMMA CancelVictimKeeps == ASSUME BrokerInv, NEW c \in Chats, CancelVictim(c) PROVE BrokerInv'
<1> USE DEF BrokerInv
<1>1. PICK t \in victims[c] : Cancel(t, "preempted") /\ victims' = [victims EXCEPT ![c] = @ \ {t}]
  BY DEF CancelVictim
<1>2. t \in Tokens
  BY DEF BrokerTypeOK
<1>3. /\ reason' \in [Tokens -> Reasons] /\ reason'[t] # "live"
      /\ \A u \in Tokens : reason[u] # "live" => reason'[u] # "live"
  BY <1>1, <1>2 DEF Cancel, BrokerTypeOK, Reasons
<1>4. UNCHANGED <<interactive, clock, calls, background, chat>>
  BY DEF CancelVictim
<1>5. BrokerTypeOK'
  BY <1>1, <1>3, <1>4 DEF BrokerTypeOK, clock, calls
<1>6. Counted' /\ Slots'
  BY <1>4 DEF Counted, Talking, Slots, calls
<1>7. Chosen'
  BY <1>1, <1>3, <1>4 DEF Chosen, BrokerTypeOK
<1>8. Cleared'
  BY <1>1, <1>4 DEF Cleared, BrokerTypeOK, CancelVictim
<1>9. NoStaleVictim'
  BY <1>1, <1>4 DEF NoStaleVictim, BrokerTypeOK, calls
<1> QED
  BY <1>5, <1>6, <1>7, <1>8, <1>9

LEMMA RequestKeeps == ASSUME BrokerInv, NEW c \in Chats, Request(c) PROVE BrokerInv'
<1> USE DEF BrokerInv, Request, clock, calls
<1>1. Counted'
  <2>1. interactive' = interactive + 1 - 1
    BY DEF BrokerTypeOK
  <2> QED
    BY <2>1, CountKept
<1>2. BrokerTypeOK'
  BY DEF BrokerTypeOK
<1>3. Slots' /\ NoStaleVictim'
  BY DEF Slots, NoStaleVictim
<1>4. Chosen' /\ Cleared'
  BY DEF Chosen, Cleared, BrokerTypeOK
<1> QED
  BY <1>1, <1>2, <1>3, <1>4

LEMMA LeaveKeeps == ASSUME BrokerInv, NEW c \in Chats, Leave(c) PROVE BrokerInv'
<1> USE DEF BrokerInv, Leave, calls
<1>1. Counted' /\ interactive' \in Nat
  <2>1. interactive' = interactive + 0 - 1
    BY DEF BrokerTypeOK
  <2> QED
    BY <2>1, CountKept
<1>2. BrokerTypeOK'
  BY <1>1, BrokerAssumption DEF BrokerTypeOK
<1>3. Slots' /\ NoStaleVictim'
  BY DEF Slots, NoStaleVictim
<1>4. Chosen' /\ Cleared'
  BY DEF Chosen, Cleared, BrokerTypeOK
<1> QED
  BY <1>1, <1>2, <1>3, <1>4

(* A new call takes a token nobody holds: it has no slot and is no victim. *)
LEMMA BeginKeeps == ASSUME BrokerInv, NEW w \in Workers, Begin(w) PROVE BrokerInv'
<1> USE DEF BrokerInv
<1>1. PICK t \in Tokens :
        /\ New(t)
        /\ token' = [token EXCEPT ![w] = t]
        /\ reason' = [reason EXCEPT ![t] = IF stopped[w] THEN "stopped" ELSE "live"]
  BY DEF Begin
<1>2. /\ worker[w] = "off" /\ worker' = [worker EXCEPT ![w] = "wait"]
      /\ result' = [result EXCEPT ![w] = "none"]
      /\ UNCHANGED <<clock, chats, stopped, hook, background>>
  BY DEF Begin
<1>3. t # None /\ t \notin background
  BY <1>1, BrokerAssumption DEF New, Slots
<1>4. \A u \in background : reason'[u] = reason[u]
  BY <1>1, <1>3 DEF BrokerTypeOK
<1>5. BrokerTypeOK'
  BY <1>1, <1>2 DEF BrokerTypeOK, clock, chats, Reasons, Results, Asking
<1>6. Counted'
  BY <1>2 DEF Counted, Talking, chats
<1>7. Slots'
  <2>1. \A v \in Workers : v # w => token'[v] = token[v] /\ worker'[v] = worker[v] /\ token[v] # t
    BY <1>1, <1>2 DEF BrokerTypeOK, New
  <2>2. token'[w] = t /\ worker'[w] = "wait" /\ token[w] = None
    BY <1>1, <1>2 DEF BrokerTypeOK, Slots
  <2>3. \A u \in background : \E v \in Workers : token'[v] = u /\ worker'[v] \in Asking
    <3> SUFFICES ASSUME NEW u \in background
                 PROVE  \E v \in Workers : token'[v] = u /\ worker'[v] \in Asking
      OBVIOUS
    <3>1. PICK v \in Workers : token[v] = u /\ worker[v] \in Asking
      BY DEF Slots
    <3>2. v # w
      BY <3>1, <1>2 DEF Asking
    <3> QED
      BY <3>1, <3>2, <2>1
  <2>4. \A v \in Workers : worker'[v] = "off" <=> token'[v] = None
    BY <2>1, <2>2, <1>3 DEF Slots
  <2>5. \A u, v \in Workers : token'[u] = token'[v] /\ token'[u] # None => u = v
    BY <2>1, <2>2, <1>3 DEF Slots
  <2> QED
    BY <2>3, <2>4, <2>5, <1>2 DEF Slots
<1>8. Chosen' /\ Cleared'
  BY <1>2, <1>4 DEF Chosen, Cleared, chats
<1>9. NoStaleVictim'
  BY <1>1, <1>2 DEF NoStaleVictim, chats, New, BrokerTypeOK
<1> QED
  BY <1>5, <1>6, <1>7, <1>8, <1>9

(* A slot is taken: nobody is in interactive().                            *)
LEMMA AcquireKeeps == ASSUME BrokerInv, NEW w \in Workers, Acquire(w) PROVE BrokerInv'
<1> USE DEF BrokerInv, Acquire, clock, chats
<1>1. \A c \in Chats : chat[c] = "out"
  BY NobodyTalks DEF Ready
<1>2. token[w] \in Tokens
  BY DEF Slots, BrokerTypeOK
<1>3. BrokerTypeOK'
  BY <1>2 DEF BrokerTypeOK, Asking
<1>4. Counted'
  BY DEF Counted, Talking
<1>5. Slots'
  <2>1. \A v \in Workers : worker[v] = "off" <=> worker'[v] = "off"
    BY DEF BrokerTypeOK
  <2>2. \A v \in Workers : worker[v] \in Asking => worker'[v] \in Asking
    BY DEF BrokerTypeOK, Asking
  <2>3. worker'[w] \in Asking
    BY DEF BrokerTypeOK, Asking
  <2>4. \A t \in background' : \E v \in Workers : token'[v] = t /\ worker'[v] \in Asking
    BY <2>2, <2>3 DEF Slots
  <2> QED
    BY <2>1, <2>4 DEF Slots
<1>6. Chosen' /\ Cleared'
  BY <1>1 DEF Chosen, Cleared
<1>7. NoStaleVictim'
  BY DEF NoStaleVictim, BrokerTypeOK, Asking
<1> QED
  BY <1>3, <1>4, <1>5, <1>6, <1>7

LEMMA AbortKeeps == ASSUME BrokerInv, NEW w \in Workers, Abort(w) PROVE BrokerInv'
<1> USE DEF BrokerInv, Abort, clock, chats
<1>1. BrokerTypeOK'
  BY DEF BrokerTypeOK, Results, Asking
<1>2. Counted' /\ Chosen' /\ Cleared'
  BY DEF Counted, Talking, Chosen, Cleared
<1>3. Slots'
  <2>1. \A v \in Workers : v # w => token'[v] = token[v] /\ worker'[v] = worker[v]
    BY DEF BrokerTypeOK
  <2>2. token'[w] = None /\ worker'[w] = "off" /\ worker[w] \notin Asking
    BY DEF BrokerTypeOK, Asking
  <2> QED
    BY <2>1, <2>2 DEF Slots
<1>4. NoStaleVictim'
  BY BrokerAssumption DEF NoStaleVictim, BrokerTypeOK
<1> QED
  BY <1>1, <1>2, <1>3, <1>4

(* The request opens or ends: the call keeps its slot.                     *)
LEMMA SlotKept ==
    ASSUME BrokerInv, NEW w \in Workers, worker[w] \in Asking, BrokerTypeOK',
           NEW s \in Asking, worker' = [worker EXCEPT ![w] = s],
           UNCHANGED <<chats, reason, background, token>>
    PROVE  BrokerInv'
<1> USE DEF BrokerInv, chats
<1>1. Counted' /\ Chosen' /\ Cleared'
  BY DEF Counted, Talking, Chosen, Cleared
<1>2. \A v \in Workers : (worker'[v] \in Asking <=> worker[v] \in Asking) /\ (worker'[v] = "off" <=> worker[v] = "off")
  BY DEF BrokerTypeOK, Asking
<1>3. Slots' /\ NoStaleVictim'
  BY <1>2 DEF Slots, NoStaleVictim
<1> QED
  BY <1>1, <1>3

LEMMA OpenKeeps == ASSUME BrokerInv, NEW w \in Workers, Open(w) PROVE BrokerInv'
<1>1. BrokerTypeOK'
  BY DEF BrokerInv, Open, BrokerTypeOK, clock, chats, Asking
<1> QED
  BY <1>1, SlotKept DEF Open, Asking

LEMMA AnswerKeeps == ASSUME BrokerInv, NEW w \in Workers, Answer(w) PROVE BrokerInv'
<1>1. result' \in [Workers -> Results]
  BY DEF BrokerInv, Answer, BrokerTypeOK, Results, Ending
<1>2. BrokerTypeOK'
  BY <1>1 DEF BrokerInv, Answer, BrokerTypeOK, clock, chats, Asking
<1> QED
  BY <1>2, SlotKept DEF Answer, Asking

(* The slot is given back with the token: no other call shares it.         *)
LEMMA ReleaseKeeps == ASSUME BrokerInv, NEW w \in Workers, Release(w) PROVE BrokerInv'
<1> USE DEF BrokerInv, Release, clock, chats
<1>1. BrokerTypeOK'
  BY DEF BrokerTypeOK
<1>2. Counted' /\ Chosen' /\ Cleared'
  BY DEF Counted, Talking, Chosen, Cleared
<1>3. Slots'
  <2>1. \A v \in Workers : v # w => token'[v] = token[v] /\ worker'[v] = worker[v]
    BY DEF BrokerTypeOK
  <2>2. token'[w] = None /\ worker'[w] = "off"
    BY DEF BrokerTypeOK
  <2>3. \A t \in background' : \E v \in Workers : token'[v] = t /\ worker'[v] \in Asking
    <3> SUFFICES ASSUME NEW t \in background, t # token[w]
                 PROVE  \E v \in Workers : token'[v] = t /\ worker'[v] \in Asking
      OBVIOUS
    <3>1. PICK v \in Workers : token[v] = t /\ worker[v] \in Asking
      BY DEF Slots
    <3> QED
      BY <3>1, <2>1
  <2> QED
    BY <2>1, <2>2, <2>3 DEF Slots
<1>4. NoStaleVictim'
  BY BrokerAssumption DEF NoStaleVictim, BrokerTypeOK
<1> QED
  BY <1>1, <1>2, <1>3, <1>4

(* The stop token acts on the reasons alone, and only ever cancels.        *)
LEMMA StopTokenKeeps == ASSUME BrokerInv, NEW w \in Workers, StopToken(w) \/ RunHook(w) PROVE BrokerInv'
<1> USE DEF BrokerInv, clock, chats
<1>1. UNCHANGED <<clock, chats, background, worker, token>>
  BY DEF StopToken, RunHook
<1>2. reason' \in [Tokens -> Reasons] /\ \A t \in Tokens : reason[t] # "live" => reason'[t] # "live"
  <2>1. CASE StopToken(w)
    BY <2>1 DEF StopToken, BrokerTypeOK
  <2>2. CASE RunHook(w)
    BY <2>2 DEF RunHook, Cancel, BrokerTypeOK, Reasons
  <2> QED
    BY <2>1, <2>2
<1>3. BrokerTypeOK'
  BY <1>1, <1>2 DEF StopToken, RunHook, BrokerTypeOK
<1>4. Counted' /\ Slots' /\ Cleared' /\ NoStaleVictim'
  BY <1>1 DEF Counted, Talking, Slots, Cleared, NoStaleVictim
<1>5. Chosen'
  BY <1>1, <1>2 DEF Chosen, BrokerTypeOK
<1> QED
  BY <1>3, <1>4, <1>5

(* Time, typing and the operator's leaving touch the clock alone.          *)
LEMMA ClockKeeps ==
    ASSUME BrokerInv, GoAway \/ Type \/ Tick \/ UNCHANGED brokerVars
    PROVE  BrokerInv'
<1> USE DEF BrokerInv, clock, chats, calls, brokerVars
<1>1. UNCHANGED <<chats, calls, background, reason>>
  BY DEF GoAway, Type, Tick
<1>2. quiet' \in 0..ResumeAfter /\ present' \in BOOLEAN
  <2>1. CASE GoAway
    BY <2>1 DEF GoAway, BrokerTypeOK
  <2>2. CASE Type
    BY <2>2, BrokerAssumption DEF Type, Active, BrokerTypeOK
  <2>3. CASE Tick
    BY <2>3, BrokerAssumption DEF Tick, BrokerTypeOK
  <2>4. CASE UNCHANGED brokerVars
    BY <2>4 DEF BrokerTypeOK
  <2> QED
    BY <2>1, <2>2, <2>3, <2>4
<1>4. BrokerTypeOK'
  BY <1>1, <1>2 DEF BrokerTypeOK
<1>3. Counted' /\ Slots' /\ Chosen' /\ Cleared' /\ NoStaleVictim'
  BY <1>1 DEF Counted, Talking, Slots, Chosen, Cleared, NoStaleVictim
<1> QED
  BY <1>3, <1>4

LEMMA BrokerStep == ASSUME BrokerInv, [BrokerNext]_brokerVars PROVE BrokerInv'
<1>1. CASE GoAway \/ Type \/ Tick \/ UNCHANGED brokerVars
  BY <1>1, ClockKeeps
<1>2. ASSUME NEW c \in Chats, Enter(c) \/ CancelVictim(c) \/ Request(c) \/ Leave(c) PROVE BrokerInv'
  BY <1>2, EnterKeeps, CancelVictimKeeps, RequestKeeps, LeaveKeeps
<1>3. ASSUME NEW w \in Workers, Begin(w) \/ CallNext(w) \/ StopToken(w) \/ RunHook(w) PROVE BrokerInv'
  BY <1>3, BeginKeeps, AcquireKeeps, AbortKeeps, OpenKeeps, AnswerKeeps, ReleaseKeeps, StopTokenKeeps DEF CallNext
<1> QED
  BY <1>1, <1>2, <1>3 DEF BrokerNext, ChatNext

LEMMA BrokerInductive == BrokerSpec => []BrokerInv
<1>1. BrokerInit => BrokerInv
  BY BrokerInitInv
<1>2. BrokerInv /\ [BrokerNext]_brokerVars => BrokerInv'
  BY BrokerStep
<1> QED
  BY <1>1, <1>2, PTL DEF BrokerSpec
-----------------------------------------------------------------------------
(* The broker's state keeps its types, for any number of threads.          *)
THEOREM BrokerTypeCorrect == BrokerSpec => []BrokerTypeOK
<1>1. BrokerInv => BrokerTypeOK
  BY DEF BrokerInv
<1> QED
  BY <1>1, BrokerInductive, PTL

(* Next to a conversation's request every background request that holds a  *)
(* slot has been told to go (interactive, background).                     *)
THEOREM BackgroundYieldsTheorem == BrokerSpec => []BackgroundYields
<1>1. BrokerInv => BackgroundYields
  BY DEF BrokerInv, Chosen, Cleared, BackgroundYields
<1> QED
  BY <1>1, BrokerInductive, PTL

(* A conversation never disconnects a call that came after it.             *)
THEOREM NoStaleVictimTheorem == BrokerSpec => []NoStaleVictim
<1>1. BrokerInv => NoStaleVictim
  BY DEF BrokerInv
<1> QED
  BY <1>1, BrokerInductive, PTL
-----------------------------------------------------------------------------
(***************************************************************************)
(* The engine accounts for every task, in the order of the plan, for any   *)
(* plan, budget and breaker limit and any outcomes of the work.            *)
(*                                                                         *)
(* The argument: the task in hand and the queue are always the last tasks  *)
(* of the plan, in order (LastInLine): taking one moves it from queue to   *)
(* hand, putting it back undoes that, follow-ups are planned and queued    *)
(* together.  What is settled is therefore the tasks before them.          *)
(***************************************************************************)

LastInLine ==
    /\ \A i \in DOMAIN queue : queue[i] = planned - Len(queue) + i
    /\ current # 0 => current = planned - Len(queue)
    /\ Len(queue) + InHand <= planned

(* A run that goes on has told the job of every settled task; one that     *)
(* ended has none in hand.                                                 *)
Told ==
    /\ state = "running" => Len(outcomes) = planned - Len(queue) - InHand
    /\ state # "running" => current = 0
    /\ state = "returned" => Len(outcomes) = planned

InBudget == current # 0 => spent < Budget

EngineInv == TypeOK /\ LastInLine /\ Told /\ Accounted /\ InOrder /\ InBudget /\ WithinBudget /\ Explained
-----------------------------------------------------------------------------
(* The counts after one more task is settled.                              *)
LEMMA SettleCounts ==
    ASSUME TypeOK, NEW why \in Whys, NEW task, Settle(task, why)
    PROVE  /\ byStatus' \in [Statuses -> Nat]
           /\ Started' + byStatus'["unscheduled"] = Started + byStatus["unscheduled"] + 1
<1>1. StatusOf[why] \in Statuses
  BY DEF Whys, StatusOf, Statuses
<1>2. byStatus' = [byStatus EXCEPT ![StatusOf[why]] = @ + 1] /\ byStatus \in [Statuses -> Nat]
  BY DEF Settle, TypeOK
<1>3. byStatus' \in [Statuses -> Nat]
  BY <1>1, <1>2
<1>4. \A s \in Statuses : byStatus'[s] = byStatus[s] + (IF s = StatusOf[why] THEN 1 ELSE 0)
  BY <1>1, <1>2
<1> QED
  BY <1>1, <1>2, <1>3, <1>4 DEF Started, Statuses

(* The calls of on_outcome after one more task is settled.                 *)
LEMMA SettleTells ==
    ASSUME TypeOK, InOrder, NEW why \in Whys, NEW task \in 1..planned, Settle(task, why),
           task = Len(outcomes) + 1, planned' \in Nat, planned <= planned', state = "running"
    PROVE  /\ outcomes' \in Seq([task : 1..planned', why : Whys])
           /\ state' = state => Len(outcomes') = Len(outcomes) + 1
           /\ state' # state => state' = "raised"
           /\ InOrder'
           /\ \A i \in DOMAIN outcomes' : outcomes'[i].why = "stopped" =>
                why = "stopped" \/ \E j \in DOMAIN outcomes : outcomes[j].why = "stopped"
<1> DEFINE Call(n) == [task : 1..n, why : Whys]
           new == [task |-> task, why |-> why]
<1>1. Call(planned) \subseteq Call(planned')
  BY DEF TypeOK
<1>2. outcomes \in Seq(Call(planned'))
  <2>1. outcomes \in Seq(Call(planned))
    BY DEF TypeOK
  <2> HIDE DEF Call
  <2> QED
    BY <1>1, <2>1
<1>3. new \in Call(planned')
  BY <1>1
<1>4. CASE outcomes' = Append(outcomes, new) /\ state' = state
  <2>1. /\ outcomes' \in Seq(Call(planned'))
        /\ Len(outcomes') = Len(outcomes) + 1
        /\ outcomes'[Len(outcomes) + 1] = new
        /\ \A i \in 1..Len(outcomes) : outcomes'[i] = outcomes[i]
    BY <1>2, <1>3, <1>4, AppendProperties
  <2>2. DOMAIN outcomes' = 1..(Len(outcomes) + 1) /\ DOMAIN outcomes = 1..Len(outcomes) /\ Len(outcomes) \in Nat
    BY <1>2, <2>1
  <2>3. \A i \in DOMAIN outcomes' : (i \in DOMAIN outcomes /\ outcomes'[i] = outcomes[i]) \/ (i = Len(outcomes) + 1 /\ outcomes'[i] = new)
    BY <2>1, <2>2
  <2>4. InOrder'
    BY <2>3 DEF InOrder
  <2> QED
    BY <1>4, <2>1, <2>3, <2>4
<1>5. CASE outcomes' = outcomes /\ state' = "raised"
  <2>1. state' # state
    BY <1>5
  <2> QED
    BY <1>2, <1>5, <2>1 DEF InOrder
<1> QED
  BY <1>4, <1>5 DEF Settle

(* An attempt is settled.                                                  *)
LEMMA FinishKeeps ==
    ASSUME EngineInv, NEW why \in Whys, NEW cost \in 0..MaxCost, NEW k \in Nat,
           planned + k <= MaxPlanned, Finish(why, cost, k), why = "stopped" => cancelled,
           consecutive' \in Nat, breaker' \in {"closed", "off", "unreachable"}
    PROVE  EngineInv'
<1> USE EngineAssumption DEF EngineInv
<1>1. /\ current # 0 /\ current' = 0 /\ spent' = spent + cost /\ cancelled' = cancelled
      /\ planned' = planned + k /\ Settle(current, why)
      /\ queue' = queue \o [i \in 1..k |-> planned + i]
  BY DEF Finish, FollowUps
<1>2. planned \in Nat /\ planned' \in Nat /\ queue \in Seq(1..planned) /\ Len(queue) \in Nat
  BY <1>1 DEF TypeOK
<1>3. state = "running" /\ current = planned - Len(queue) /\ InHand = 1 /\ InHand' = 0
  BY <1>1 DEF Told, TypeOK, LastInLine, InHand
<1>4. current \in 1..planned /\ current = Len(outcomes) + 1
  BY <1>1, <1>2, <1>3 DEF Told, TypeOK
<1>5. /\ outcomes' \in Seq([task : 1..planned', why : Whys])
      /\ state' = state => Len(outcomes') = Len(outcomes) + 1
      /\ state' # state => state' = "raised"
      /\ InOrder'
      /\ \A i \in DOMAIN outcomes' : outcomes'[i].why = "stopped" =>
           why = "stopped" \/ \E j \in DOMAIN outcomes : outcomes[j].why = "stopped"
  <2>1. planned <= planned'
    BY <1>1, <1>2
  <2> QED
    BY <1>1, <1>2, <1>3, <1>4, <2>1, SettleTells
<1>6. /\ queue' \in Seq(1..planned') /\ Len(queue') = Len(queue) + k
      /\ \A i \in 1..Len(queue') : queue'[i] = planned' - Len(queue') + i
  <2> DEFINE more == [i \in 1..k |-> planned + i]
  <2>1. more \in Seq(1..planned') /\ Len(more) = k /\ \A i \in 1..k : more[i] = planned + i
    BY <1>1, <1>2
  <2>2. queue \in Seq(1..planned')
    BY <1>1, <1>2
  <2> HIDE DEF more
  <2>3. /\ queue' \in Seq(1..planned') /\ Len(queue') = Len(queue) + k
        /\ \A i \in 1..(Len(queue) + k) : queue'[i] = IF i <= Len(queue) THEN queue[i] ELSE more[i - Len(queue)]
    <3>1. queue' = queue \o more
      BY <1>1 DEF more
    <3> QED
      BY <3>1, <2>1, <2>2, ConcatProperties
  <2>4. \A i \in 1..Len(queue) : queue[i] = planned - Len(queue) + i
    BY <1>2 DEF LastInLine
  <2>5. ASSUME NEW i \in 1..(Len(queue) + k) PROVE queue'[i] = planned' - Len(queue') + i
    <3>1. CASE i <= Len(queue)
      BY <3>1, <2>3, <2>4, <1>1, <1>2
    <3>2. CASE i > Len(queue)
      <4>1. i - Len(queue) \in 1..k
        BY <3>2, <1>2
      <4>2. queue'[i] = planned + (i - Len(queue))
        <5>1. queue'[i] = more[i - Len(queue)]
          BY <3>2, <2>3, <1>2
        <5> QED
          BY <5>1, <4>1, <2>1
      <4> QED
        BY <4>2, <2>3, <1>1, <1>2
    <3> QED
      BY <3>1, <3>2, <1>2
  <2> QED
    BY <2>3, <2>5
<1>7. /\ byStatus' \in [Statuses -> Nat]
      /\ Started' + byStatus'["unscheduled"] = Started + byStatus["unscheduled"] + 1
  BY <1>1, SettleCounts
<1>8. TypeOK'
  <2>1. spent' \in Nat /\ planned' \in NPlan..MaxPlanned /\ current' \in 0..planned'
    BY <1>1, <1>2 DEF TypeOK
  <2>2. state' \in {"running", "returned", "raised"} /\ cancelled' \in BOOLEAN
    BY <1>1, <1>3, <1>5 DEF TypeOK
  <2> QED
    BY <2>1, <2>2, <1>5, <1>6, <1>7 DEF TypeOK
<1>9. LastInLine'
  <2>1. DOMAIN queue' = 1..Len(queue')
    BY <1>6
  <2>2. Len(queue) + 1 <= planned
    BY <1>3 DEF LastInLine
  <2>3. Len(queue') + 0 <= planned'
    BY <2>2, <1>1, <1>2, <1>6
  <2> QED
    BY <1>1, <1>3, <1>6, <2>1, <2>3 DEF LastInLine
<1>10. Told'
  <2>1. Len(outcomes) + 1 = planned - Len(queue) /\ Len(outcomes) \in Nat
    BY <1>3, <1>4 DEF TypeOK
  <2>2. state' = "running" => Len(outcomes') = planned' - Len(queue') - 0
    <3>1. Len(queue') = Len(queue) + k /\ k \in Nat /\ planned' = planned + k
      BY <1>1, <1>6
    <3>2. state' = "running" => Len(outcomes') = Len(outcomes) + 1
      BY <1>3, <1>5
    <3> QED
      BY <2>1, <3>1, <3>2, <1>2
  <2>3. state' # "returned"
    BY <1>3, <1>5
  <2> QED
    BY <1>1, <1>3, <2>2, <2>3 DEF Told
<1>11. Accounted'
  <2> DEFINE settled == Started + byStatus["unscheduled"]
  <2>1. planned = settled + Len(queue) + 1
    BY <1>3 DEF Accounted
  <2>2. settled \in Nat /\ settled' = settled + 1
    <3>1. byStatus \in [Statuses -> Nat]
      BY DEF TypeOK
    <3>2. settled \in Nat
      BY <3>1 DEF Started, Statuses
    <3>3. settled' = settled + 1
      BY <1>7
    <3> QED
      BY <3>2, <3>3
  <2>3. planned' = settled' + Len(queue') + 0
    <3> HIDE DEF settled
    <3> QED
      BY <2>1, <2>2, <1>1, <1>2, <1>6
  <2> QED
    BY <2>3, <1>3 DEF Accounted
<1>12. InBudget' /\ WithinBudget'
  BY <1>1 DEF InBudget, WithinBudget, TypeOK
<1>13. Explained'
  BY <1>1, <1>3, <1>5 DEF Explained
<1> QED
  BY <1>5, <1>8, <1>9, <1>10, <1>11, <1>12, <1>13
-----------------------------------------------------------------------------
LEMMA EngineInitInv == ASSUME Init PROVE EngineInv
<1> USE EngineAssumption DEF Init
<1>1. queue \in Seq(1..planned) /\ Len(queue) = NPlan /\ \A i \in DOMAIN queue : queue[i] = i
  OBVIOUS
<1>2. outcomes \in Seq([task : 1..planned, why : Whys]) /\ Len(outcomes) = 0 /\ DOMAIN outcomes = {}
  OBVIOUS
<1>3. byStatus \in [Statuses -> Nat] /\ Started = 0 /\ byStatus["unscheduled"] = 0
  BY DEF Started, Statuses
<1>4. TypeOK
  <2>1. current \in 0..planned /\ planned \in NPlan..MaxPlanned /\ spent \in Nat /\ consecutive \in Nat
    OBVIOUS
  <2> QED
    BY <1>1, <1>2, <1>3, <2>1 DEF TypeOK
<1>5. LastInLine /\ Told
  BY <1>1, <1>2 DEF LastInLine, Told, InHand
<1>6. Accounted
  BY <1>1, <1>3 DEF Accounted, InHand
<1>7. InOrder /\ InBudget /\ WithinBudget /\ Explained
  BY <1>2 DEF InOrder, InBudget, WithinBudget, Explained
<1> QED
  BY <1>4, <1>5, <1>6, <1>7 DEF EngineInv

(* The head of the queue leaves it.                                        *)
LEMMA TailInLine ==
    ASSUME EngineInv, queue # <<>>, current = 0
    PROVE  /\ Tail(queue) \in Seq(1..planned) /\ Len(Tail(queue)) = Len(queue) - 1
           /\ Len(queue) \in Nat /\ Len(queue) > 0 /\ Len(queue) <= planned
           /\ Head(queue) = planned - Len(queue) + 1 /\ Head(queue) \in 1..planned
           /\ \A i \in DOMAIN Tail(queue) : Tail(queue)[i] = planned - Len(Tail(queue)) + i
<1> USE DEF EngineInv
<1>1. queue \in Seq(1..planned) /\ planned \in Nat
  BY EngineAssumption DEF TypeOK
<1>2. /\ Tail(queue) \in Seq(1..planned) /\ Len(Tail(queue)) = Len(queue) - 1
      /\ Head(queue) = queue[1] /\ Head(queue) \in 1..planned
      /\ \A i \in 1..(Len(queue) - 1) : Tail(queue)[i] = queue[i + 1]
  BY <1>1, HeadTailProperties
<1>3. Len(queue) \in Nat /\ Len(queue) > 0 /\ DOMAIN queue = 1..Len(queue)
  BY <1>1, EmptySeq
<1>4. \A i \in 1..Len(queue) : queue[i] = planned - Len(queue) + i
  BY <1>3 DEF LastInLine
<1>5. Len(queue) <= planned
  BY <1>3 DEF LastInLine, InHand
<1>6. DOMAIN Tail(queue) = 1..(Len(queue) - 1)
  BY <1>2
<1>7. \A i \in DOMAIN Tail(queue) : i + 1 \in 1..Len(queue) /\ i \in Nat
  BY <1>3, <1>6
<1>8. \A i \in DOMAIN Tail(queue) : Tail(queue)[i] = planned - Len(Tail(queue)) + i
  BY <1>1, <1>2, <1>3, <1>4, <1>6, <1>7
<1>9. Head(queue) = planned - Len(queue) + 1
  BY <1>2, <1>3, <1>4
<1> QED
  BY <1>2, <1>3, <1>5, <1>8, <1>9

LEMMA SkipKeeps == ASSUME EngineInv, Skip PROVE EngineInv'
<1> USE DEF EngineInv
<1>1. /\ state = "running" /\ current = 0 /\ queue # <<>> /\ queue' = Tail(queue)
      /\ Settle(Head(queue), "blocked")
      /\ UNCHANGED <<current, planned, spent, consecutive, breaker, cancelled>>
  BY DEF Skip
<1>2. planned \in Nat /\ "blocked" \in Whys /\ InHand = 0 /\ InHand' = 0
  BY <1>1, EngineAssumption DEF TypeOK, Whys, StatusOf, InHand
<1>3. Head(queue) = Len(outcomes) + 1
  BY <1>1, <1>2, TailInLine DEF Told, TypeOK
<1>4. /\ outcomes' \in Seq([task : 1..planned, why : Whys])
      /\ state' = state => Len(outcomes') = Len(outcomes) + 1
      /\ state' # state => state' = "raised"
      /\ InOrder'
      /\ \A i \in DOMAIN outcomes' : outcomes'[i].why = "stopped" =>
           \E j \in DOMAIN outcomes : outcomes[j].why = "stopped"
  <2>1. planned' \in Nat /\ planned <= planned' /\ Head(queue) \in 1..planned /\ planned' = planned
    BY <1>1, <1>2, TailInLine
  <2> QED
    BY <1>1, <1>2, <1>3, <2>1, SettleTells
<1>5. /\ byStatus' \in [Statuses -> Nat]
      /\ Started' + byStatus'["unscheduled"] = Started + byStatus["unscheduled"] + 1
  BY <1>1, <1>2, SettleCounts
<1>6. TypeOK'
  BY <1>1, <1>4, <1>5, TailInLine DEF TypeOK
<1>7. LastInLine'
  BY <1>1, <1>2, TailInLine DEF LastInLine
<1>8. Told'
  <2>1. Len(outcomes) = planned - Len(queue) - 0 /\ Len(queue') = Len(queue) - 1 /\ Len(queue) \in Nat
    BY <1>1, <1>2, TailInLine DEF Told
  <2>2. state' = "running" => Len(outcomes') = planned' - Len(queue') - 0
    BY <2>1, <1>1, <1>2, <1>4
  <2>3. state' # "returned"
    BY <1>1, <1>4
  <2> QED
    BY <1>1, <1>2, <2>2, <2>3 DEF Told
<1>9. Accounted'
  <2> DEFINE settled == Started + byStatus["unscheduled"]
  <2>1. planned = settled + Len(queue) + 0
    BY <1>2 DEF Accounted
  <2>2. settled \in Nat /\ settled' = settled + 1
    <3>1. \A s \in Statuses : byStatus[s] \in Nat
      BY DEF TypeOK
    <3>2. settled \in Nat
      BY <3>1 DEF Started, Statuses
    <3> QED
      BY <1>5, <3>2
  <2>3. planned' = settled' + Len(queue') + 0
    <3> HIDE DEF settled
    <3> QED
      BY <2>1, <2>2, <1>1, <1>2, TailInLine
  <2> QED
    BY <2>3, <1>2 DEF Accounted
<1>10. InBudget' /\ WithinBudget' /\ Explained'
  BY <1>1, <1>4 DEF InBudget, WithinBudget, Explained
<1> QED
  BY <1>4, <1>6, <1>7, <1>8, <1>9, <1>10

LEMMA TakeKeeps == ASSUME EngineInv, Take PROVE EngineInv'
<1> USE DEF EngineInv
<1>1. /\ state = "running" /\ current = 0 /\ queue # <<>> /\ ~Blocked
      /\ current' = Head(queue) /\ queue' = Tail(queue)
      /\ UNCHANGED <<planned, byStatus, spent, consecutive, breaker, cancelled, state, outcomes>>
  BY DEF Take
<1>2. planned \in Nat /\ InHand = 0 /\ InHand' = 1 /\ current' \in 1..planned
  BY <1>1, EngineAssumption, TailInLine DEF TypeOK, InHand
<1>3. TypeOK'
  BY <1>1, <1>2, TailInLine DEF TypeOK
<1>4. LastInLine' /\ Told'
  <2>1. /\ Len(queue') = Len(queue) - 1 /\ Len(queue) \in Nat /\ Len(queue) <= planned
        /\ \A i \in DOMAIN queue' : queue'[i] = planned - Len(queue') + i
    BY <1>1, TailInLine
  <2>2. current' = planned - Len(queue') /\ Len(queue') + 1 <= planned
    BY <1>1, <1>2, <2>1, TailInLine
  <2>3. Len(outcomes) = planned - Len(queue) - 0
    BY <1>1, <1>2 DEF Told
  <2>4. Len(outcomes') = planned' - Len(queue') - 1
    BY <1>1, <1>2, <2>1, <2>3
  <2> QED
    BY <1>1, <1>2, <2>1, <2>2, <2>4 DEF LastInLine, Told
<1>5. Accounted'
  <2>1. Started \in Nat /\ byStatus["unscheduled"] \in Nat /\ Started' = Started
    BY <1>1 DEF TypeOK, Started, Statuses
  <2> QED
    BY <1>1, <1>2, <2>1, TailInLine DEF Accounted
<1>6. InOrder' /\ WithinBudget' /\ Explained'
  BY <1>1 DEF InOrder, WithinBudget, Explained
<1>7. InBudget'
  BY <1>1, EngineAssumption DEF InBudget, Blocked, TypeOK
<1> QED
  BY <1>3, <1>4, <1>5, <1>6, <1>7

LEMMA PutBackKeeps == ASSUME EngineInv, PutBack PROVE EngineInv'
<1> USE DEF EngineInv
<1>1. /\ current # 0 /\ current' = 0 /\ queue' = <<current>> \o queue
      /\ UNCHANGED <<planned, byStatus, spent, consecutive, breaker, cancelled, state, outcomes>>
  BY DEF PutBack
<1>2. /\ planned \in Nat /\ InHand = 1 /\ InHand' = 0 /\ current \in 1..planned
      /\ queue \in Seq(1..planned) /\ Len(queue) \in Nat /\ current = planned - Len(queue)
  BY <1>1, EngineAssumption DEF TypeOK, InHand, LastInLine
<1>3. /\ queue' \in Seq(1..planned) /\ Len(queue') = Len(queue) + 1
      /\ queue'[1] = current /\ \A i \in 2..(Len(queue) + 1) : queue'[i] = queue[i - 1]
  <2>1. <<current>> \in Seq(1..planned) /\ Len(<<current>>) = 1 /\ <<current>>[1] = current
    BY <1>2
  <2>2. /\ queue' \in Seq(1..planned) /\ Len(queue') = 1 + Len(queue)
        /\ \A i \in 1..(1 + Len(queue)) : queue'[i] = IF i <= 1 THEN <<current>>[i] ELSE queue[i - 1]
    BY <1>1, <1>2, <2>1, ConcatProperties
  <2> QED
    BY <1>2, <2>1, <2>2
<1>4. \A i \in DOMAIN queue' : queue'[i] = planned - Len(queue') + i
  <2>1. \A i \in 1..Len(queue) : queue[i] = planned - Len(queue) + i
    BY <1>2 DEF LastInLine
  <2>2. DOMAIN queue' = 1..(Len(queue) + 1)
    BY <1>2, <1>3
  <2> SUFFICES ASSUME NEW i \in 1..(Len(queue) + 1)
               PROVE  queue'[i] = planned - Len(queue') + i
    BY <2>2
  <2>3. CASE i = 1
    BY <2>3, <1>2, <1>3
  <2>4. CASE i \in 2..(Len(queue) + 1)
    <3>1. i - 1 \in 1..Len(queue)
      BY <2>4, <1>2
    <3>2. queue'[i] = planned - Len(queue) + (i - 1)
      BY <3>1, <2>1, <2>4, <1>3
    <3> QED
      BY <3>2, <1>2, <1>3
  <2> QED
    BY <2>3, <2>4, <1>2
<1>5. TypeOK'
  BY <1>1, <1>2, <1>3 DEF TypeOK
<1>6. LastInLine' /\ Told'
  BY <1>1, <1>2, <1>3, <1>4 DEF LastInLine, Told
<1>7. Accounted'
  <2> DEFINE settled == Started + byStatus["unscheduled"]
  <2>1. planned = settled + Len(queue) + 1
    BY <1>2 DEF Accounted
  <2>2. settled \in Nat /\ settled' = settled
    BY <1>1 DEF TypeOK, Started, Statuses
  <2>3. planned' = settled' + Len(queue') + 0
    <3> HIDE DEF settled
    <3> QED
      BY <2>1, <2>2, <1>1, <1>2, <1>3
  <2> QED
    BY <2>3, <1>2 DEF Accounted
<1>8. InOrder' /\ InBudget' /\ WithinBudget' /\ Explained'
  BY <1>1 DEF InOrder, InBudget, WithinBudget, Explained
<1> QED
  BY <1>5, <1>6, <1>7, <1>8

LEMMA AttemptKeeps == ASSUME EngineInv, Attempt PROVE EngineInv'
<1> USE EngineAssumption
<1>1. /\ consecutive \in Nat /\ breaker \in {"closed", "off", "unreachable"}
      /\ planned \in Nat /\ planned + 0 <= MaxPlanned /\ 0 \in 0..MaxCost
  BY DEF EngineInv, TypeOK
<1>2. {"done", "cached", "contract", "refused", "host", "disabled", "internal", "window", "stopped"} \subseteq Whys
  BY DEF Whys, StatusOf
<1>3. ASSUME NEW cost \in 0..MaxCost, NEW k \in 0..MaxFollowUps, planned + k <= MaxPlanned,
             NEW why \in {"done", "cached"}, Done(why, cost, k)
      PROVE  EngineInv'
  BY <1>1, <1>2, <1>3, FinishKeeps DEF Done, Reset
<1>4. ASSUME NEW cost \in 0..MaxCost, NEW why \in {"contract", "internal", "window"}, Other(why, cost)
      PROVE  EngineInv'
  BY <1>1, <1>2, <1>4, FinishKeeps DEF Other
<1>5. CASE Refused
  BY <1>1, <1>2, <1>5, FinishKeeps DEF Refused, Reset
<1>6. CASE Disabled
  BY <1>1, <1>2, <1>6, FinishKeeps DEF Disabled
<1>7. CASE HostFailure
  BY <1>1, <1>2, <1>7, FinishKeeps DEF HostFailure
<1>8. CASE Stopped
  BY <1>1, <1>2, <1>8, FinishKeeps DEF Stopped, Other
<1> QED
  BY <1>1, <1>3, <1>4, <1>5, <1>6, <1>7, <1>8 DEF Attempt

(* The run returns, the evaluator stops the job, or nothing happens.       *)
LEMMA RestKeeps == ASSUME EngineInv, Return \/ Stop \/ UNCHANGED engineVars PROVE EngineInv'
<1> USE DEF EngineInv
<1>1. UNCHANGED <<queue, current, planned, byStatus, spent, consecutive, breaker, outcomes>>
  BY DEF Return, Stop, engineVars
<1>2. /\ state' = state \/ (Return /\ state' = "returned" /\ current = 0 /\ queue = <<>> /\ state = "running")
      /\ cancelled' \in BOOLEAN /\ (cancelled => cancelled')
  BY DEF Return, Stop, engineVars, TypeOK
<1>3. TypeOK'
  BY <1>1, <1>2 DEF TypeOK
<1>4. state' # state => Len(outcomes) = planned
  BY <1>2, EngineAssumption DEF Told, InHand, TypeOK
<1>5. LastInLine' /\ Accounted'
  BY <1>1 DEF LastInLine, Accounted, InHand, Started
<1>6. Told' /\ Explained'
  BY <1>1, <1>2, <1>4 DEF Told, Explained, InHand
<1>7. InOrder' /\ InBudget' /\ WithinBudget'
  BY <1>1 DEF InOrder, InBudget, WithinBudget
<1> QED
  BY <1>3, <1>5, <1>6, <1>7

LEMMA EngineStep == ASSUME EngineInv, [Next]_engineVars PROVE EngineInv'
  BY SkipKeeps, TakeKeeps, PutBackKeeps, AttemptKeeps, RestKeeps DEF Next, Work

LEMMA EngineInductive == Spec => []EngineInv
<1>1. Init => EngineInv
  BY EngineInitInv
<1>2. EngineInv /\ [Next]_engineVars => EngineInv'
  BY EngineStep
<1> QED
  BY <1>1, <1>2, PTL DEF Spec
-----------------------------------------------------------------------------
(* The breaker: since the last answer of the host, count failures were     *)
(* told (Streak), and a task is only in hand while it is closed.           *)
Streak(told, count) ==
    \E s \in 1..(Len(told) + 1) :
        /\ s = 1 \/ told[s - 1].why \in Answered
        /\ Of(told, Answered, s, Len(told)) = {}
        /\ count = Cardinality(Of(told, Unreached, s, Len(told)))

BreakerInv ==
    /\ current # 0 => breaker = "closed"
    /\ state # "raised" => Streak(outcomes, consecutive) /\ BreakerIsRight

(* d is c and one more call, which ended so.                               *)
OneMore(c, d, why) ==
    /\ Len(c) \in Nat /\ DOMAIN c = 1..Len(c)
    /\ Len(d) = Len(c) + 1 /\ DOMAIN d = 1..(Len(c) + 1)
    /\ d[Len(c) + 1].why = why
    /\ \A i \in 1..Len(c) : d[i] = c[i]

LEMMA AppendOneMore ==
    ASSUME NEW S, NEW c \in Seq(S), NEW x \in S PROVE OneMore(c, Append(c, x), x.why)
  BY AppendProperties DEF OneMore

LEMMA StretchKept ==
    ASSUME NEW c, NEW d, NEW i \in Int, NEW j \in Int, NEW kinds, \A m \in i..j : d[m] = c[m]
    PROVE  Of(d, kinds, i, j) = Of(c, kinds, i, j)
  BY DEF Of

LEMMA StretchGrows ==
    ASSUME NEW c, NEW d, NEW i \in Int, NEW n \in Int, NEW kinds, \A m \in i..n : d[m] = c[m], i <= n + 1
    PROVE  /\ d[n + 1].why \in kinds => Of(d, kinds, i, n + 1) = Of(c, kinds, i, n) \cup {n + 1}
           /\ d[n + 1].why \notin kinds => Of(d, kinds, i, n + 1) = Of(c, kinds, i, n)
<1>1. \A m : m \in i..(n + 1) <=> m \in i..n \/ m = n + 1
  OBVIOUS
<1>2. \A m \in i..n : m # n + 1
  OBVIOUS
<1> QED
  BY <1>1, <1>2 DEF Of

LEMMA StretchFinite ==
    ASSUME NEW told, NEW kinds, NEW i \in Int, NEW j \in Int
    PROVE  /\ IsFiniteSet(Of(told, kinds, i, j)) /\ Cardinality(Of(told, kinds, i, j)) \in Nat
           /\ i > j => Of(told, kinds, i, j) = {} /\ Cardinality(Of(told, kinds, i, j)) = 0
<1>1. IsFiniteSet(i..j)
  BY FS_Interval
<1>2. IsFiniteSet(Of(told, kinds, i, j))
  BY <1>1, FS_Subset DEF Of
<1>3. i > j => Of(told, kinds, i, j) = {}
  BY DEF Of
<1> QED
  BY <1>2, <1>3, FS_CardinalityType, FS_EmptySet

(* A task is settled: the streak goes on, grows or begins anew.            *)
LEMMA StreakKept ==
    ASSUME NEW c, NEW d, NEW why, OneMore(c, d, why), NEW count, Streak(c, count), NEW next,
           next = IF why \in Unreached THEN count + 1 ELSE IF why \in Answered THEN 0 ELSE count
    PROVE  Streak(d, next)
<1>0. PICK n : n = Len(c)
  OBVIOUS
<1>5. PICK s \in 1..(n + 1) :
        /\ s = 1 \/ c[s - 1].why \in Answered
        /\ Of(c, Answered, s, n) = {}
        /\ count = Cardinality(Of(c, Unreached, s, n))
  BY <1>0 DEF Streak
<1>1. /\ n \in Nat /\ Len(d) = n + 1 /\ DOMAIN c = 1..n /\ DOMAIN d = 1..(n + 1)
      /\ d[n + 1].why = why /\ \A i \in 1..n : d[i] = c[i]
  BY <1>0 DEF OneMore
<1>2. /\ why \notin Answered => Of(d, Answered, s, n + 1) = Of(c, Answered, s, n)
      /\ why \in Unreached => Of(d, Unreached, s, n + 1) = Of(c, Unreached, s, n) \cup {n + 1}
      /\ why \notin Unreached => Of(d, Unreached, s, n + 1) = Of(c, Unreached, s, n)
  <2>1. s \in Int /\ n \in Int /\ s <= n + 1 /\ \A m \in s..n : d[m] = c[m]
    BY <1>1, <1>5
  <2> QED
    <3>1. d[n + 1].why \notin Answered => Of(d, Answered, s, n + 1) = Of(c, Answered, s, n)
      BY <2>1, StretchGrows
    <3>2. d[n + 1].why \in Unreached => Of(d, Unreached, s, n + 1) = Of(c, Unreached, s, n) \cup {n + 1}
      BY <2>1, StretchGrows
    <3>3. d[n + 1].why \notin Unreached => Of(d, Unreached, s, n + 1) = Of(c, Unreached, s, n)
      BY <2>1, StretchGrows
    <3> QED
      BY <3>1, <3>2, <3>3, <1>1
<1>3. CASE why \in Answered
  <2>1. next = 0
    BY <1>3 DEF Answered, Unreached
  <2>2. /\ Of(d, Answered, n + 2, n + 1) = {} /\ Cardinality(Of(d, Unreached, n + 2, n + 1)) = 0
        /\ n + 2 \in 1..(Len(d) + 1) /\ (n + 2) - 1 = n + 1
    BY <1>1, StretchFinite
  <2> QED
    BY <2>1, <2>2, <1>1, <1>3 DEF Streak
<1>4. CASE why \notin Answered
  <2>1. Of(d, Answered, s, n + 1) = {} /\ (s = 1 \/ d[s - 1].why \in Answered)
    BY <1>1, <1>2, <1>4, <1>5
  <2>2. next = Cardinality(Of(d, Unreached, s, n + 1))
    <3>1. CASE why = "host"
      <4>1. n + 1 \notin Of(c, Unreached, s, n)
        BY <1>1 DEF Of
      <4>2. IsFiniteSet(Of(c, Unreached, s, n))
        BY <1>1, StretchFinite
      <4> QED
        BY <4>1, <4>2, <3>1, <1>2, <1>5, FS_AddElement DEF Unreached
    <3>2. CASE why # "host"
      <4>1. Of(d, Unreached, s, n + 1) = Of(c, Unreached, s, n) /\ next = count
        BY <3>2, <1>2, <1>4 DEF Unreached
      <4> QED
        BY <4>1, <1>5
    <3> QED
      BY <3>1, <3>2
  <2>3. s \in 1..(Len(d) + 1)
    BY <1>1
  <2> QED
    BY <2>1, <2>2, <2>3, <1>1 DEF Streak
<1> QED
  BY <1>3, <1>4

(* A call that is no host failure makes no row of them.                    *)
LEMMA RowKept ==
    ASSUME NEW c, NEW d, NEW why, OneMore(c, d, why), why \notin Unreached, BreakerLimit > 0
    PROVE  InARow(d) <=> InARow(c)
<1>0. PICK n : n = Len(c)
  OBVIOUS
<1>1. /\ n \in Nat /\ DOMAIN c = 1..n /\ DOMAIN d = 1..(n + 1)
      /\ d[n + 1].why = why /\ \A m \in 1..n : d[m] = c[m]
      /\ \A i, j \in 1..n : /\ Of(d, Unreached, i, j) = Of(c, Unreached, i, j)
                            /\ Of(d, Answered, i, j) = Of(c, Answered, i, j)
  <2>1. /\ n \in Nat /\ DOMAIN c = 1..n /\ DOMAIN d = 1..(n + 1)
        /\ d[n + 1].why = why /\ \A m \in 1..n : d[m] = c[m]
    BY <1>0 DEF OneMore
  <2>2. ASSUME NEW kinds, NEW i \in 1..n, NEW j \in 1..n PROVE Of(d, kinds, i, j) = Of(c, kinds, i, j)
    <3>1. i \in Int /\ j \in Int /\ \A m \in i..j : d[m] = c[m]
      BY <2>1
    <3> QED
      BY <3>1, StretchKept
  <2> QED
    BY <2>1, <2>2
<1>2. InARow(c) => InARow(d)
  BY <1>1 DEF InARow
<1>3. ASSUME NEW i \in 1..(n + 1), NEW j \in 1..(n + 1),
             Cardinality(Of(d, Unreached, i, j)) >= BreakerLimit, Of(d, Answered, i, j) = {}
      PROVE  InARow(c)
  <2>1. CASE j \in 1..n /\ i \in 1..n
    <3>1. Of(d, Unreached, i, j) = Of(c, Unreached, i, j) /\ Of(d, Answered, i, j) = Of(c, Answered, i, j)
      BY <2>1, <1>1
    <3> QED
      BY <3>1, <2>1, <1>1, <1>3 DEF InARow
  <2>2. CASE i > j
    BY <2>2, <1>1, <1>3, StretchFinite, EngineAssumption
  <2>3. CASE j = n + 1
    <3>5. i \in Int /\ n \in Int /\ i <= n + 1 /\ \A m \in i..n : d[m] = c[m]
      BY <1>1
    <3>1. Of(d, Unreached, i, j) = Of(c, Unreached, i, n)
      BY <3>5, <1>1, <2>3, StretchGrows
    <3>4. Of(c, Answered, i, n) = {}
      <4>1. CASE why \in Answered
        BY <4>1, <3>5, <1>1, <1>3, <2>3, StretchGrows
      <4>2. CASE why \notin Answered
        BY <4>2, <3>5, <1>1, <1>3, <2>3, StretchGrows
      <4> QED
        BY <4>1, <4>2
    <3>2. CASE i \in 1..n
      <4>1. n \in 1..n
        BY <3>2, <1>1
      <4> QED
        BY <3>1, <3>2, <3>4, <4>1, <1>1, <1>3 DEF InARow
    <3>3. CASE i = n + 1
      <4>1. Cardinality(Of(c, Unreached, i, n)) = 0
        BY <3>3, <1>1, StretchFinite
      <4> QED
        BY <4>1, <3>1, <1>3, EngineAssumption
    <3> QED
      BY <3>2, <3>3, <1>1
  <2> QED
    BY <2>1, <2>2, <2>3, <1>1
<1> QED
  BY <1>1, <1>2, <1>3 DEF InARow

(* A host failure makes one exactly when the count reaches the limit.      *)
LEMMA RowMade ==
    ASSUME NEW c, NEW d, OneMore(c, d, "host"), BreakerLimit > 0, ~InARow(c), NEW count, Streak(d, count)
    PROVE  InARow(d) <=> count >= BreakerLimit
<1>0. PICK n : n = Len(c)
  OBVIOUS
<1>1. /\ n \in Nat /\ Len(d) = n + 1 /\ DOMAIN c = 1..n /\ DOMAIN d = 1..(n + 1)
      /\ d[n + 1].why = "host"
      /\ \A i, j \in 1..n : /\ Of(d, Unreached, i, j) = Of(c, Unreached, i, j)
                            /\ Of(d, Answered, i, j) = Of(c, Answered, i, j)
  <2>1. /\ n \in Nat /\ Len(d) = n + 1 /\ DOMAIN c = 1..n /\ DOMAIN d = 1..(n + 1)
        /\ d[n + 1].why = "host" /\ \A m \in 1..n : d[m] = c[m]
    BY <1>0 DEF OneMore
  <2>2. ASSUME NEW kinds, NEW i \in 1..n, NEW j \in 1..n PROVE Of(d, kinds, i, j) = Of(c, kinds, i, j)
    <3>1. i \in Int /\ j \in Int /\ \A m \in i..j : d[m] = c[m]
      BY <2>1
    <3> QED
      BY <3>1, StretchKept
  <2> QED
    BY <2>1, <2>2
<1> PICK s \in 1..(n + 2) :
        /\ s = 1 \/ d[s - 1].why \in Answered
        /\ Of(d, Answered, s, n + 1) = {}
        /\ count = Cardinality(Of(d, Unreached, s, n + 1))
  BY <1>1 DEF Streak
<1>2. s \in 1..(n + 1) /\ n + 1 \in 1..(n + 1)
  BY <1>1 DEF Answered
<1>3. count >= BreakerLimit => InARow(d)
  BY <1>1, <1>2 DEF InARow
<1>4. ASSUME NEW i \in 1..(n + 1), NEW j \in 1..(n + 1),
             Cardinality(Of(d, Unreached, i, j)) >= BreakerLimit, Of(d, Answered, i, j) = {}
      PROVE  count >= BreakerLimit
  <2>1. CASE j \in 1..n /\ i \in 1..n
    <3>1. Of(d, Unreached, i, j) = Of(c, Unreached, i, j) /\ Of(d, Answered, i, j) = Of(c, Answered, i, j)
      BY <2>1, <1>1
    <3> QED
      BY <3>1, <2>1, <1>1, <1>4 DEF InARow
  <2>2. CASE i > j
    BY <2>2, <1>1, <1>4, StretchFinite, EngineAssumption
  <2>3. CASE j = n + 1
    <3>1. i >= s
      <4> SUFFICES ASSUME i < s PROVE FALSE
        BY <1>1
      <4>1. s - 1 \in i..j /\ d[s - 1].why \in Answered
        BY <2>3, <1>1
      <4> QED
        BY <4>1, <1>4 DEF Of
    <3>2. Of(d, Unreached, i, j) \subseteq Of(d, Unreached, s, n + 1)
      BY <3>1, <2>3, <1>1 DEF Of
    <3>3. IsFiniteSet(Of(d, Unreached, s, n + 1))
      <4>1. s \in Int /\ n + 1 \in Int
        BY <1>1
      <4> QED
        BY <4>1, StretchFinite
    <3>4. /\ Cardinality(Of(d, Unreached, i, j)) <= Cardinality(Of(d, Unreached, s, n + 1))
          /\ Cardinality(Of(d, Unreached, i, j)) \in Nat /\ Cardinality(Of(d, Unreached, s, n + 1)) \in Nat
      BY <3>2, <3>3, FS_Subset, FS_CardinalityType
    <3> QED
      BY <3>4, <1>4, EngineAssumption
  <2> QED
    BY <2>1, <2>2, <2>3, <1>1
<1> QED
  BY <1>1, <1>3, <1>4 DEF InARow

(* What settling a task does to the breaker's account.                     *)
LEMMA SettleStreak ==
    ASSUME TypeOK, BreakerInv, state = "running", NEW why \in Whys, NEW task \in 1..planned,
           Settle(task, why), current' = 0,
           consecutive' = IF why \in Unreached THEN consecutive + 1
                          ELSE IF why \in Answered THEN 0 ELSE consecutive,
           why \in Unreached => breaker = "closed",
           (breaker' = "unreachable") <=>
               BreakerLimit > 0 /\ (breaker = "unreachable" \/ (why \in Unreached /\ consecutive' >= BreakerLimit))
    PROVE  BreakerInv'
<1> SUFFICES ASSUME state' # "raised"
             PROVE  Streak(outcomes, consecutive)' /\ BreakerIsRight'
  BY DEF BreakerInv
<1>1. outcomes' = Append(outcomes, [task |-> task, why |-> why]) /\ outcomes \in Seq([task : 1..planned, why : Whys])
  BY DEF Settle, TypeOK
<1>2. OneMore(outcomes, outcomes', why)
  <2>1. [task |-> task, why |-> why] \in [task : 1..planned, why : Whys]
    OBVIOUS
  <2>2. OneMore(outcomes, Append(outcomes, [task |-> task, why |-> why]), [task |-> task, why |-> why].why)
    BY <1>1, <2>1, AppendOneMore
  <2> QED
    BY <1>1, <2>2
<1>3. Streak(outcomes, consecutive) /\ (breaker = "unreachable" <=> BreakerLimit > 0 /\ InARow(outcomes))
  BY DEF BreakerInv, BreakerIsRight
<1>4. Streak(outcomes', consecutive')
  BY <1>2, <1>3, StreakKept
<1>5. BreakerLimit > 0 => (breaker' = "unreachable" <=> InARow(outcomes'))
  <2>1. CASE BreakerLimit > 0 /\ why \notin Unreached
    BY <2>1, <1>2, <1>3, RowKept
  <2>2. CASE BreakerLimit > 0 /\ why \in Unreached
    <3>1. ~InARow(outcomes) /\ OneMore(outcomes, outcomes', "host")
      BY <2>2, <1>2, <1>3 DEF Unreached
    <3>2. InARow(outcomes') <=> consecutive' >= BreakerLimit
      BY <2>2, <3>1, <1>4, RowMade
    <3> QED
      BY <2>2, <3>2
  <2> QED
    BY <2>1, <2>2
<1> QED
  BY <1>4, <1>5 DEF BreakerIsRight

LEMMA FinishStreak ==
    ASSUME EngineInv, BreakerInv, NEW why \in Whys, NEW cost, NEW k, Finish(why, cost, k),
           consecutive' = IF why \in Unreached THEN consecutive + 1
                          ELSE IF why \in Answered THEN 0 ELSE consecutive,
           (breaker' = "unreachable") <=> (why \in Unreached /\ BreakerLimit > 0 /\ consecutive' >= BreakerLimit)
    PROVE  BreakerInv'
<1>1. current # 0 /\ current' = 0 /\ Settle(current, why)
  BY DEF Finish
<1>2. breaker = "closed" /\ state = "running" /\ current \in 1..planned
  <2>1. state = "running"
    BY <1>1 DEF EngineInv, Told
  <2>2. planned \in Nat /\ current \in 0..planned
    BY EngineAssumption DEF EngineInv, TypeOK
  <2> QED
    BY <2>1, <2>2, <1>1 DEF BreakerInv
<1> QED
  BY <1>1, <1>2, SettleStreak DEF EngineInv

LEMMA BreakerSkip == ASSUME EngineInv, BreakerInv, Skip PROVE BreakerInv'
<1>1. /\ state = "running" /\ current = 0 /\ queue # <<>> /\ Settle(Head(queue), "blocked")
      /\ UNCHANGED <<current, consecutive, breaker>>
  BY DEF Skip
<1>2. "blocked" \in Whys /\ "blocked" \notin Unreached /\ "blocked" \notin Answered
  BY DEF Whys, StatusOf, Unreached, Answered
<1>3. Head(queue) \in 1..planned
  BY <1>1, TailInLine
<1>4. breaker = "unreachable" => BreakerLimit > 0
  BY <1>1 DEF BreakerInv, BreakerIsRight
<1> QED
  BY <1>1, <1>2, <1>3, <1>4, SettleStreak DEF EngineInv

LEMMA BreakerAttempt == ASSUME EngineInv, BreakerInv, Attempt PROVE BreakerInv'
<1>1. current # 0 => breaker = "closed"
  BY DEF BreakerInv
<1>2. /\ {"done", "cached", "contract", "refused", "host", "disabled", "internal", "window", "stopped"} \subseteq Whys
      /\ {"done", "cached", "refused", "disabled"} \subseteq Answered
      /\ "host" \in Unreached
      /\ \A why \in Answered \cup {"contract", "internal", "window", "stopped"} : why \notin Unreached
      /\ \A why \in {"contract", "internal", "window", "stopped"} : why \notin Answered
  BY DEF Whys, StatusOf, Answered, Unreached
<1>3. ASSUME NEW cost, NEW k, NEW why \in {"done", "cached"}, Done(why, cost, k)
      PROVE  BreakerInv'
  <2>1. Finish(why, cost, k) /\ consecutive' = 0 /\ breaker' = "closed"
    BY <1>1, <1>3 DEF Done, Reset, Finish
  <2> QED
    BY <2>1, <1>2, FinishStreak
<1>4. ASSUME NEW cost, NEW why \in {"contract", "internal", "window", "stopped"}, Other(why, cost)
      PROVE  BreakerInv'
  <2>1. Finish(why, cost, 0) /\ consecutive' = consecutive /\ breaker' = "closed"
    BY <1>1, <1>4 DEF Other, Finish
  <2> QED
    BY <2>1, <1>2, FinishStreak
<1>5. CASE Refused
  <2>1. Finish("refused", 0, 0) /\ consecutive' = 0 /\ breaker' = "closed"
    BY <1>1, <1>5 DEF Refused, Reset, Finish
  <2> QED
    BY <2>1, <1>2, FinishStreak
<1>6. CASE Disabled
  <2>1. Finish("disabled", 0, 0) /\ consecutive' = 0 /\ breaker' = "off"
    BY <1>6 DEF Disabled
  <2> QED
    BY <2>1, <1>2, FinishStreak
<1>7. CASE HostFailure
  <2>1. /\ Finish("host", 0, 0) /\ consecutive' = consecutive + 1
        /\ breaker' = "unreachable" <=> BreakerLimit > 0 /\ consecutive' >= BreakerLimit
    BY <1>1, <1>7 DEF HostFailure, Finish
  <2> QED
    BY <2>1, <1>2, FinishStreak
<1>8. CASE Stopped
  BY <1>4, <1>8 DEF Stopped
<1> QED
  BY <1>3, <1>4, <1>5, <1>6, <1>7, <1>8 DEF Attempt

LEMMA BreakerStep == ASSUME EngineInv, BreakerInv, [Next]_engineVars PROVE BreakerInv'
<1>1. CASE Take
  BY <1>1 DEF Take, Blocked, BreakerInv, BreakerIsRight
<1>2. CASE PutBack \/ Stop \/ UNCHANGED engineVars
  BY <1>2 DEF PutBack, Stop, engineVars, BreakerInv, BreakerIsRight
<1>3. CASE Return
  BY <1>3 DEF Return, BreakerInv, BreakerIsRight
<1> QED
  BY <1>1, <1>2, <1>3, BreakerSkip, BreakerAttempt DEF Next, Work

LEMMA BreakerInductive == Spec => []BreakerInv
<1>1. Init => BreakerInv
  <2> SUFFICES ASSUME Init PROVE BreakerInv
    OBVIOUS
  <2>1. outcomes = <<>> /\ consecutive = 0 /\ breaker = "closed" /\ current = 0 /\ Len(outcomes) = 0 /\ DOMAIN outcomes = {}
    BY DEF Init
  <2>2. Streak(outcomes, consecutive)
    <3>1. Of(outcomes, Answered, 1, 0) = {} /\ Cardinality(Of(outcomes, Unreached, 1, 0)) = 0
      BY StretchFinite
    <3> QED
      BY <2>1, <3>1 DEF Streak
  <2> QED
    BY <2>1, <2>2 DEF BreakerInv, BreakerIsRight, InARow
<1>2. EngineInv /\ BreakerInv /\ [Next]_engineVars => BreakerInv'
  BY BreakerStep
<1> QED
  BY <1>1, <1>2, EngineInductive, PTL DEF Spec
-----------------------------------------------------------------------------
(* The engine's state keeps its types.                                     *)
THEOREM EngineTypeCorrect == Spec => []TypeOK
<1>1. EngineInv => TypeOK
  BY DEF EngineInv
<1> QED
  BY <1>1, EngineInductive, PTL

(* "planned == started + unscheduled", preemption included, at every       *)
(* moment of the run (Engine.run).                                         *)
THEOREM AccountedTheorem == Spec => []Accounted
<1>1. EngineInv => Accounted
  BY DEF EngineInv
<1> QED
  BY <1>1, EngineInductive, PTL

(* Every task is settled once, in the order of the plan.                   *)
THEOREM InOrderTheorem == Spec => []InOrder
<1>1. EngineInv => InOrder
  BY DEF EngineInv
<1> QED
  BY <1>1, EngineInductive, PTL

(* The GPU budget is overrun by less than one attempt (_blocked).          *)
THEOREM WithinBudgetTheorem == Spec => []WithinBudget
<1>1. EngineInv => WithinBudget
  BY DEF EngineInv
<1> QED
  BY <1>1, EngineInductive, PTL

(* A run that returns has settled everything; stopped means stopped.       *)
THEOREM ExplainedTheorem == Spec => []Explained
<1>1. EngineInv => Explained
  BY DEF EngineInv
<1> QED
  BY <1>1, EngineInductive, PTL

(* The breaker is open for an unreachable host exactly when as many host   *)
(* failures as the limit came with no answer of the host between them,     *)
(* whatever else was tried, skipped or preempted meanwhile                 *)
(* (Engine.run, the breaker of jobs/engine.py).                            *)
THEOREM BreakerIsRightTheorem == Spec => []BreakerIsRight
<1>1. BreakerInv => BreakerIsRight
  BY DEF BreakerInv, BreakerIsRight
<1> QED
  BY <1>1, BreakerInductive, PTL
-----------------------------------------------------------------------------
(***************************************************************************)
(* The composition.  Every step of the lane is a step of the broker, or    *)
(* leaves it alone; that needs no invariant.  That it is also a step of    *)
(* the engine does: an attempt costs no more than two replies, and a call  *)
(* is only over as cancelled when the evaluator stopped the job, though    *)
(* the stop reaches the call through two threads and a hook (Blame).       *)
(***************************************************************************)

(* Where a task is, and what its attempt has cost.                         *)
Charged ==
    /\ step # "idle" => current # 0
    /\ step = "idle" => secs = 0
    /\ step \in {"ask", "call"} => secs <= (IF ask = 1 THEN 0 ELSE ReplyCost)

(* Who has stopped what: a stop is passed on from the job to its token, to *)
(* the hook, to the token of the call, to the result.                      *)
Blame ==
    /\ stopped[job] => cancelled \/ state # "running"
    /\ hook[job] # None => stopped[job]
    /\ token[job] # None /\ reason[token[job]] = "stopped" => stopped[job]
    /\ result[job] = "cancelled" => stopped[job]

LaneInv == LaneTypeOK /\ BrokerInv /\ EngineInv /\ Charged /\ Blame

(* A step of the lane as the broker sees it.                               *)
LEMMA LaneStepsBroker == ASSUME [LaneNext]_vars PROVE [BrokerNext]_brokerVars
<1>0. job \in Workers
  BY LaneAssumption
<1>1. CASE UNCHANGED vars
  BY <1>1 DEF vars
<1>2. CASE Lane
  <2>1. CASE AskModel
    BY <2>1, <1>0 DEF AskModel, BrokerNext
  <2>2. CASE TakeTask \/ Decline \/ AskCache \/ Replied \/ CallFailed
    BY <2>2 DEF TakeTask, Decline, AskCache, Replied, CallFailed
  <2>3. CASE CallPreempted \/ CallCancelled \/ WorkFails \/ SettleAttempt \/ SkipTask \/ ReturnJob
    BY <2>3 DEF CallPreempted, CallCancelled, WorkFails, SettleAttempt, SkipTask, ReturnJob
  <2> QED
    BY <1>2, <2>1, <2>2, <2>3 DEF Lane
<1>3. CASE Watch
  BY <1>0, <1>3 DEF Watch, BrokerNext
<1>4. CASE StopJob
  BY <1>4 DEF StopJob
<1>5. CASE Gpu(ChatNext) \/ Gpu(CallNext(job)) \/ Gpu(RunHook(job))
  BY <1>0, <1>5 DEF Gpu, BrokerNext
<1> QED
  BY <1>1, <1>2, <1>3, <1>4, <1>5 DEF LaneNext

(* A step of the lane as the engine sees it.                               *)
LEMMA LaneStepsEngine == ASSUME LaneInv, [LaneNext]_vars PROVE [Next]_engineVars
<1>1. /\ secs \in 0..MaxCost /\ 0 \in 0..MaxCost
      /\ 0 \in 0..MaxFollowUps /\ 1 \in 0..MaxFollowUps /\ planned + 0 <= MaxPlanned /\ planned \in Nat
  BY LaneAssumption, EngineAssumption DEF LaneInv, LaneTypeOK, TypeOK
<1>2. CASE Lane
  <2>1. CASE TakeTask \/ SkipTask \/ ReturnJob
    BY <2>1 DEF TakeTask, SkipTask, ReturnJob, Next, Work
  <2>2. CASE AskCache \/ AskModel \/ Replied
    BY <2>2 DEF AskCache, AskModel, Replied
  <2>3. CASE Decline \/ WorkFails
    BY <2>3 DEF Decline, WorkFails, Next, Work, Attempt
  <2>4. CASE CallFailed
    BY <2>4 DEF CallFailed, Next, Work, Attempt
  <2>5. CASE CallPreempted
    BY <2>5 DEF CallPreempted, Next, Work
  <2>6. CASE CallCancelled
    <3>1. result[job] = "cancelled" /\ step = "call" /\ Other("stopped", 0)
      BY <2>6 DEF CallCancelled, Back
    <3>2. state = "running"
      BY <3>1 DEF LaneInv, Charged, EngineInv, Told
    <3>3. cancelled
      BY <3>1, <3>2 DEF LaneInv, Blame
    <3> QED
      BY <3>1, <3>3 DEF Stopped, Next, Work, Attempt
  <2>7. CASE SettleAttempt
    <3>1. ASSUME Other("contract", secs) PROVE Attempt
      BY <3>1, <1>1 DEF Attempt
    <3>2. ASSUME NEW k \in {0, 1}, NEW why \in {"done", "cached"}, Done(why, secs, k),
                 k = 1 => planned < MaxPlanned
          PROVE  Attempt
      <4>1. planned + k <= MaxPlanned /\ k \in 0..MaxFollowUps
        BY <1>1, <3>2, EngineAssumption
      <4> QED
        BY <4>1, <1>1, <3>2 DEF Attempt
    <3> QED
      BY <2>7, <3>1, <3>2 DEF SettleAttempt, Next, Work
  <2> QED
    BY <1>2, <2>1, <2>2, <2>3, <2>4, <2>5, <2>6, <2>7 DEF Lane
<1>3. CASE Watch \/ Gpu(ChatNext) \/ Gpu(CallNext(job)) \/ Gpu(RunHook(job)) \/ UNCHANGED vars
  BY <1>3 DEF Watch, Gpu, vars
<1>4. CASE StopJob
  BY <1>4 DEF StopJob, Next
<1> QED
  BY <1>2, <1>3, <1>4 DEF LaneNext


(* The plan only grows, and a job that is to end stays so.                 *)
LEMMA EngineGoesOn ==
    ASSUME EngineInv, [Next]_engineVars
    PROVE  /\ planned \in Nat /\ planned' \in Nat /\ planned <= planned'
           /\ cancelled \/ state # "running" => (cancelled \/ state # "running")'
<1>1. planned \in Nat
  BY EngineAssumption DEF EngineInv, TypeOK
<1>2. CASE Skip \/ Take \/ PutBack \/ Return \/ Stop \/ UNCHANGED engineVars
  BY <1>1, <1>2 DEF Skip, Settle, Take, PutBack, Return, Stop, engineVars
<1>3. ASSUME NEW why, NEW cost, NEW k \in Nat, Finish(why, cost, k)
      PROVE  /\ planned' \in Nat /\ planned <= planned'
             /\ cancelled \/ state # "running" => (cancelled \/ state # "running")'
  BY <1>1, <1>3 DEF Finish, FollowUps, Settle
<1>4. CASE Attempt
  BY <1>1, <1>3, <1>4, EngineAssumption DEF Attempt, Done, Other, Refused, Disabled, HostFailure, Stopped
<1> QED
  BY <1>1, <1>2, <1>4 DEF Next, Work

(* The steps that end an attempt, or leave it alone.                       *)
LEMMA AttemptKept ==
    ASSUME LaneInv, [LaneNext]_vars, AttemptEnds \/ UNCHANGED <<attemptVars, current>>
    PROVE  /\ step' \in {"idle", "ask", "call", "settle"} /\ ask' \in {1, 2}
           /\ first' \in Replies \cup {"none"} /\ secs' \in 0..2 * ReplyCost /\ allCached' \in BOOLEAN
           /\ Charged'
<1>1. 0 \in 0..2 * ReplyCost
  BY LaneAssumption
<1>2. CASE AttemptEnds
  BY <1>1, <1>2 DEF AttemptEnds, Charged, Replies
<1>3. CASE UNCHANGED <<attemptVars, current>>
  BY <1>3 DEF attemptVars, LaneInv, LaneTypeOK, Charged
<1> QED
  BY <1>2, <1>3

(* A reply is judged.                                                      *)
LEMMA JudgeKeeps ==
    ASSUME LaneInv, step \in {"ask", "call"}, NEW reply \in Replies, NEW cached \in BOOLEAN,
           NEW seconds \in 0..ReplyCost, Judge(reply, cached, seconds, ask), current' = current
    PROVE  /\ step' \in {"idle", "ask", "call", "settle"} /\ ask' \in {1, 2}
           /\ first' \in Replies \cup {"none"} /\ secs' \in 0..2 * ReplyCost /\ allCached' \in BOOLEAN
           /\ Charged'
<1>1. /\ secs \in Nat /\ ReplyCost \in Nat /\ ask \in {1, 2} /\ current # 0 /\ secs' = secs + seconds
      /\ first \in Replies \cup {"none"} /\ allCached \in BOOLEAN
      /\ secs <= IF ask = 1 THEN 0 ELSE ReplyCost
  BY LaneAssumption DEF Judge, LaneInv, LaneTypeOK, Charged
<1>2. secs' \in 0..2 * ReplyCost /\ (ask = 1 => secs' <= ReplyCost)
  BY <1>1
<1>3. CASE ask = 1 /\ reply = "more" /\ <<current, 2>> \notin tooLong
  BY <1>1, <1>2, <1>3 DEF Judge, Charged
<1>4. CASE ~(ask = 1 /\ reply = "more" /\ <<current, 2>> \notin tooLong)
  BY <1>1, <1>2, <1>4 DEF Judge, Charged
<1> QED
  BY <1>3, <1>4

(* The attempt of the lane: its types and what it is charged.              *)
LEMMA LaneAttempt ==
    ASSUME LaneInv, [LaneNext]_vars
    PROVE  /\ step' \in {"idle", "ask", "call", "settle"} /\ ask' \in {1, 2}
           /\ first' \in Replies \cup {"none"} /\ secs' \in 0..2 * ReplyCost /\ allCached' \in BOOLEAN
           /\ Charged'
<1>1. CASE TakeTask
  <2>1. current' # 0
    BY <1>1, TailInLine DEF TakeTask, Take, LaneInv
  <2> QED
    BY <1>1, <2>1, LaneAssumption DEF TakeTask, LaneInv, LaneTypeOK, Charged
<1>2. CASE AskCache
  <2>1. Prompt \in Prompts
    BY <1>2, EngineAssumption DEF AskCache, LaneInv, LaneTypeOK, Charged, TypeOK, Prompt, Prompts
  <2>2. cache[Prompt] \in Replies /\ 0 \in 0..ReplyCost
    BY <1>2, <2>1, LaneAssumption DEF AskCache, Cached, LaneInv, LaneTypeOK
  <2> QED
    BY <1>2, <2>2, JudgeKeeps DEF AskCache, engineVars
<1>3. CASE Replied
  <2>1. \A seconds \in 1..ReplyCost : seconds \in 0..ReplyCost
    BY LaneAssumption
  <2> QED
    BY <1>3, <2>1, JudgeKeeps DEF Replied, Back, engineVars
<1>4. CASE AskModel
  BY <1>4 DEF AskModel, engineVars, LaneInv, LaneTypeOK, Charged
<1>5. CASE Decline \/ CallFailed \/ CallPreempted \/ CallCancelled \/ WorkFails \/ SettleAttempt
  BY <1>5, AttemptKept DEF Decline, CallFailed, CallPreempted, CallCancelled, WorkFails, SettleAttempt
<1>6. CASE SkipTask \/ ReturnJob \/ StopJob
  BY <1>6, AttemptKept DEF SkipTask, Skip, ReturnJob, Return, StopJob, Stop
<1>7. CASE Watch \/ Gpu(ChatNext) \/ Gpu(CallNext(job)) \/ Gpu(RunHook(job)) \/ UNCHANGED vars
  BY <1>7, AttemptKept DEF Watch, Gpu, vars, engineVars
<1> QED
  BY <1>1, <1>2, <1>3, <1>4, <1>5, <1>6, <1>7 DEF LaneNext, Lane

(* What outlives an attempt: the cache, the promotions.                    *)
LEMMA LaneKept ==
    ASSUME LaneInv, [LaneNext]_vars
    PROVE  /\ cache' \in [Prompts -> Replies \cup {"none"}] /\ tooLong' \in Lengths
           /\ promoted' \subseteq (NPlan + 1)..planned'
<1>1. /\ planned \in Nat /\ planned' \in Nat /\ planned <= planned' /\ NPlan \in Nat
      /\ cache \in [Prompts -> Replies \cup {"none"}] /\ tooLong \in Lengths
      /\ promoted \subseteq (NPlan + 1)..planned
  BY LaneStepsEngine, EngineGoesOn, EngineAssumption DEF LaneInv, LaneTypeOK
<1>2. (NPlan + 1)..planned \subseteq (NPlan + 1)..planned'
  BY <1>1
<1>3. CASE Replied
  <2>1. \A reply \in Replies : [cache EXCEPT ![Prompt] = reply] \in [Prompts -> Replies \cup {"none"}]
    BY <1>1
  <2> QED
    BY <1>1, <1>2, <1>3, <2>1 DEF Replied, Keep, kept
<1>4. CASE SettleAttempt
  <2>1. SecondLook(current) => current \in (NPlan + 1)..planned
    BY <1>1 DEF SecondLook, LaneInv, LaneTypeOK, TypeOK
  <2> QED
    BY <1>1, <1>2, <1>4, <2>1 DEF SettleAttempt, Promotes
<1>5. CASE UNCHANGED kept
  BY <1>1, <1>2, <1>5 DEF kept
<1>6. Replied \/ SettleAttempt \/ UNCHANGED kept
  BY DEF LaneNext, Lane, TakeTask, Decline, AskCache, AskModel, CallFailed, CallPreempted,
         CallCancelled, WorkFails, SkipTask, ReturnJob, Watch, StopJob, Gpu, vars
<1> QED
  BY <1>3, <1>4, <1>5, <1>6

(* A stop is never attributed to a job that was not stopped.               *)
LEMMA LaneBlame == ASSUME LaneInv, [LaneNext]_vars PROVE Blame'
<1>0. /\ job \in Workers /\ None \notin Tokens
      /\ cancelled \/ state # "running" => (cancelled \/ state # "running")'
  BY LaneAssumption, BrokerAssumption, LaneStepsEngine, EngineGoesOn DEF LaneInv
<1>1. /\ reason \in [Tokens -> Reasons] /\ token \in [Workers -> Tokens \cup {None}]
      /\ stopped \in [Workers -> BOOLEAN] /\ hook \in [Workers -> Tokens \cup {None}]
      /\ result \in [Workers -> Results] /\ Blame
  BY DEF LaneInv, BrokerInv, BrokerTypeOK
<1>2. CASE UNCHANGED <<calls, reason>>
  BY <1>0, <1>1, <1>2 DEF Blame, calls
<1>3. CASE AskModel
  BY <1>0, <1>1, <1>3 DEF AskModel, Begin, engineVars, Blame
<1>4. CASE Watch
  BY <1>0, <1>1, <1>4 DEF Watch, StopToken, Blame, engineVars
<1>5. ASSUME NEW c \in Chats, CancelVictim(c) PROVE Blame'
  <2>1. UNCHANGED calls /\ reason' \in [Tokens -> Reasons]
        /\ \A t \in Tokens : reason'[t] = "stopped" => reason[t] = "stopped"
    BY <1>1, <1>5 DEF CancelVictim, Cancel, Reasons
  <2> QED
    BY <1>0, <1>1, <2>1 DEF Blame, calls
<1>6. ASSUME CallNext(job) PROVE Blame'
  <2>1. CASE Acquire(job) \/ Open(job)
    BY <1>0, <1>1, <2>1 DEF Acquire, Open, Blame
  <2>2. CASE Abort(job) \/ Release(job)
    BY <1>0, <1>1, <2>2 DEF Abort, Release, Blame
  <2>3. CASE Answer(job)
    <3>1. token[job] # None
      BY <2>3, <1>0 DEF Answer, LaneInv, BrokerInv, Slots
    <3>2. reason[token[job]] \in Reasons
      BY <3>1, <1>0, <1>1
    <3>3. result'[job] = "cancelled" => stopped[job]
      BY <3>1, <3>2, <2>3, <1>0, <1>1 DEF Answer, Ending, Reasons, Blame
    <3> QED
      BY <3>3, <2>3, <1>0, <1>1 DEF Answer, Blame
  <2> QED
    BY <1>6, <2>1, <2>2, <2>3 DEF CallNext
<1>7. ASSUME RunHook(job) PROVE Blame'
  BY <1>0, <1>1, <1>7 DEF RunHook, Cancel, Blame
<1>8. CASE Gpu(ChatNext)
  <2>1. CASE GoAway \/ Type \/ Tick
    BY <2>1, <1>2 DEF GoAway, Type, Tick
  <2>2. ASSUME NEW c \in Chats, Enter(c) \/ Request(c) \/ Leave(c) PROVE Blame'
    BY <2>2, <1>2 DEF Enter, Request, Leave
  <2> QED
    BY <1>5, <1>8, <2>1, <2>2 DEF Gpu, ChatNext
<1>9. CASE Lane /\ ~AskModel
  <2>1. UNCHANGED brokerVars
    BY <1>9 DEF Lane, TakeTask, Decline, AskCache, Replied, CallFailed, CallPreempted, CallCancelled,
                WorkFails, SettleAttempt, SkipTask, ReturnJob
  <2> QED
    BY <2>1, <1>2 DEF brokerVars
<1>10. CASE StopJob \/ UNCHANGED vars
  BY <1>10, <1>2 DEF StopJob, vars, brokerVars
<1> QED
  BY <1>3, <1>4, <1>6, <1>7, <1>8, <1>9, <1>10 DEF LaneNext, Gpu

LEMMA LaneStep == ASSUME LaneInv, [LaneNext]_vars PROVE LaneInv'
<1>1. BrokerInv'
  BY LaneStepsBroker, BrokerStep DEF LaneInv
<1>2. EngineInv'
  BY LaneStepsEngine, EngineStep DEF LaneInv
<1>3. LaneTypeOK'
  BY <1>1, <1>2, LaneAttempt, LaneKept DEF LaneTypeOK, BrokerInv, EngineInv
<1> QED
  BY <1>1, <1>2, <1>3, LaneAttempt, LaneBlame DEF LaneInv

LEMMA LaneInductive == LaneSpec => []LaneInv
<1>1. LaneInit => LaneInv
  <2> SUFFICES ASSUME LaneInit PROVE LaneInv
    OBVIOUS
  <2>1. BrokerInv /\ EngineInv
    BY BrokerInitInv, EngineInitInv DEF LaneInit
  <2>2. LaneTypeOK
    <3>1. 0 \in 0..2 * ReplyCost /\ secs = 0
      BY LaneAssumption DEF LaneInit
    <3>2. cache \in [Prompts -> Replies \cup {"none"}] /\ promoted \subseteq (NPlan + 1)..planned
      BY DEF LaneInit
    <3> QED
      BY <2>1, <3>1, <3>2 DEF LaneInit, LaneTypeOK, BrokerInv, EngineInv
  <2>3. Charged /\ Blame
    BY LaneAssumption, BrokerAssumption DEF LaneInit, BrokerInit, Charged, Blame
  <2> QED
    BY <2>1, <2>2, <2>3 DEF LaneInv
<1>2. LaneInv /\ [LaneNext]_vars => LaneInv'
  BY LaneStep
<1> QED
  BY <1>1, <1>2, PTL DEF LaneSpec
-----------------------------------------------------------------------------
(* The state of the lane, and of the two components in it, keeps its types. *)
THEOREM LaneTypeCorrect == LaneSpec => []LaneTypeOK
<1>1. LaneInv => LaneTypeOK
  BY DEF LaneInv
<1> QED
  BY <1>1, LaneInductive, PTL

(* A review implements the batch engine: whatever the broker, the cache    *)
(* and the watcher thread do to a job's tasks (jobs/lens_job.py), every    *)
(* step of it is a step Engine.run may take, or none.                      *)
THEOREM LaneImplementsEngine == LaneSpec => LaneIsEngine
<1>1. LaneInit => Init
  BY DEF LaneInit
<1>2. LaneInv /\ [LaneNext]_vars => [Next]_engineVars
  BY LaneStepsEngine
<1> QED
  BY <1>1, <1>2, LaneInductive, PTL DEF LaneSpec, LaneIsEngine, Spec

(* It uses the GPU by the broker's rules alone.                            *)
THEOREM LaneImplementsBroker == LaneSpec => BrokerSpec
<1>1. LaneInit => BrokerInit
  BY DEF LaneInit
<1>2. [LaneNext]_vars => [BrokerNext]_brokerVars
  BY LaneStepsBroker
<1> QED
  BY <1>1, <1>2, PTL DEF LaneSpec, BrokerSpec

(* So what was proved of each of them holds of a review between them.      *)
COROLLARY LaneKeepsPromises ==
    LaneSpec => [](BackgroundYields /\ NoStaleVictim /\ Accounted /\ InOrder
                   /\ BreakerIsRight /\ WithinBudget /\ Explained)
  BY LaneImplementsEngine, LaneImplementsBroker, BackgroundYieldsTheorem, NoStaleVictimTheorem,
     AccountedTheorem, InOrderTheorem, BreakerIsRightTheorem, WithinBudgetTheorem, ExplainedTheorem,
     PTL DEF LaneIsEngine
=============================================================================
