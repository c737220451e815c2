------------------------------- MODULE Broker -------------------------------
(***************************************************************************)
(* The GPU's traffic light: class Broker of model/broker.py, with as much  *)
(* of CancelToken and ModelClient.chat (model/client.py) as decides how a  *)
(* background request ends.                                                *)
(*                                                                         *)
(* A conversation's request (P0) freezes background dispatch and cancels   *)
(* the token of every background request (P1) in flight; background work   *)
(* resumes after a quiet period.  The condition's lock is held only while  *)
(* the counters change: tokens are cancelled, and requests made, outside.  *)
(* Each evaluation has one conversation and at most one job, and one       *)
(* broker serves all evaluations of the server.                            *)
(*                                                                         *)
(* Time is the clock minus _last_activity, in ticks, counted up to         *)
(* ResumeAfter: older activity makes no difference.  The preemptions       *)
(* statistic, which nothing in the program reads, is left out.             *)
(***************************************************************************)
EXTENDS Naturals, FiniteSets

CONSTANTS
    Chats,          \* the conversations' threads
    Workers,        \* the jobs' threads
    Tokens,         \* CancelToken objects; one nobody holds can be new again
    None,           \* no token
    ResumeAfter     \* ticks of quiet before background work resumes

ASSUME BrokerAssumption ==
    /\ IsFiniteSet(Chats)
    /\ None \notin Tokens
    /\ ResumeAfter \in Nat

Reasons == {"live", "preempted", "stopped"}
Results == {"none", "reply", "error", "preempted", "cancelled"}
Asking == {"held", "asking", "leaving"}

VARIABLES
    interactive,    \* _interactive: P0 requests being made
    quiet,          \* ticks since _last_activity
    background,     \* _background: the tokens that hold a slot
    reason,         \* reason[t]: why token t was cancelled, or live
    chat,           \* where each conversation is: out, entering, request
    victims,        \* victims[c]: the tokens c has still to cancel
    worker,         \* where each job is in Broker.chat
    token,          \* token[w]: the token of w's call
    stopped,        \* stopped[w]: the job's stop token is cancelled
    hook,           \* hook[w]: the token the stop token's hook will cancel
    result,         \* result[w]: how w's last call ended
    present         \* the operator may still ask or type; they may leave for good

clock == <<quiet, present>>
chats == <<interactive, chat, victims>>
calls == <<worker, token, stopped, hook, result>>
brokerVars == <<clock, chats, calls, background, reason>>

BrokerInit ==
    /\ interactive = 0
    /\ quiet = ResumeAfter
    /\ background = {}
    /\ reason = [t \in Tokens |-> "live"]
    /\ chat = [c \in Chats |-> "out"]
    /\ victims = [c \in Chats |-> {}]
    /\ worker = [w \in Workers |-> "off"]
    /\ token = [w \in Workers |-> None]
    /\ stopped = [w \in Workers |-> FALSE]
    /\ hook = [w \in Workers |-> None]
    /\ result = [w \in Workers |-> "none"]
    /\ present = TRUE

(* CancelToken.cancel: the first reason stays.                             *)
Cancel(t, why) ==
    reason' = [reason EXCEPT ![t] = IF @ = "live" THEN why ELSE @]

(* The operator does something: the moment is remembered.                  *)
Active ==
    /\ present
    /\ quiet' = 0
    /\ UNCHANGED present

GoAway ==
    /\ present
    /\ present' = FALSE
    /\ UNCHANGED <<quiet, chats, calls, background, reason>>

Ready == interactive = 0 /\ quiet >= ResumeAfter
-----------------------------------------------------------------------------
(* The conversation.                                                       *)

(* interactive(), under the lock: freeze dispatch, choose the victims.     *)
Enter(c) ==
    /\ chat[c] = "out"
    /\ Active
    /\ interactive' = interactive + 1
    /\ victims' = [victims EXCEPT ![c] = background]
    /\ chat' = [chat EXCEPT ![c] = "entering"]
    /\ UNCHANGED <<calls, background, reason>>

(* Outside the lock, one victim after another.                             *)
CancelVictim(c) ==
    /\ chat[c] = "entering"
    /\ \E t \in victims[c] :
         /\ Cancel(t, "preempted")
         /\ victims' = [victims EXCEPT ![c] = @ \ {t}]
    /\ UNCHANGED <<interactive, clock, calls, background, chat>>

(* The victims are all cancelled: the conversation's request goes out.     *)
Request(c) ==
    /\ chat[c] = "entering"
    /\ victims[c] = {}
    /\ chat' = [chat EXCEPT ![c] = "request"]
    /\ UNCHANGED <<interactive, victims, clock, calls, background, reason>>

(* Variant: a request that failed is not counted out.                      *)
Leave_NoFinally(c) ==
    /\ chat[c] = "request"
    /\ interactive' \in {interactive, interactive - 1}
    /\ quiet' = 0
    /\ chat' = [chat EXCEPT ![c] = "out"]
    /\ UNCHANGED <<victims, present, calls, background, reason>>

(* The reply came, or the request failed: the finally of interactive().    *)
Leave(c) ==
    /\ chat[c] = "request"
    /\ interactive' = interactive - 1
    /\ quiet' = 0
    /\ chat' = [chat EXCEPT ![c] = "out"]
    /\ UNCHANGED <<victims, present, calls, background, reason>>

(* note_activity: the operator is typing.                                  *)
Type ==
    /\ Active
    /\ UNCHANGED <<chats, calls, background, reason>>

Tick ==
    /\ quiet < ResumeAfter
    /\ quiet' = quiet + 1
    /\ UNCHANGED <<present, chats, calls, background, reason>>
-----------------------------------------------------------------------------
(* A background request.                                                   *)

(* A token object nothing refers to any more.                              *)
New(t) ==
    /\ \A w \in Workers : token[w] # t /\ hook[w] # t
    /\ \A c \in Chats : t \notin victims[c]

(* chat(client, BACKGROUND, stop): a token of its own, linked to the stop  *)
(* token, which cancels it at once if the job was stopped before.          *)
Begin(w) ==
    /\ worker[w] = "off"
    /\ \E t \in Tokens :
         /\ New(t)
         /\ token' = [token EXCEPT ![w] = t]
         /\ reason' = [reason EXCEPT ![t] = IF stopped[w] THEN "stopped" ELSE "live"]
    /\ worker' = [worker EXCEPT ![w] = "wait"]
    /\ result' = [result EXCEPT ![w] = "none"]
    /\ UNCHANGED <<clock, chats, stopped, hook, background>>

(* background(): the GPU is quiet, the token gets a slot.                  *)
Acquire(w) ==
    /\ worker[w] = "wait"
    /\ Ready
    /\ background' = background \cup {token[w]}
    /\ worker' = [worker EXCEPT ![w] = "held"]
    /\ UNCHANGED <<clock, chats, reason, token, stopped, hook, result>>

(* The GPU is not quiet and the job was stopped: no slot, Cancelled.       *)
Abort(w) ==
    /\ worker[w] = "wait"
    /\ ~Ready /\ stopped[w]
    /\ worker' = [worker EXCEPT ![w] = "off"]
    /\ token' = [token EXCEPT ![w] = None]
    /\ result' = [result EXCEPT ![w] = "cancelled"]
    /\ UNCHANGED <<clock, chats, reason, stopped, hook, background>>

(* client.chat opens the request, outside the lock.                        *)
Open(w) ==
    /\ worker[w] = "held"
    /\ worker' = [worker EXCEPT ![w] = "asking"]
    /\ UNCHANGED <<clock, chats, reason, background, token, stopped, hook, result>>

(* A Cancelled request: whoever cancelled its token first says why.        *)
Ending(t) == IF reason[t] = "preempted" THEN "preempted" ELSE "cancelled"

(* client.chat returns or raises.  A cancelled token shuts the socket, but *)
(* a reply or an error may have been complete by then.                     *)
Answer(w) ==
    /\ worker[w] = "asking"
    /\ \/ \E r \in {"reply", "error"} : result' = [result EXCEPT ![w] = r]
       \/ /\ reason[token[w]] # "live"
          /\ result' = [result EXCEPT ![w] = Ending(token[w])]
    /\ worker' = [worker EXCEPT ![w] = "leaving"]
    /\ UNCHANGED <<clock, chats, reason, background, token, stopped, hook>>

(* The finallys: give the slot back, unlink the token from the stop token. *)
Release(w) ==
    /\ worker[w] = "leaving"
    /\ background' = background \ {token[w]}
    /\ worker' = [worker EXCEPT ![w] = "off"]
    /\ token' = [token EXCEPT ![w] = None]
    /\ UNCHANGED <<clock, chats, reason, stopped, hook, result>>

(* The stop token is cancelled: its hook, if a call is linked, runs after. *)
StopToken(w) ==
    /\ ~stopped[w]
    /\ stopped' = [stopped EXCEPT ![w] = TRUE]
    /\ hook' = [hook EXCEPT ![w] = token[w]]
    /\ UNCHANGED <<clock, chats, reason, background, worker, token, result>>

RunHook(w) ==
    /\ hook[w] # None
    /\ Cancel(hook[w], "stopped")
    /\ hook' = [hook EXCEPT ![w] = None]
    /\ UNCHANGED <<clock, chats, background, worker, token, stopped, result>>

ChatNext == GoAway \/ Type \/ Tick \/ \E c \in Chats : Enter(c) \/ CancelVictim(c) \/ Request(c) \/ Leave(c)
CallNext(w) == Acquire(w) \/ Abort(w) \/ Open(w) \/ Answer(w) \/ Release(w)
BrokerNext == ChatNext \/ \E w \in Workers : Begin(w) \/ CallNext(w) \/ StopToken(w) \/ RunHook(w)

BrokerSpec == BrokerInit /\ [][BrokerNext]_brokerVars
-----------------------------------------------------------------------------
(* The counters, tokens and threads keep their types; the count of P0      *)
(* requests never goes below zero.                                         *)
BrokerTypeOK ==
    /\ interactive \in Nat /\ quiet \in 0..ResumeAfter /\ present \in BOOLEAN
    /\ background \subseteq Tokens
    /\ reason \in [Tokens -> Reasons]
    /\ chat \in [Chats -> {"out", "entering", "request"}]
    /\ victims \in [Chats -> SUBSET Tokens]
    /\ worker \in [Workers -> {"off", "wait"} \cup Asking]
    /\ token \in [Workers -> Tokens \cup {None}]
    /\ stopped \in [Workers -> BOOLEAN]
    /\ hook \in [Workers -> Tokens \cup {None}]
    /\ result \in [Workers -> Results]

(* "freezes background dispatch and disconnects every in-flight background *)
(* request": while a conversation's request is out, every token that holds *)
(* a background slot has been cancelled, though the cancelling and both    *)
(* requests happen outside the lock.                                       *)
BackgroundYields ==
    \A c \in Chats : chat[c] = "request" => \A t \in background : reason[t] # "live"

(* A conversation never disconnects a call that came after it: a token it  *)
(* has still to cancel is nobody's, or that of a call already in its slot  *)
(* when the conversation came, never one that waits for the GPU.           *)
NoStaleVictim ==
    \A c \in Chats, w \in Workers : token[w] \in victims[c] => worker[w] \in Asking
=============================================================================
