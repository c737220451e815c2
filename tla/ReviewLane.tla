----------------------------- MODULE ReviewLane -----------------------------
(***************************************************************************)
(* A review job (jobs/lens_job.py) between the conversation and the GPU:   *)
(* the Engine's tasks are worked on with one or two requests each, which   *)
(* go through the Broker and may be preempted there; complete replies are  *)
(* kept in a cache, so that a task that runs again does not ask again.     *)
(*                                                                         *)
(* What a reply says is one of a few kinds: it breaks the contract, finds  *)
(* nothing, finds something, or asks for more code.  For a follow-up       *)
(* task, the second look at a finding, "found" is a verdict that upholds   *)
(* it.  One finding per task is enough to tell the properties apart.       *)
(***************************************************************************)
EXTENDS Broker, Engine

CONSTANTS
    ReplyCost,  \* bound: GPU seconds of one request
    Raising,    \* bound: the tasks whose work may raise something unexpected
    Lengths,    \* sets of prompts <<task, ask>> that may not fit the window
    job         \* the job's thread, the only worker that asks for the GPU here

ASSUME LaneAssumption ==
    /\ job \in Workers
    /\ ReplyCost \in Nat \ {0} /\ 2 * ReplyCost <= MaxCost
    /\ MaxFollowUps >= 1

VARIABLES
    step,       \* idle, ask (about to ask), call (in Broker.chat), settle
    ask,        \* 1 or 2: which of the task's requests
    first,      \* what the first reply said, while the second is asked
    secs,       \* GPU seconds of this attempt
    allCached,  \* whether the reply being judged came from the cache
    cache,      \* cache[p]: the complete reply kept for prompt p
    tooLong,    \* the prompts that do not fit the window
    promoted    \* the second looks whose finding joined the list

attemptVars == <<step, ask, first, secs, allCached>>
kept == <<cache, tooLong, promoted>>
vars == <<brokerVars, engineVars, attemptVars, kept>>

Replies == {"bad", "clean", "found", "more"}
Prompts == (1..MaxPlanned) \X {1, 2}
Prompt == <<current, ask>>

SecondLook(task) == task > NPlan

LaneInit ==
    /\ BrokerInit /\ Init
    /\ step = "idle" /\ ask = 1 /\ first = "none"
    /\ secs = 0 /\ allCached = FALSE
    /\ cache = [p \in Prompts |-> "none"]
    /\ tooLong \in Lengths
    /\ promoted = {}
-----------------------------------------------------------------------------
(* Nothing of an attempt outlives it but the cache.                        *)
AttemptEnds == step' = "idle" /\ ask' = 1 /\ first' = "none" /\ secs' = 0 /\ allCached' = FALSE

(* _work begins.                                                           *)
TakeTask ==
    /\ step = "idle"
    /\ Take
    /\ step' = "ask"
    /\ UNCHANGED <<brokerVars, ask, first, secs, allCached, kept>>

(* The unit does not fit the model window: declined, never cut to fit.     *)
Decline ==
    /\ step = "ask" /\ ask = 1 /\ Prompt \in tooLong
    /\ Other("window", 0)
    /\ AttemptEnds
    /\ UNCHANGED <<brokerVars, kept>>

(* A reply is judged: it may ask for more code, once, if that still fits;  *)
(* a second reply that breaks the contract leaves the first one standing.  *)
Judge(reply, cached, seconds, promptDone) ==
    /\ secs' = secs + seconds
    /\ IF promptDone = 1 /\ reply = "more" /\ <<current, 2>> \notin tooLong
         THEN /\ step' = "ask" /\ ask' = 2
              /\ first' = reply /\ allCached' = cached
         ELSE /\ step' = "settle" /\ UNCHANGED ask
              /\ first' = IF promptDone = 2 /\ reply = "bad" THEN first ELSE reply
              /\ allCached' = IF promptDone = 2
                                THEN allCached /\ (reply = "bad" \/ cached)
                                ELSE cached

Cached == cache[Prompt] # "none"

(* _ask finds the reply in the cache.                                      *)
AskCache ==
    /\ step = "ask" /\ ~(ask = 1 /\ Prompt \in tooLong)
    /\ Cached
    /\ Judge(cache[Prompt], TRUE, 0, ask)
    /\ UNCHANGED <<brokerVars, engineVars, kept>>

(* _ask goes to the broker.                                                *)
AskModel ==
    /\ step = "ask" /\ ~(ask = 1 /\ Prompt \in tooLong)
    /\ ~Cached
    /\ Begin(job)
    /\ step' = "call"
    /\ UNCHANGED <<engineVars, ask, first, secs, allCached, kept>>

(* The call is over: the broker has given the slot back.                   *)
Back(r) == step = "call" /\ worker[job] = "off" /\ result[job] = r

Keep(reply) == cache' = [cache EXCEPT ![Prompt] = reply]

(* A reply; one that was cut at max_tokens is judged but not kept.         *)
Replied ==
    /\ Back("reply")
    /\ \E reply \in Replies, seconds \in 1..ReplyCost :
         /\ Judge(reply, FALSE, seconds, ask)
         /\ Keep(reply) \/ UNCHANGED cache
    /\ UNCHANGED <<brokerVars, engineVars, tooLong, promoted>>

(* A ModelError that is neither Preempted nor Cancelled.                   *)
CallFailed ==
    /\ Back("error")
    /\ HostFailure \/ Refused \/ Disabled
    /\ AttemptEnds
    /\ UNCHANGED <<brokerVars, kept>>

(* Variant: the seconds of the first request stay charged.                 *)
CallPreempted_Charged ==
    /\ Back("preempted")
    /\ queue' = <<current>> \o queue
    /\ current' = 0
    /\ spent' = spent + secs
    /\ AttemptEnds
    /\ UNCHANGED <<planned, byStatus, consecutive, breaker, cancelled, state, outcomes>>
    /\ UNCHANGED <<brokerVars, kept>>

(* The engine puts the task back, and the attempt's seconds are forgotten. *)
CallPreempted ==
    /\ Back("preempted")
    /\ PutBack
    /\ AttemptEnds
    /\ UNCHANGED <<brokerVars, kept>>

(* Cancelled by the stop token: the evaluator stopped the job.             *)
CallCancelled ==
    /\ Back("cancelled")
    /\ Other("stopped", 0)
    /\ AttemptEnds
    /\ UNCHANGED <<brokerVars, kept>>

(* Anything else raises: building a prompt, reading or writing the cache,  *)
(* grounding a finding.  The attempt is lost, with the seconds it used.    *)
WorkFails ==
    /\ step \in {"ask", "settle"} \/ Back("reply")
    /\ current \in Raising
    /\ Other("internal", 0)
    /\ AttemptEnds
    /\ UNCHANGED <<brokerVars, kept>>

(* A second look upheld its finding and its review is on record.           *)
Promotes == SecondLook(current) /\ first = "found" /\ state' = "running"

(* The attempt returns: grounded findings of a first look each get a       *)
(* second look, and a second look that upholds its finding promotes it     *)
(* once the review is on record (_record, which on_outcome calls).         *)
SettleAttempt ==
    /\ step = "settle"
    /\ \/ first = "bad" /\ Other("contract", secs) /\ UNCHANGED promoted
       \/ /\ first # "bad"
          /\ \E k \in {0, 1} :
               /\ (k = 1) = (first = "found" /\ ~SecondLook(current) /\ planned < MaxPlanned)
               /\ Done(IF allCached THEN "cached" ELSE "done", secs, k)
          /\ promoted' = IF Promotes THEN promoted \cup {current} ELSE promoted
    /\ AttemptEnds
    /\ UNCHANGED <<brokerVars, cache, tooLong>>

(* Variant: the watcher thread is not started.                             *)
Watch_None == FALSE /\ UNCHANGED vars

(* _watch: the job's flag is passed on to the stop token, or the job has   *)
(* ended and cancels it itself.                                            *)
Watch ==
    /\ cancelled \/ state # "running"
    /\ StopToken(job)
    /\ UNCHANGED <<engineVars, attemptVars, kept>>

(* The rest of the two components, on its own.                             *)
SkipTask == step = "idle" /\ Skip /\ UNCHANGED <<brokerVars, attemptVars, kept>>
ReturnJob == step = "idle" /\ Return /\ UNCHANGED <<brokerVars, attemptVars, kept>>
StopJob == Stop /\ UNCHANGED <<brokerVars, attemptVars, kept>>
Gpu(step_) == step_ /\ UNCHANGED <<engineVars, attemptVars, kept>>

Lane ==
    \/ TakeTask \/ Decline \/ AskCache \/ AskModel \/ Replied \/ CallFailed
    \/ CallPreempted \/ CallCancelled \/ WorkFails \/ SettleAttempt \/ SkipTask \/ ReturnJob

LaneNext ==
    \/ Lane \/ Watch \/ StopJob
    \/ Gpu(ChatNext) \/ Gpu(CallNext(job)) \/ Gpu(RunHook(job))

LaneSpec == LaneInit /\ [][LaneNext]_vars

(* The threads run and time passes; nobody has to ask, type, stop or       *)
(* leave.  A request ends by itself: both kinds have a timeout.            *)
Fairness ==
    /\ WF_vars(Lane) /\ WF_vars(Watch)
    /\ WF_vars(Gpu(Tick)) /\ WF_vars(Gpu(CallNext(job))) /\ WF_vars(Gpu(RunHook(job)))
    /\ \A c \in Chats : WF_vars(Gpu(CancelVictim(c) \/ Request(c) \/ Leave(c)))

LaneFairSpec == LaneSpec /\ Fairness
-----------------------------------------------------------------------------
LaneTypeOK ==
    /\ BrokerTypeOK /\ TypeOK
    /\ step \in {"idle", "ask", "call", "settle"}
    /\ ask \in {1, 2}
    /\ first \in Replies \cup {"none"}
    /\ secs \in 0..2 * ReplyCost
    /\ allCached \in BOOLEAN
    /\ cache \in [Prompts -> Replies \cup {"none"}]
    /\ tooLong \in Lengths
    /\ promoted \subseteq (NPlan + 1)..planned

(* The job keeps the engine's promises whatever the broker does to it.     *)
LaneIsEngine == Spec

(* Without a stop, the job ends once the operator leaves it the GPU.       *)
JobEnds == ~present ~> state # "running"
=============================================================================
