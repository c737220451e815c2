-------------------------------- MODULE Desk --------------------------------
(***************************************************************************)
(* What the operator decides and what then runs: the approval cards of     *)
(* kernel/approvals.py, the one job per evaluation of jobs/manager.py, the *)
(* GPU time granted to reviews, the calls a static job opens and closes,   *)
(* and the numbered exports.                                               *)
(*                                                                         *)
(* Every click is served by a thread of its own, and the conversation's    *)
(* tools run in another.  They meet in the ledger, which survives a kill   *)
(* of the server, and in the job manager, which does not.  A thread's step *)
(* ends where it appends to the ledger or takes the manager's lock: other  *)
(* threads and a kill come in between.                                     *)
(***************************************************************************)
EXTENDS Integers, Sequences, FiniteSets

CONSTANTS
    Clicks,         \* the request threads
    Agent,          \* the conversation's thread
    States,         \* what state_of tells apart
    MayPress,       \* MayPress[c]: the buttons that c may press
    Grant,          \* GPU seconds on a review's card, and on its button
    MayFail,        \* the places whose append to the ledger may raise
    MaxCards, MaxJobs, MaxExports, MaxKills     \* bounds

Threads == Clicks \cup {Agent}
Cards == 1..MaxCards

ASSUME DeskAssumption ==
    /\ Agent \notin Clicks
    /\ IsFiniteSet(Clicks)
    /\ MayPress \in [Clicks -> SUBSET {"static", "review", "change", "export"}]
    /\ Grant \in Nat
    /\ MayFail \subseteq {"grant", "close", "announce", "charge", "write", "call", "reviewed"}
    /\ MaxCards \in Nat /\ MaxJobs \in Nat /\ MaxExports \in Nat /\ MaxKills \in Nat

VARIABLES
    shown,      \* approval_shown records: tool and bound state, by card
    closed,     \* closed[card]: its approval_rejected and _expired records
    approved,   \* approved[card]: its approval_granted records
    state,      \* state_of: the profile, build context and list now
    recorded,   \* job_started records: number and kind
    grants,     \* review_granted records: the job's number
    used,       \* the seconds of the review_finished records
    calls,      \* calls[n]: the call_finished records of call n
    exports,    \* export_written records: their ids
    folders,    \* the export directories that exist
    up,         \* whether the server runs
    request,    \* where each thread is
    job,        \* the job that runs
    number,     \* its _numbers entry, 0 before it asked the ledger
    acted,      \* acted[card]: jobs and export directories made for it
    kills

ledger == <<shown, closed, approved, state, recorded, grants, used, calls, exports>>
history == <<acted, kills>>
vars == <<ledger, folders, up, request, job, number, history>>

CardTools == {"review", "change", "export"}     \* change: apply_patch, compile_db
Kinds == {"static", "review", "change", "reindex"}

Doing(place, card, tool) == [at |-> place, card |-> card, tool |-> tool, id |-> 0]
Idle == Doing("idle", 0, "none")
NoJob == [at |-> "none", kind |-> "none", number |-> 0, used |-> 0]

Init ==
    /\ shown = <<>>
    /\ closed = [c \in Cards |-> 0] /\ approved = [c \in Cards |-> 0]
    /\ state \in States
    /\ recorded = <<>> /\ grants = <<>> /\ used = 0
    /\ calls = <<>> /\ exports = <<>> /\ folders = {}
    /\ up = TRUE
    /\ request = [t \in Threads |-> Idle]
    /\ job = NoJob /\ number = 0
    /\ acted = [c \in Cards |-> 0] /\ kills = 0

(* JobManager.running: of the jobs started only the last can be; settled   *)
(* ones are kept for the page to show.                                     *)
Running == job # NoJob

(* granted_seconds leaves some time.                                       *)
TimeLeft == used < Grant * Len(grants)

At(t, place) == up /\ request[t].at = place
Goes(t, place) == request' = [request EXCEPT ![t].at = place]
Ends(t) == request' = [request EXCEPT ![t] = Idle]
-----------------------------------------------------------------------------
(* The conversation's tools.                                               *)

(* A tool asks for a write, a GPU job or a build: its card is shown, with  *)
(* the state it is bound to.                                               *)
Show ==
    /\ At(Agent, "idle") /\ Len(shown) < MaxCards
    /\ \E tool \in CardTools : shown' = Append(shown, [tool |-> tool, state |-> state])
    /\ UNCHANGED <<closed, approved, state, recorded, grants, used, calls, exports>>
    /\ UNCHANGED <<folders, up, request, job, number, history>>

(* A small review that the time left pays for starts without a card.       *)
PlanSmall ==
    /\ At(Agent, "idle") /\ TimeLeft
    /\ request' = [request EXCEPT ![Agent] = Doing("act", 0, "review")]
    /\ UNCHANGED <<ledger, folders, up, job, number, history>>
-----------------------------------------------------------------------------
(* The page's buttons.                                                     *)

Press(t) ==
    /\ t \in Clicks /\ At(t, "idle")
    /\ \E tool \in MayPress[t] :
         request' = [request EXCEPT ![t] = Doing("act", 0, tool)]
    /\ UNCHANGED <<ledger, folders, up, job, number, history>>

(* A profile is selected or confirmed; the list is rebuilt if there is a   *)
(* run and no job.                                                         *)
SelectProfile(t) ==
    /\ At(t, "idle")
    /\ state' \in States
    /\ IF (\E n \in DOMAIN calls : calls[n] > 0) /\ ~Running
         THEN request' = [request EXCEPT ![t] = Doing("act", 0, "reindex")]
         ELSE UNCHANGED request
    /\ UNCHANGED <<shown, closed, approved, recorded, grants, used, calls, exports>>
    /\ UNCHANGED <<folders, up, job, number, history>>

(* Variant: a card is granted whatever was decided about it.               *)
Undecided_Any(card) == TRUE

Undecided(card) == closed[card] = 0 /\ approved[card] = 0

(* decide reads the card and what was decided about it, with no lock: any  *)
(* number of requests may be between this and their record.  A grant also  *)
(* needs the card to be fresh (time may have run out) and its state.       *)
ReadCard(t) ==
    /\ t \in Clicks /\ At(t, "idle")
    /\ \E card \in DOMAIN shown, decision \in {"grant", "close"} :
         /\ Undecided(card)
         /\ decision = "grant" => shown[card].state = state
         /\ request' = [request EXCEPT ![t] = Doing(decision, card, shown[card].tool)]
    /\ UNCHANGED <<ledger, folders, up, job, number, history>>

(* approval_rejected or approval_expired is appended: nothing runs.        *)
Close(t) ==
    /\ At(t, "close")
    /\ closed' = [closed EXCEPT ![request[t].card] = @ + 1]
    /\ Ends(t)
    /\ UNCHANGED <<shown, approved, state, recorded, grants, used, calls, exports>>
    /\ UNCHANGED <<folders, up, job, number, history>>

(* approval_granted is appended, and execute_approved is called.           *)
GrantCard(t) ==
    /\ At(t, "grant")
    /\ approved' = [approved EXCEPT ![request[t].card] = @ + 1]
    /\ Goes(t, "act")
    /\ UNCHANGED <<shown, closed, state, recorded, grants, used, calls, exports>>
    /\ UNCHANGED <<folders, up, job, number, history>>

Acts(t) == acted' = IF request[t].card = 0 THEN acted
                    ELSE [acted EXCEPT ![request[t].card] = @ + 1]
-----------------------------------------------------------------------------
(* Starting a job.                                                         *)

(* A job runs already, or the model lane refuses the review.               *)
Refuse(t) ==
    /\ At(t, "act")
    /\ \/ Running /\ request[t].tool # "export"
       \/ request[t].tool = "review"
    /\ Ends(t)
    /\ UNCHANGED <<ledger, folders, up, job, number, history>>

Numbers == {recorded[i].number : i \in DOMAIN recorded}

(* Variant: numbers start at one in every process.                         *)
Seed_Zero == 0

(* _last_job_number.                                                       *)
Seed == CHOOSE n \in Numbers \cup {0} : \A m \in Numbers : m <= n

(* start, under the lock: the job is numbered and counts as running.       *)
NumberJob(t) ==
    /\ At(t, "act") /\ request[t].tool \in Kinds
    /\ ~Running
    /\ LET n == (IF number = 0 THEN Seed ELSE number) + 1 IN
         /\ n <= MaxJobs
         /\ number' = n
         /\ job' = [at |-> "new", kind |-> request[t].tool, number |-> n, used |-> 0]
    /\ Goes(t, "announce")
    /\ Acts(t)
    /\ UNCHANGED <<ledger, folders, up, kills>>

(* start, after the lock: on_start appends job_started ...                 *)
Announce(t) ==
    /\ At(t, "announce")
    /\ recorded' = Append(recorded, [number |-> job.number, kind |-> job.kind])
    /\ Goes(t, "launch")
    /\ UNCHANGED <<shown, closed, approved, state, grants, used, calls, exports>>
    /\ UNCHANGED <<folders, up, job, number, history>>

(* ... and the thread starts.  A review is charged next, but for a small   *)
(* one of the agent's.                                                     *)
Launch(t) ==
    /\ At(t, "launch")
    /\ job' = [job EXCEPT !.at = "work"]
    /\ IF request[t].tool = "review" /\ t # Agent
         THEN request' = [request EXCEPT ![t].at = "charge", ![t].id = job.number]
         ELSE Ends(t)
    /\ UNCHANGED <<ledger, folders, up, number, history>>

(* Variant: the grant names the job that was started last.                 *)
Charged_Last(t) == number

Charged(t) == request[t].id

(* review_granted is appended: the click is the grant.                     *)
Charge(t) ==
    /\ At(t, "charge")
    /\ grants' = Append(grants, Charged(t))
    /\ Ends(t)
    /\ UNCHANGED <<shown, closed, approved, state, recorded, used, calls, exports>>
    /\ UNCHANGED <<folders, up, job, number, history>>
-----------------------------------------------------------------------------
(* Exporting, in the request's thread.                                     *)

NextExport == Len(exports) + 1

(* The list may be brought up to date first; the id is counted.            *)
CountExports(t) ==
    /\ At(t, "act") /\ request[t].tool = "export"
    /\ Len(exports) < MaxExports
    /\ state' \in States
    /\ request' = [request EXCEPT ![t].at = "mkdir", ![t].id = NextExport]
    /\ UNCHANGED <<shown, closed, approved, recorded, grants, used, calls, exports>>
    /\ UNCHANGED <<folders, up, job, number, history>>

Taken(id) == id \in folders

MakeFolder(t) ==
    /\ At(t, "mkdir") /\ ~Taken(request[t].id)
    /\ folders' = folders \cup {request[t].id}
    /\ Goes(t, "write")
    /\ Acts(t)
    /\ UNCHANGED <<ledger, up, job, number, kills>>

FolderExists(t) ==
    /\ At(t, "mkdir") /\ Taken(request[t].id)
    /\ Ends(t)
    /\ UNCHANGED <<ledger, folders, up, job, number, history>>

(* The files are written and export_written is appended.                   *)
RecordExport(t) ==
    /\ At(t, "write")
    /\ exports' = Append(exports, request[t].id)
    /\ Ends(t)
    /\ UNCHANGED <<shown, closed, approved, state, recorded, grants, used, calls>>
    /\ UNCHANGED <<folders, up, job, number, history>>

(* An append raises: the request ends, what it did before stays.           *)
AppendRaises(t) ==
    /\ \E place \in MayFail : At(t, place)
    /\ Ends(t)
    /\ UNCHANGED <<ledger, folders, up, job, number, history>>
-----------------------------------------------------------------------------
(* The job's thread.                                                       *)

Works(place) == up /\ job.at = place

(* Variant: closed calls are closed again.                                 *)
Reconciled_All == [n \in DOMAIN calls |-> calls[n] + 1]

(* reconcile: what is open is closed as interrupted.                       *)
Reconciled == [n \in DOMAIN calls |-> IF calls[n] = 0 THEN 1 ELSE calls[n]]

(* evaluate opens the evaluation, which reconciles it, and then its call.  *)
OpenCall ==
    /\ Works("work") /\ job.kind = "static"
    /\ calls' = Append(Reconciled, 0)
    /\ job' = [job EXCEPT !.at = "call"]
    /\ UNCHANGED <<shown, closed, approved, state, recorded, grants, used, exports>>
    /\ UNCHANGED <<folders, up, request, number, history>>

(* The tools ran, were stopped, or raised: the call is closed.             *)
CloseCall ==
    /\ Works("call")
    /\ calls' = [calls EXCEPT ![Len(calls)] = @ + 1]
    /\ \E place \in {"tail", "settling"} : job' = [job EXCEPT !.at = place]
    /\ UNCHANGED <<shown, closed, approved, state, recorded, grants, used, exports>>
    /\ UNCHANGED <<folders, up, request, number, history>>

(* The engine has run within its budget, some seconds of it.               *)
Review ==
    /\ Works("work") /\ job.kind = "review"
    /\ \E s \in 0..Grant : job' = [job EXCEPT !.at = "reviewed", !.used = s]
    /\ UNCHANGED <<ledger, folders, up, request, number, history>>

(* review_finished is appended.                                            *)
FinishReview ==
    /\ Works("reviewed")
    /\ used' = used + job.used
    /\ job' = [job EXCEPT !.at = "tail"]
    /\ UNCHANGED <<shown, closed, approved, state, recorded, grants, calls, exports>>
    /\ UNCHANGED <<folders, up, request, number, history>>

(* A new build context, profile or list at the end of the work.            *)
FinishWork ==
    /\ \/ Works("tail")
       \/ Works("work") /\ job.kind \in {"change", "reindex"}
    /\ state' \in States
    /\ job' = [job EXCEPT !.at = "settling"]
    /\ UNCHANGED <<shown, closed, approved, recorded, grants, used, calls, exports>>
    /\ UNCHANGED <<folders, up, request, number, history>>

(* Variant: an exception ends the thread without a status.                 *)
WorkRaises_Escapes ==
    /\ Works("work")
    /\ job' = [job EXCEPT !.at = "none", !.kind = "none"]
    /\ UNCHANGED <<ledger, folders, up, request, number, history>>

(* The work raises before or between its records.                          *)
WorkRaises ==
    /\ \/ Works("work")
       \/ \E place \in MayFail : Works(place)
    /\ job' = [job EXCEPT !.at = "settling"]
    /\ UNCHANGED <<ledger, folders, up, request, number, history>>

(* _run: the status is set, whatever the work did.                         *)
Settle ==
    /\ Works("settling")
    /\ job' = NoJob
    /\ UNCHANGED <<ledger, folders, up, request, number, history>>

(* The server dies: its threads and the manager's memory are gone.         *)
Kill ==
    /\ up /\ kills < MaxKills
    /\ up' = FALSE /\ kills' = kills + 1
    /\ request' = [t \in Threads |-> Idle]
    /\ job' = NoJob /\ number' = 0
    /\ UNCHANGED <<ledger, folders, acted>>

(* It starts again and reconciles every evaluation once.                   *)
Restart ==
    /\ ~up
    /\ up' = TRUE
    /\ calls' = Reconciled
    /\ UNCHANGED <<shown, closed, approved, state, recorded, grants, used, exports>>
    /\ UNCHANGED <<folders, request, job, number, history>>
-----------------------------------------------------------------------------
Serve(t) ==
    \/ Close(t) \/ GrantCard(t) \/ Refuse(t) \/ NumberJob(t) \/ Announce(t) \/ Launch(t)
    \/ Charge(t) \/ CountExports(t) \/ MakeFolder(t) \/ FolderExists(t) \/ RecordExport(t)
    \/ AppendRaises(t)

Work == OpenCall \/ CloseCall \/ Review \/ FinishReview \/ FinishWork \/ WorkRaises \/ Settle

Next ==
    \/ Show \/ PlanSmall
    \/ \E t \in Threads : SelectProfile(t) \/ Press(t) \/ ReadCard(t) \/ Serve(t)
    \/ Work \/ Kill \/ Restart

Spec == Init /\ [][Next]_vars

(* Threads that have begun go on; nobody has to click, and a dead server   *)
(* need not be started again.                                              *)
FairSpec == Spec /\ WF_vars(Work) /\ \A t \in Threads : WF_vars(Serve(t))
-----------------------------------------------------------------------------
Places == {"idle", "grant", "close", "act", "announce", "launch", "charge", "mkdir", "write"}

Requests == [at : Places, card : 0..MaxCards, tool : CardTools \cup Kinds \cup {"none"},
             id : 0..MaxJobs \cup 0..MaxExports]
Jobs == [at : {"none", "new", "work", "call", "reviewed", "tail", "settling"},
         kind : Kinds \cup {"none"}, number : 0..MaxJobs, used : Nat]

TypeOK ==
    /\ shown \in Seq([tool : CardTools, state : States]) /\ Len(shown) <= MaxCards
    /\ closed \in [Cards -> Nat] /\ approved \in [Cards -> Nat] /\ acted \in [Cards -> Nat]
    /\ state \in States
    /\ recorded \in Seq([number : 1..MaxJobs, kind : Kinds])
    /\ grants \in Seq(1..MaxJobs)
    /\ used \in Nat /\ kills \in Nat
    /\ calls \in Seq(Nat)
    /\ exports \in Seq(1..MaxExports) /\ folders \subseteq 1..MaxExports
    /\ up \in BOOLEAN
    /\ request \in [Threads -> Requests]
    /\ job \in Jobs /\ number \in 0..MaxJobs

(* "J3" names one job for the life of the evaluation, and an export's id   *)
(* one export, over any restarts and however requests overlap.             *)
NamedForGood ==
    /\ \A i, j \in DOMAIN recorded : recorded[i].number = recorded[j].number => i = j
    /\ \A i, j \in DOMAIN exports : exports[i] = exports[j] => i = j

Decisions(card) == approved[card] + closed[card]
Deciding(card) == {t \in Threads : request[t].card = card /\ request[t].at \in {"grant", "close"}}

(* A card acts at most once for each grant that is recorded, over any      *)
(* kills.  Requests that overlap may each decide it, because decide reads  *)
(* and records without a lock: a rejected card may still be granted, and a *)
(* granted one again, by a request that had read it before.  By no other:  *)
(* once a decision is recorded, those that are deciding and have yet to    *)
(* record theirs only get fewer, each decides at most once, and no request *)
(* joins them.  So requests one at a time decide a card once for good.     *)
ActsOnce ==
    [][\A card \in Cards :
         /\ acted'[card] <= approved'[card]
         /\ Decisions(card) > 0 =>
              (Decisions(card) + Cardinality(Deciding(card)))'
                <= Decisions(card) + Cardinality(Deciding(card))]_vars

(* Every grant of GPU time names a review that was announced, and each     *)
(* review is granted time at most once.                                    *)
GrantsAreReviews ==
    /\ \A i \in DOMAIN grants : \E j \in DOMAIN recorded :
         recorded[j] = [number |-> grants[i], kind |-> "review"]
    /\ \A i, j \in DOMAIN grants : grants[i] = grants[j] => i = j

(* A call is closed at most once, and while the server is up an open call  *)
(* is the one its job is in: a reader of the ledger never takes a dead     *)
(* call for a running one.                                                 *)
CallsClosedOnce ==
    \A n \in DOMAIN calls :
        /\ calls[n] <= 1
        /\ up /\ calls[n] = 0 => n = Len(calls) /\ job.at = "call"

(* "A job must always settle": the evaluation can start another.           *)
JobSettles == Running ~> ~Running
=============================================================================
