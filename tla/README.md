# Verification of code-analyzer

TLA+ models of the concurrent and crash-prone parts of code-analyzer, the TLC
configurations that check them on small instances, and TLAPS proofs of their
main properties for every instance. `PROJECT.json` says which lines every
definition translates, which run checks which property, and lists the hazards
of the code by line.

Contents: [the system](#the-system), [the modules](#the-modules),
[the runs](#the-runs), [fairness](#fairness), [the proofs](#the-proofs),
[findings](#findings), [known divergences](#known-divergences),
[what is not modelled](#not-modelled), [the plan](#the-plan).

## The system

code-analyzer reviews C code for security weaknesses. The repository holds two
generations that share their lower layers.

**The evaluation server** (`web/`, `kernel/`, `jobs/`, `evidence/`, `sesip/`,
`model/`, `export/`): a local web server on which an evaluator runs the native
tools, selects a security profile, decides on the entries of a vulnerability
list and talks to an agent. It runs one thread per request, one worker thread
per conversation and at most one job thread per evaluation. A headless run is a
second process on the same directory.

**The runner** (`cli.py`, `runner.py`, `tui.py`, `control.py`, `process.py`,
`tools/`, `llm/`, `harness/`): one command that runs the native tools and, next
to them, an LLM scan with a pool of threads, steered from a terminal or page;
and the commands that work on its report directory afterwards.

| Component | State | Operations | Hard behaviour | Correct means |
|---|---|---|---|---|
| Event ledger (`evidence/workspace.py`) | `ledger.jsonl`; per object a cached seq and size; a process lock and an flock | `append`, `append_many`, `read`; pages follow it through `get_stream` | many objects and processes, kills in the middle of a line, a full disk, reconnecting pages | seqs increase over all writers; finished records stay readable; pages miss nothing |
| Vulnerability list (`evidence/analyze.py`, `store.py`, `overlays.py`, `sesip/pv.py`) | the index file, numbering snapshots, decisions in the ledger | `evaluate`, `reindex`, `ensure_index`, `rebuild`, `set_status` | threads that build and decide at once, kills between the files, a profile that changes | a number is for one defect for good; decisions survive rebuilds; the list is never half built |
| GPU broker (`model/broker.py`, `client.py`) | counts of requests, tokens holding slots, last activity | `interactive`, `background`, `chat`, `note_activity`; cancel tokens | victims chosen under a lock and cancelled outside it; stop, preemption and reply race | a conversation has the GPU; no slot is leaked; the right reason is reported |
| Batch engine (`jobs/engine.py`) | queue, summary, failures in a row | `run` | preempted tasks, follow-ups, budget, breaker and stop mix | every task settled once, in order, for the right reason |
| Review job (`jobs/lens_job.py`) | engine, reply cache, stop watcher | `run`, `_work`, `_ask`, `_record` | the engine's promises under the broker's preemptions | it is an engine; it ends when stopped |
| Job manager and short jobs (`jobs/manager.py`, `extract_job.py`, `buildctx_job.py`, `compile_db_job.py`) | the job running per evaluation, its number | `start`, `stop`, `wait` | a start that fails halfway, a kill between number and record | one job at a time; a number names one job; every job settles |
| Approval cards (`kernel/approvals.py`, `tools.py`) | cards, grants and refusals in the ledger | `propose`, `decide`, `execute_approved` | a stale card, a grant whose action fails | a card acts once per grant, on the state it showed; only requests already under way decide it again |
| Workspace, exports, coverage accounts (`evidence/workspace.py`, `export/`, `sesip/coverage.py`) | calls, export directories, granted and used seconds | `next_call_id`, `reconcile`, `write`, `granted_seconds` | a kill between a directory and its record, grants that overlap jobs | a call is closed once; an export never overwrites another; a grant is a review's |
| Conversation (`kernel/session.py`, `loop.py`) | queue, busy flag, token, worker thread | `say`, `event`, `interrupt`; a turn of at most `MAX_STEPS` model calls | messages during a turn, late stops, failing turns | what is said is answered, in order; each call has its result |
| Server and pages (`web/`) | delta feed, sessions | requests, streams | a feed that is trimmed | a page sees what happened |
| Pipeline runner (`runner.py`, `persist.py`, `reconfigure.py`) | one manifest, its file, `latest.json` | tools, scan, build-context rounds, review, gate, export, report | two threads publish one file; signals, stops, errors and failing saves at any point | the verdict on disk is earned; neither thread loses the other's half |
| LLM scan and run control (`llm/scan.py`, `control.py`) | pool, gate, token budgets, breaker; pause, skips, retries | `execute_all`, `execute`, `_reserve`, `_release`, `_observe`; the operator's commands | all of it at once, from several threads | budget and concurrency hold; no unit is lost; a stop ends it |
| Native tools and process runner (`tools/`, `process.py`) | units, futures, output budget | the loop and the pool over units, `run_process`, `aggregate_units` | runaway output, Ctrl+C while futures end, pauses and stops | the budget holds up to what is in flight; record, events and verdict agree |
| Resume, recovery, review of a run (`llm/resume.py`, `validate.py`, `recovery.py`, `dashboard.py`, `audit.py`, `harness/`) | a report directory: manifest, review, SARIF, assessment, page, sessions | `llm-resume`, `assess`, `recover-report`, `rebuild-dashboard` | kills and write errors between the files, candidates that are renumbered | a recovery is whole or undone; what was paid for stays, except where an in-place write is cut; a verdict stays with its candidate |
| Evidence parsing, scan planning, terminal, reports, configuration, profiles, model plumbing | files | — | sequential functions over data | see [not modelled](#not-modelled) |

How they interact: a job appends to the **ledger**, asks the **broker** for the
GPU for each task of its **engine**, and rebuilds the **list** at its end.
Requests append decisions to the ledger and mark the list file at the same time.
A **card** granted by a request starts a job; the conversation's tools show the
cards, rebuild the list in their own thread and preempt jobs through the broker.
Pages follow the ledger. The **pipeline** runs the **native tools** in its
calling thread and the **scan phase** in a second one, both under
**RunControl**; what it leaves on disk is what the commands of **aftercare**
begin with.

## The modules

| Module | Models | Kind |
|---|---|---|
| `EventLog` | what the ledger promises | abstract specification |
| `Ledger` | `class Ledger`, its processes, the pages | detailed; implements `EventLog` (`LogSpec`, proved) |
| `Broker` | `class Broker`, `CancelToken`, how `ModelClient.chat` ends | component |
| `Engine` | `class Engine` | component, and the abstract specification of the job |
| `ReviewLane` | `lens_job.run` | composes `Broker` and `Engine`; `LaneIsEngine` refines `Engine` |
| `ListIndex` | indexing, numbering, decisions, profiles, rebuild | component |
| `Desk` | cards, the job manager, GPU grants, calls and exports | composes what clicks, the conversation and jobs do through one ledger |
| `Conversation` | `session.py` and `loop.py` | component |
| `ScanPhase` | `class _Phase` under `RunControl` | component |
| `Pipeline` | `_analyze`, `_run_together` and the stages after it | component |
| `ToolRun` | one native tool: units, threads, processes, account | component |
| `Aftercare` | the commands on a report directory | component |
| `MC…` | small instances of each | model values and bounds |
| `LedgerProofs`, `ReviewLaneProofs` (broker, engine and their composition), `ListIndexProofs`, `DeskProofs`, `ConversationProofs`, `ScanPhaseProofs`, `RunProofs` (pipeline and native tools), `AftercareProofs` | theorems | proofs |

An operator named `X_Y` beside an operator `X`, marked "Variant", is a plausible
bug; no specification uses it. The runs find it (`mutants` in `PROJECT.json`).

**Ledger.** The file is a sequence of lines; a line is torn, spoiled or whole. A
record reaches the file in three pieces (a head that does not parse, a tail
after which it does, its newline), which is as fine as the properties can tell.
`size` grows with each piece, as the byte size does, and an object trusts its
cached seq while `size` has not moved (`Stale`). The actions follow
`append_many` line by line: process lock, flock, numbering, a newline first if
the last writer died in a line (`FirstPiece`), the pieces, `Return`. `Fail`
releases the flock in the `finally`, and the pieces written between it and
`CloseFailed` are what closing the file flushes once more. `Kill` ends a process
anywhere. `Load`, `Poll` and `Drop` are a page: what it draws, its cursor, a
reconnection with the last id it received.

**Broker.** A conversation enters and chooses its victims under the lock
(`Enter`), cancels them one by one outside it (`CancelVictim`), asks
(`Request`) and leaves (`Leave`). A job's call makes a token (`Begin`), waits
(`Acquire`, `Abort`), opens its request, gets an answer or is cancelled
(`Answer`) and gives the slot back (`Release`). `StopToken` cancels the job's stop
token, whose hook cancels the call's token in a step of its own (`RunHook`).
Token objects can be used anew once nothing refers to them. The clock is a
counter of quiet ticks up to `ResumeAfter`.

**Engine.** One action per way out of the loop body: `Skip` (blocked), `Take`,
`PutBack` (preempted), `Done`, `Other`, `Refused`, `Disabled`, `HostFailure`,
`Stopped`, `Return`. `on_outcome` may raise after any of them, which ends the
run. Statuses and why they were given are kept apart, so that properties can ask
for the reason.

**ReviewLane.** The state of one attempt (`step`, `ask`, `first`, `secs`)
between `Broker` and `Engine`. A reply is one of four kinds (breaks the
contract, finds nothing, finds something, asks for more); the second request,
the second look at a finding, promotion to the list, the reply cache and the
watcher thread are actions.

**ListIndex.** Every thread that may run `index()` has its program counter and
locals; the steps are the places where another thread or a kill can get in:
reading the last snapshot, counting versions, the snapshot file, its record, the
temporary index file, its rows, `os.replace`, the read of the ledger, the
replay. `disk` holds every index file ever made and `path`/`building` say which
file has which name, so a request that opened a file before it was replaced
still has the old one. Defects are numbers; which of them a run and a profile
list is a constant.

**Desk.** One record per request thread (`request`: place, card, tool, id) and
one for the job; a step ends where the code appends to the ledger or takes the
manager's lock. `ReadCard` is `decide` up to its checks, `GrantCard` and `Close`
its appends, `NumberJob`, `Announce` and `Launch` are `JobManager.start` inside
and after the lock, `Charge` is the grant appended after the start. The job's
thread opens and closes its call, reviews within the grant, and settles
whatever its work did. `CountExports`, `MakeFolder`, `RecordExport` are an
export. Any request may decide any card, at the same time as another. `AppendRaises` ends a request at the places of `MayFail`. `Kill` clears
threads, job and the manager's counter; `Restart` reconciles the calls. `acted`
is a history variable: what was done in a card's name.

**Conversation.** The worker's places follow `_work` and `run_turn`: `Take` a
message from the queue, `Drop` a superseded wake, `Begin` a turn (busy flag,
token), record what was said, ask the model, run the reply's calls one after
the other, repair once, finish or fail, release. `say`, `interrupt` and `event`
are split where they leave a lock (`Say`/`NoteQueued`/`PutMessage`,
`PressStop`/`CancelToken`, `TellEvent`/`SeeIdle`/`PutWake`). Each message has a
request of its own, and any number of them may be under way at once; the history
variable `earlier` keeps which requests had ended when a message's began. Appends
may raise and the server may die anywhere.

**ScanPhase.** A unit goes from the pool's queue through the checkpoint
(`Checkpoint`), the gate (`Acquire`, `GiveUp`), the phase's conditions
(`Admit`), the reservation (`Reserve`) to a session or a replay; every way out
leaves a record and, from inside the gate, gives the slot back, unless what
follows the session raises (`Lose`): then nothing more is begun (`Abort`), and once
the running units have ended the phase fails as a whole (`Fail`). Threads are
interchangeable, so the state is kept by unit. The operator pauses, resumes,
skips, moves the limit, asks for retries and cancels at any moment, and the
phase's own thread serves the retries in rounds of their own.

**Pipeline.** Two threads with places, one manifest in memory, one temporary file
and one file on disk. Every save is four steps (change and serialise under the
lock, write, replace, go on); the writes may fail. The static side runs the
tools and the build-context rounds, where it may also raise (`StaticRaises`), the
other the scan; after the join the calling thread checks the source, derives the
review, decides the gate, exports, reports and publishes. `Cancel`, `TogglePause`
and one `Signal` come at any step; a signal does what the code does where it
strikes: swallowed by a process that runs (a tool's, or in the build-context
loop a trial's or a re-run's), raised by the static side, caught in the join, or
outside both the window and the join ending the program. `Finish` and
`FinishAgain` are the two saves that close an interrupted run, both without the
lock.

**ToolRun.** A unit's thread: `Take`, `Begin`, the checkpoint (`TurnedAway`,
`Announce`), `Open` with the room that is left, the end of its process (by itself,
timed out, stopped, struck), `Judge`. The calling thread collects futures, or
after Ctrl+C cancels and sweeps them, and makes the account (`Assemble`). Output
is counted as two streams per process; a process is quiet or runaway.

**Aftercare.** A report directory is a function from its five files to what they
say; sessions are kept beside it. A command reads (`StartResume`, `StartAssess`,
`StartRecover`, `StartRebuild`), asks the model, and writes file by file in the
code's order; a write may fail and the program be killed between any two.
Replacing the page and the manifest is undone when the second fails
(`PairFails`), a recovery is rolled back in reverse order (`Undo`). Candidates
are clusters of findings, computed from the lines as the code does, with their
ordinal ids.

## The runs

| Run | Instance | Asks |
|---|---|---|
| `ledger` | 2 objects in 2 processes, 1 page, batches of up to 2, 4 seqs, appends start at up to 3 lines; three older files (empty, torn, out of order); kills and failing writes anywhere | seqs, durability and cursors; `EventLog` is implemented |
| `review_lane` | 1 conversation, plan of 2 and room for a second look, budget 2, breaker at 2, 2 tokens | the job is an engine under preemption, settles in order, counts failures right, and ends |
| `list` | 3 defects, 2 profiles, 2 runs, 3 builds, 2 decisions, 1 kill; the job builds, and over the first list the agent's tools at the same time | numbering, decisions, the file's life over restarts |
| `scan` | 3 units of which one may raise, 2 threads, gate of 1 to 2, breaker at 1, budgets for 2 and 3, 1 retry round, 3 commands | no unit lost, budgets true, bounded asking, ending |
| `desk` | 2 request threads and the conversation, 1 card, 2 jobs, 1 export, 1 kill; the appends that close a card or finish a review may fail | cards, numbers, grants, calls and settling |
| `conversation` | 2 messages, their requests one after the other or at once, 1 event, 1 stop, 2 model calls per turn, 1 fault | order, results, late stops, answers |
| `pipeline` | 2 tools, the second re-runnable once, all 16 configurations, 2 errors (failing saves included), 1 signal | the verdict and the account on disk, the end of a stopped run |
| `tool` | 3 units, a loop or 2 threads, budget and ceiling 2, floods of 3, 1 Ctrl+C | output, late starts, account, verdict, end |
| `aftercare` | 2 LLM units around a native finding, 3 commands, 1 kill, 1 write error | recovery, results, verdicts, the listed page |
| `pipeline_unheard`, `tool_output`, `aftercare_cited` | as small as shows them | the [findings](#findings) |

Why the bounds are enough, and what they leave out.

- `ledger`: two writers and one page are the smallest set in which each clause
  of `Stale`, `FirstPiece` and the cursor matters, and a batch of two has a seam
  inside it; three lines leave room for a torn line, its successor and one more
  append. The constraint `ClosesAlone` keeps the other process out between a
  failed write and the close that flushes once more; what can happen there is a
  [known divergence](#known-divergences).
- `list`: two profiles and two runs let a defect retire and come back, three
  defects let another take its place, three builds let the last follow a kill
  and a change. The constraint `FirstListOnly` lets the agent build beside the
  job over the first list only, where both have the same input.
- `review_lane`: the second look exists only beside the finding that caused it,
  hence a third task. Only the last task's work may raise something unexpected
  (`Raising`), after which the job fails.
- `scan`: needs `BreakerLimit + Ceiling` units to tell the bound of
  `DeadEndpoint` from one more. The second unit's thread may raise (`Raising`): the
  first may then be anywhere and the third may wait or run.
- `desk`: both threads may decide the card at once, one may ask for a review and
  the other for a static job by button; an export is asked for by card, so the two
  may also race for one export. `MayFail` excludes
  the appends after whose failure the code does not keep its promises, which
  are listed as divergences. Two jobs are a number and its successor over a kill.
- `conversation`: two messages are the smallest order, and their requests the
  smallest overlap; two steps are a step and a last one.
- `pipeline`: `HalvesOnDisk` and the disk's part of `AccountIsTrue` claim nothing
  after a signal in the wait for a scan that still runs; what they leave out is a
  [known divergence](#known-divergences) and one such signal, the first and only
  one, is enough. The trial of a patch is one step: it ends, or swallows the
  signal (`Propose`), or raises (`StaticRaises`). A third save of a run that is
  closed, which only records that `latest.json` failed (`runner.py:844`), writes
  what is on disk but for that note and is left out.
- `tool`: a unit may be turned away at any moment, which stands for a skip and
  for the deadline. Three units on two threads have one that runs, one that
  ends and one in the queue.
- `aftercare`: with lines 10, 20 and 22 and a reach of 3, one unit's finding comes
  before the native one, renumbering it, and the other joins its cluster, widening
  it. All findings have one path and one category, a unit finds one defect, and
  commands run one at a time. The session's result and its meta file are one
  step, and neither a rollback nor the restore of the page (`dashboard.py:84`) fails
  itself.

Where the properties are also proved, they hold for all sizes.

Properties by hazard:

- *numbers are never reused*: `SeqIncreasing`, `NumberedForGood`, `NamedForGood`;
- *nothing is lost in a crash* (short of the exemptions the properties name): `NeverUnread`, `ReturnedIsReadable`,
  `RebuildRepairs`, `RecoverIsWhole`, `NothingPaidIsLost`, `CallsClosedOnce`;
- *readers are not misled*: `NothingSkipped`, `GoodStaysGood`,
  `FollowsTheDefect`, `VerdictIsForIt`, `PageIsListed`, `AccountIsTrue`,
  `AccountAgrees`;
- *a verdict is earned*: `VerdictIsEarned`, `VerdictIsBorneOut`;
- *two threads share a file or a budget*: `HalvesOnDisk`, `WithinBudget`,
  `OutputBounded`, `GrantsAreReviews`;
- *a preemption or a late stop costs nothing*: `LaneIsEngine`, `InOrder`,
  `StopIsForItsTurn`, `FewLateStarts`;
- *one component's judgement is right about another*: `BreakerIsRight`,
  `DeadEndpoint`, `ActsOnce`;
- *nothing is left behind*: `NeverLost`, `CallsAnswered`, `SaidInOrder`;
- *it ends*: `StopEnds` (of a review and of a run), `JobEnds`, `JobSettles`,
  `Answered`, `PhaseEnds`, `ToolEnds`.

`CHECK_DEADLOCK FALSE` is given where the system stops: a job, a scan phase, a
tool and a pipeline end, a conversation may be left alone, and elsewhere the
bounds on builds, jobs or commands are used up. The ledger's run checks
deadlock: an append may always be killed or go on.

## Fairness

Weak fairness of what the threads do by themselves, and of the tick of the
clock. Nobody is assumed to ask, type, click, stop, leave, resume, retry or
cancel, and a dead server need not be started again.

- `Engine`: `Work`, the loop of a running thread; its work returns because a
  request has a timeout.
- `ReviewLane`: the job's steps, the watcher's poll, the broker's steps of a
  call (each ends by reply, error, cancelling or timeout) and the conversation's
  steps once it has begun. `JobEnds` also assumes in its premise that the
  operator has left; `StopEnds` does not.
- `Desk`: requests that have begun, and the job's thread.
- `Conversation`: as long as a request that has begun or the worker can go on,
  one of them does, which is enough as each has an end; a request to the
  model has a timeout. `Answered` promises nothing once an append has failed or
  the server has died.
- `ScanPhase`: each unit's next step and the phase's thread. Sessions have
  request timeouts and poll the cancellation. `PhaseEnds` promises the end, in
  success or in failure, unless the phase stays paused and is not cancelled
  (`Held`): a cancelled phase ends although it is paused.
- `Pipeline`: both threads. A tool ends by its timeout. An answer to a decision
  and the end of a scan are promised only once the run is cancelled, so
  `StopEnds` does not rest on a patient operator. That an answer comes then is what
  the lane's own decider and `auto_decide` do; a front end that sets a decider of
  its own (`control.py:291-294`) has to end its question itself.
- `ToolRun`: the calling thread and each unit's next step; a process ends by its
  timeout at the latest. `ToolEnds` assumes that the lane does not stay paused
  unless the run is stopped.

Strong fairness is assumed nowhere: the code's waits poll, and none of the
properties needs a waiter to win against others for ever.

## The proofs

TLAPS checks all of them from nothing; they hold for every value of the
constants that the modules' `ASSUME`s allow. Each has the same shape: a
strengthening `IInv` (checked by TLC before it was proved) holds initially, is
kept by every action, and implies the property.

**LedgerProofs.** `SeqIncreasing`, `NeverUnread`, `ReturnedIsReadable` and the log's
types, for any number of objects, processes, batches, kills and older lines. Writes may fail
only if all objects live in one process (`SafeFailures`): the condition that
the late flush makes necessary. The invariant says: an object in the middle of
an append holds both locks (`LocksHeld`); a cached seq bounds every readable seq
of a file whose size is the cached one (`CacheSound`); an appending object's
next seq is above every readable one, and the line it is in is the last
(`Position`, `Filled`, `NotEndedHasLine`). `SeqIncreasing` alone is not
inductive, because it says nothing of the caches the next append trusts.
For `ReturnedIsReadable` a second invariant (`Landed`) is kept on top of it: each
record of a batch is in the file or still to be written, and what is in the file
stays there.
`NothingSkipped` and `LedgerImplementsLog` (`Spec => LogSpec`: every step of the
detailed ledger is a step of `EventLog` or a stutter) rest on what a step does to the
readable records, `Readable`: it adds at most one, and that one is above all
(`Added`). For the pages `PInv` says that a page shows a prefix of them, that its
cursor is the highest of that prefix, and that what is not shown yet is above the cursor
and in order, however disordered the older lines are (`Follows`). The readable records are picked from the file
by their rank (`Pick`), because the library's `SelectSeq` is recursive and nothing
could be proved of it.

**ReviewLaneProofs.** Three layers.

*The broker.* Types, `BackgroundYields` (while a conversation's request is
out, every token holding a slot is cancelled) and `NoStaleVictim` for any number
of conversations, jobs and tokens. `interactive` equals the number of
conversations inside (`Counted`); a held slot's token is a victim of every
conversation still entering or is already cancelled (`Chosen`, `Cleared`); a
token on a list of victims cannot be made anew.

*The engine.* Types, `Accounted`, `InOrder`, `WithinBudget`, `Explained` for
any plan, budget and outcomes. The strengthening orders the queue: the task in
hand, the queue and the follow-ups are consecutive numbers after the settled
ones (`LastInLine`), and a stop is known to whoever is told of it (`Told`).
`BreakerIsRight` says of the whole record that the breaker is open exactly when
some stretch of it holds the limit of unreachable calls and no answer; it is
proved from `Streak`, which relates the counter to the longest such stretch at the end of
the record, and lemmas about how a stretch grows with the record.

*The composition.* `LaneImplementsEngine`: every step of the job is a step of
the engine or leaves its state alone, so `LaneIsEngine` holds for any plan,
tokens, conversations and lengths of replies. The engine's actions take a cost of at
most `MaxCost` and believe a stop only when the job was stopped; both need an
invariant of the composition: what an attempt has spent is bounded by its place
(`Charged`), and a stop seen at the end of a call was passed on from the job's flag by
the watcher, its hook and the token (`Blame`). `LaneImplementsBroker` needs no
invariant. What was proved of each part therefore holds of the job
(`LaneKeepsPromises`). `LaneIsEngine` has no fairness in it; that the job
ends is `JobEnds` and `StopEnds`, which TLC checks.

**ListIndexProofs.** For any number of threads: types, and `RecordedIsOnDisk`. With
`index()` in one thread (`Solo`): `NumberedForGood`, `ListIsNumbered`,
`FollowsTheDefect` and `GoodStaysGood`, over any profiles, runs, decisions and
kills. The strengthening relates the last snapshot, the thread's own numbering
and every number ever given (`Numbers`, `Pending`), every index file with the
snapshots (`FilesAgree`), the ledger's and the deciders' decisions with the
defects they name (`DecisionsAgree`, `StatusAgree`), and says which names can
point at a file that is not whole (`Whole`). `Solo` is needed: two builders of
different input give one number to two defects. `RebuildRepairs` needs no `Solo`:
every status an index file shows is a decision on record on that entry (`MarkedRight`), and
decisions stay on record (`DecidedKept`), so what the ledger's readers mark last is
the last decision.

**DeskProofs.** For any threads, cards, buttons, jobs, exports, kills and failing
appends: types, `NamedForGood` and `GrantsAreReviews`. One thread at a time is
between numbering and launching, and its number is above all announced ones
(`Starting`); what is about to be charged is an announced review that has no
grant and is no other thread's (`Charging`); an export being written has its
directory to itself (`Exporting`). `CallsClosedOnce` adds `Calling` and assumes
that the append which closes a call does not fail. `ActsOnce` adds `Counted` (the
threads that have still to act on a card, and its actions, are within its grants)
and needs no assumption on who decides: a recorded decision is not changed by any
request but those that had read the card before it, and each of them decides once.
That is what the code does; that only one request decides is what it does not do
([known divergences](#known-divergences)).

**ConversationProofs.** Types (`TInv`, with what each place of the worker says of
the other variables), `StopIsForItsTurn` (a cancelled token, a worker that saw it
and a stop on its way all belong to a pressed turn: `Owed`) and `SaidInOrder`
(along the line of what is recorded, in hand and queued, each may precede the next:
`InLine`; what a request that has not ended says is earlier than nothing: `Heard`),
for any numbers of messages, requests at once, events, stops, steps and faults.
`CallsAnswered` adds `AInv`: no record is of a later step than the turn is in
(`Numbered`), a step the model is asked for is new (`New`), the results of the calls
that ran are numbered without a gap (`InRun`), and every earlier reply of the turn is
served in full (`Served`).

**ScanPhaseProofs.** `NeverLost`, `DeadEndpoint` and `WithinBudget`, for any number
of units, threads, slots, rounds and commands, whichever units raise. A
unit that is out has a record and after each round all are out, until an error ends
the phase (`Recorded`); the gate's count is the number of
units in it (`Gated`); what was generated and may still be is reserved
(`CompletionsPaid`). `DeadEndpoint` is not inductive: units that passed the breaker
and reserve their tokens will still ask, so `Broken` counts them too, and only the
gate bounds how many they are. The prompts of the open sessions are counted token by token
(`PromptTokens`), so that their sum is the size of a set and grows by a prompt
when a session opens (`PromptsPaid`).

**RunProofs.** *The pipeline.* Types, `VerdictIsEarned`, `HalvesOnDisk` and
`AccountIsTrue`, for any number of tools, re-runs, rounds and errors. While a
thread saves, the manifest is what it has serialised, because the lock keeps the
other side from changing it and nothing outside the window runs beside the scan
(`Located`, `Locked`, `Serialised`); so a save that goes through puts the whole
manifest on disk, and what is in memory only was lost by an error or is a stop
that was noted (`HalfOfTheScan`, `HalfOfTheTools`). Until the verdict is made every
copy of the manifest says `running` (`Unjudged`); afterwards copies change only as
the stages change them (`Copies`, `Judgement`), and a run that has been closed has
an account (`Account`). A signal that breaks off the wait for a scan that still
runs (`BrokenOff`) ends what is known of the disk; the invariant then keeps the
verdict in memory, the tools' accounts and `latest.json`, which is what
`AccountIsTrue` claims of that run. The attempt to prove `HalvesOnDisk` for any number of errors
failed for a reason: when both sides fail to save, the half of the side whose
error is reported second is lost as well. What an error costs the other side is
therefore claimed for the run's only error, and the run allows two.

*The native tool.* Types, `OutputBounded`, `FewLateStarts`, `AccountAgrees` and
`VerdictIsBorneOut`, for any units, threads, budgets and floods. As long as
something is left of the budget, what was kept and what is left make it up; a
process that is given room then finds at most `NJobs - 1` others that hold some
(`InFlight`), and none is given room later. Threads that passed the check before a
stop are counted with those that started after it (`LateStarts`). What the
record and the events say of a unit follows from its place (`Told`), and the account
is made when every future is settled (`Gathering`).

**AftercareProofs.** All four properties of the run, for any plan, lines, native
findings, commands, kills and write errors, with nothing assumed of the constants.
`NothingPaidIsLost` has one exemption, in the formula: the kill or full disk that
cuts the very write of the manifest or of the assessment in place (`CutIn`). While a recovery is at its n-th file the directory is the first
n new files over the old ones (`Recovering`); the assessment that is judged is
the one on disk and no candidate is judged twice (`Judging`); results the manifest
lists are in the copy being resumed, and only units it lists as resumable are
asked (`Resuming`); what a manifest lists, or a copy is about to, is on disk
(`Answers`); verdicts name their candidate
(`Sounds`); short of a kill only the replacement of the pair is ahead of the
manifest (`Paging`).

Every invariant and action property that a passing run checks is proved, and so are both
refinements. Model-checked only: liveness of every kind, which is out of the
prover's reach.

## Findings

Each is a run that expects the violation; its trace is the scenario.

1. `pipeline_unheard`. A Ctrl+C that strikes while a native tool's process runs is
   caught in `run_process` and becomes an interrupted unit. The static side
   stops, but the token is not cancelled, so the join waits out a whole LLM scan
   that nobody told to stop (`process.py:254`, `runner.py:174-183`).
2. `tool_output`. A unit that starts when the run's output budget is used up gets a
   room of 0 bytes, which `run_process` takes for "no limit"
   (`tools/common.py:188`, `process.py:192`).
3. `aftercare_cited`. Candidates are renumbered when `llm-resume` adds a finding
   before a judged one, and the sessions of `assess` are named by number: the
   next `assess` writes another candidate's session where the carried verdict's
   rationale points (`validate.py:457`, `harness/session.py:155`).

## Known divergences

Met while modelling, and outside what the runs above claim.

*Server.*

- Two clicks on one card may both read that it is undecided and both act, or one
  reject it and the other act on it (`kernel/approvals.py:60-76`, against
  `docs/v3-web-api.md:110`). The model has these steps; `ActsOnce` is what still
  holds with them. A grant is
  recorded before an action that may be refused, which uses the card up (line 75).
- After a failed write the ledger releases the flock, and closing the file flushes
  the rest: between two processes late records carry seqs the other has used
  (`evidence/workspace.py:102`).
- The agent's tools rebuild the list without asking whether a job builds it
  (`kernel/tools.py:400`). With a profile selected in between, both number
  different lists from one snapshot; and both use one temporary file, so one can
  rename the other's half-built list into place.
- A decision marked in a file that a rebuild replaces is missing from the new list
  until another rebuild (`overlays.py:61`); `rebuild()` trusts a running job to
  use the current profile, which it chose at its start (`server.py:332`).
- If the append of `job_started` fails, the job counts as running for ever
  (`jobs/manager.py:71`); if that of `call_finished` fails, the call stays open
  after its job has settled (`evidence/analyze.py:86-98`); a second process that
  opens the evaluation reconciles a running call (`workspace.py:220`).
- A kill between an export's directory and its record makes every later export
  count the same id and fail (`export/listing.py:89-91`). Time used by a review
  that was killed is counted by nobody (`sesip/coverage.py:87`).
- If recording a turn's error fails, the conversation's worker ends for good
  (`kernel/session.py:129`).
- The feed of deltas keeps 2000 entries and is read by position
  (`web/server.py:285`, against `docs/v3-web-api.md:112-113`).

*Runner.*

- A unit that has passed the checkpoint and waits at the gate starts while the lane
  is paused (`llm/scan.py:766`). A retry promises to run skipped units
  (`llm/scan.py:349`), though nothing clears a skip. A reply that breaks its
  contract does not interrupt the breaker's count "in a row".
- An error outside a unit's own `try`, such as a full disk when the meta file of a
  stopped unit is corrected (`harness/session.py:85`), is raised again where the round collects
  its units (`llm/scan.py:735`), so that every record of the phase is dropped
  (`runner.py:569-570`), against "interrupted, never lost" (`llm/scan.py:752`).
  `NeverLost` speaks of rounds that end. The model has such errors after the session;
  those before it (lines 805-822) differ from them in the budget only.
- A signal outside the window, or swallowed in the build-context loop, leaves no
  `interrupted` manifest, against `README.md:151-153`.
- A signal during the join closes the run without the lock while the scan may
  still save (`runner.py:183`, `599-609`; the comment there says that both sides
  are down). The first and only Ctrl+C is enough when the static side has ended
  before the scan. The scan's save may then put back a manifest that says
  `running`, under an exit code of 130 and a `latest.json` that says interrupted;
  or the two writes may meet in the one temporary file and one of them fail. The
  model has all of these steps (`struck = "join"`); `AccountIsTrue` and
  `HalvesOnDisk` name the exemption.
- Splint's pool: after Ctrl+C a unit that still runs is recorded as never run
  though its events say that it started (`tools/splint.py:302-319`); a Ctrl+C when
  the last futures have ended is lost; with the lane paused, a swallowed one sets
  only `cancel`, which the checkpoint does not look at.
- The output budget is looked at before and charged after a process: parallel
  units overrun it by up to `(2 * jobs - 1)` ceilings, which `OutputBounded`
  states. `merge_attempt` (`tools/common.py:88-153`) supersedes the wrong unit
  when a file has several configurations. `status.counts` counts interrupted units
  that never ran as started.
- After a killed run, `llm-resume` says that every unit already carries a result,
  and after `recover-report` the units never dispatched are never scanned
  (`llm/resume.py:92-102`, `llm/recover.py:47`, against `docs/usage.md:459-460`).
  Results of a resume that was killed before it derived the report stay invisible to
  `recover-report`.
- The manifest and the assessment are written in place by `llm-resume`, `assess`
  and the dashboard (`persist.py:18-19`, `audit.py:291`): a kill or a full disk in
  the middle leaves a manifest every command refuses, or silently loses all
  verdicts, against `audit.py:206-208`. `NothingPaidIsLost` exempts that cut and
  nothing else; the answers are on disk even then. Nothing locks a directory
  against two commands.
- A session's meta file does not say why it failed (`harness/session.py:479-515`),
  so `recover-report` turns a unit that the provider never carried into a plain
  failure (`llm/recover.py:89`), which `llm-resume` does not scan again
  (`llm/resume.py:66-68`).
- A verdict is lost when a resumed finding widens or moves its cluster, because its
  key is the cluster's lines.

## Not modelled

Most of the code is made of sequential functions over large data:
parsing of tool reports and C sources (`llm/index.py`, `evidence/`), clustering
and grading, prompts and contracts, scoring of profiles, and the rendering of pages and
reports (`html_report.py`, `tui.py`, `review.py`, `flow.py`). Their results are
what the models take as given: which defects a run lists, what kind of reply
came, whether a report is valid. Their lines are unmapped on purpose, which is why
the map covers a small share of the repository; unit tests reach them better than
a model checker. HTTP and the file system below `open`, `write`,
`flush`, `flock`, `rename` and `fsync` are outside as well.

In the modelled components: progress lines, wording of reasons, statistics
nothing reads; the levels and AI opinions of the list (they take the path of a
disposition); re-planning rounds of the scan and decisions under `RunControl`
outside the build-context loop; the TERM, KILL ladder and the pipes of
grandchildren in `run_process`; the history the conversation folds and what its
tools return; a second process on one evaluation, but for its appends to the
ledger; in aftercare the archive, the markdown report, `summarize` and
`tools-resume`. Components left out entirely are listed in `PROJECT.json` with
the reason.

## The plan

What would come next, in this order:

1. Proofs: safety facts that the liveness properties rest on, such as what a waiting
   thread waits for, and what holds of `Ledger` when writes fail in two processes.
2. `ProcessRunner`: the timeout, TERM, KILL ladder and pipes that outlive the child.
3. `ScanPhase`: re-planning rounds, and the reach of a retry.
4. `DeltaFeed`: a position against a trimmed list.
5. Two processes on one evaluation in `Desk`.

Conventions kept throughout: parameters are `CONSTANTS` with a named assumption;
one action per step at which another thread, process or crash can get in;
inductive invariants are conjunctions of named parts; recursion only as recursive
functions or folds.
