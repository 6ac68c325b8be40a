# Verifying the daemon of lumem-os

lumem-os is a local environment for coding agents: a daemon (`packages/server`)
that keeps workspaces, projects, checkouts and a board of cards in SQLite, runs
agents as child processes over ACP, and carries cards along the board by itself
(the *conveyor*, "a esteira"). This directory holds TLA+ models of the daemon,
the TLC runs that check them on small instances, and theorems about them that
TLAPS proves for every value of the constants.

Everything is translated from the source; the comments name the functions, and
`PROJECT.json` gives the lines of each definition. Paths below are relative to
`packages/server/src` unless they start with another directory.

## 1. The system

| part | state it keeps | operations | talks to |
|---|---|---|---|
| **conveyor** (`tasks/conveyor*.ts`) | nothing of its own but the local variables of a run in progress | `tick` (a pass), `runOne` (one card), `send` (a click) | queue, task repository, sessions, ACP, gate |
| **queue and seal** (`tasks/queue.ts`, `seal.ts`, `pause.ts`) | none: a pure reading of the board and of the turns in flight | `queueOf`, `slotsOf`, `sealOf`, `pausedUntil` | called twice per run and by the interface |
| **task repository** (`repositories/task.ts`, `task-finding.ts`) | the row of a card: column, position, attempts, returns, refusals for quota, pause, switch, block, parked prompt; the findings of a review | `setStatus`, `move`, `countAttempt`, `countBounce`, `refuseForQuota`, `pauseUntil`, `setAutonomy`, `setBlocked`, `prepare`, `handOver` | every write is one SQLite transaction |
| **gate** (`tasks/gate.ts`, `reproduce.ts`) | none | reads the worktree, runs the project's check command, replays the reviewer's findings | git, child processes |
| **task routes** (`routers/task.ts`, `tasks/http.ts`, `tasks/progress.ts`) | none | `move`, `finish`, `stop`, `setAutonomy`, `sendPrepared`, `POST review`; first message of a turn | repository, conveyor, ACP |
| **ACP turns** (`acp/AcpManager.ts`) | live adapters; per session one `promptInFlight` flag, the turns in flight, whether the memory was given, pending permissions; the hold of an update | `prompt`, `cancel`, `respondToPermission`, `setConfig`, `setLumemMode`, `kill`, exit, `liveTurns`, `setUpdating` | child processes |
| **session store** (`sessions/*`, `boot/reconcile.ts`) | the rows of sessions | `open`, `resume`, `close`, exit, reconciliation at boot | ACP, repository |
| **clone jobs** (`git/CloneJobStore.ts`, `git/clone.ts`, `routers/project.ts`) | jobs in memory: state, progress, pacing, listeners, abort; on disk the homes, a temporary, a repository; the table of projects | `start`, `cancel`, `subscribe`, `runCloneJob`, `registerCloned`, the boot sweep | git child process, disk, project repository |
| **first prompt** (`sessions/pending-prompt.ts`) | the claims of the texts on their way, in memory; the text and the reason it did not go, on the row of its session | `deliverPending`, `sendPendingNow`, `discard`; moved by `resume` | scripts (`setup`), session store, ACP |
| **pull request cache** (`pr/PrCache.ts`, `pr/verdict.ts`) | per project the last answer, `want`/`served` generations, the read in flight | `get`, `invalidate`, polling | `gh`; asked by the screens, the merge and create routes and the conveyor |
| **update** (`update/*`) | whether an update is running, the released version | automatic and manual update, behind an idle gate | ACP, scripts, service manager |
| **scripts and ports** (`scripts/*`) | the ports found, in memory; the blocks of ports and the sessions of scripts, in the database | `start`, `stop`, `stopAll`, `runToCompletion`, `ensurePorts` | child processes, probes of ports |
| **removal of a checkout** (`routers/worktree.ts`, `tasks/cleanup.ts`) | none | guard, `teardown`, `stopAll`, git, the row, the block | scripts, git |
| **files** (`files/FileService.ts`) | none; the disk | read, save against a revision, create, rename, delete | disk |
| **cleanup, budget, tracker, notify, memory** | rows of their own | see `PROJECT.json` | repository, network |
| **terminals, ACP translation, git, setup, usage, CLI, desktop, web** | process or view state | I/O | - |

### What is hard about it

The daemon is one Node process over a *synchronous* database. Code between two
`await`s of real I/O is atomic; everything else interleaves: passes of the loop,
clicks, drags, the agents' own calls, turns that end, processes that die. A run
of the conveyor reads the board once, then waits minutes for a checkout, an
adapter, a turn, a test suite and a publication, and uses what it read. Turns
are given up and go on running. The process can die anywhere; only the database
survives. `PROJECT.json` lists the hazards one by one, each at its line, with
the properties that would catch it.

### What would make each part correct

* conveyor: a budget of attempts that survives crashes, one turn and one
  conversation per card, the ceiling of the workspace, columns of the person and
  columns of the machine, a stop that stops, prompts and findings that reach the
  right agent, and that no card stays on the belt for ever;
* queue: a card with work in flight is never due; slots never go below zero;
* repository: counters are reset with the column; closed cards are left alone;
* ACP: a turn is closed exactly once, what the daemon believes is in flight is,
  nobody waits for an agent that is gone, and what must not change under a turn
  does not;
* clone jobs: one terminal state per job, delivered last, and a cancelled clone
  leaves neither a directory nor a project;
* first prompt: said once in a conversation, never lost, never sent after it was
  dropped, never waiting for ever without a reason;
* pull request cache: an answer is never older than the last invalidation it was
  asked after, a screen with old data is told, and nothing is merged on an old green;
* update: nothing that works is interrupted, and held prompts are released;
* scripts: no block of ports given to two checkouts, a live script uses the block
  its checkout holds, and no call hangs on a process that ignores its signal.

## 2. The modules

```
Belt                abstract: what the board shows of the conveyor
Conveyor            the conveyor, the repository under it, sessions, people, crashes
ConveyorSafety      its properties; INSTANCE Belt (refinement mapping)
MCConveyor          bounds for TLC
ConveyorProofs      types and the budget of attempts, proved
ConveyorBeltProofs  columns, block, and the refinement of Belt, proved
ConveyorTurnsProofs conversations, turns, the ceiling, parked prompts and returns, proved

CloneJobs           the store of clone jobs: pacing, streams
Clones              runCloneJob over CloneJobs, the disk and the table of projects; its properties
MCClones            bounds for TLC
ClonesProofs        types, the four safety invariants of the disk, what streams tell, proved

FreshReads          abstract: what the cache of pull requests promises
PrCache             the cache and everybody who asks it; INSTANCE FreshReads
MCPrCache           bounds for TLC
PrCacheProofs       types, freshness, merges, screens, and the refinement of FreshReads, proved

Scripts             scripts, blocks of ports, the two removals of a checkout
MCScripts           bounds for TLC
ScriptsProofs       types, blocks and the map of ports, proved

FirstPrompt         the text that waits on the row of a session
MCFirstPrompt       bounds for TLC
FirstPromptProofs   types and the four safety properties, proved

Turns               prompts, permissions, exit and pipe of an agent; the hold of an update
MCTurns             bounds for TLC
TurnsProofs         types and the five safety invariants, proved
```

The families share little state in the code and are not composed with each
other: the board, the adding of a project, the cache, the scripts and the first
prompt meet in the database, each in its own tables. Where one is the
environment of another it is there as its caller: a run of the conveyor asks
`PrCache`, the first prompt waits for a call of `Scripts`, the finishing of a
card removes a checkout in `Scripts`. `Conveyor` and `FirstPrompt` each keep the
part of a turn they meet (the flag and its clearing; the waits before the
question); `Turns` has the whole of it.

The database is better-sqlite3, whose promises are resolved when they are made:
awaiting it gives way to other promises but never to the event loop. A step of
the models therefore lies between two waits for real I/O (a file, a probe, a
child process, the network, a timer), whatever it asks of the database; only a
crash falls inside it, and where that matters it has actions of its own.

### Conveyor

| variable | in the code |
|---|---|
| `mode` | `workspace.autonomy` |
| `task` | the row of a card; `finding` stands for all findings of a review, `prepared`/`carries` for the parked prompt and whether its text holds what the reviewer returned |
| `session` | a live adapter: its card and role, the turns in flight on it (the conveyor's that were given up, other people's), and `inFlight`, what the daemon believes (`promptInFlight`) |
| `latest` | what `openSession` finds: the newest session row of a card and role, when it is alive |
| `run` | one `runOne`: the wait it is at, and the part of the queue's photo it still uses (column, quota refusals, mode) |
| `request` | one `send`, the click on a parked prompt |
| `heard` | history: turns charged to the present stage that an agent heard |

One action per step between two waits. `runOne` is, in order: `Tick` (the photo
of the queue) - *prepare the checkout* - `PrepareFails`, `NoLongerDue`, `Park`
(assisted) or `Charge` (counts the attempt) - *open the adapter* - `Opened` or
`Throws` - *configure it* - `PromptDead`, `PromptRefused` or `PromptHeard` -
*the turn* - `TurnEnds`, `TurnFails`, `TurnOutOfQuota` or `TurnTimesOut` - *the
gate* - `JudgeUnfinished`, `JudgeFinding` then `Bounce`, or `JudgePass` -
*publish* - `Advance`; a card stops by `BlockOff` then `BlockReason`, the two
writes of `block()`. `send` is `Send`, `SendOpened`/`SendFails`,
`SendRefused`/`SendHeard`, `SendEnds`/`SendTimesOut`. Agents and processes are
`GivenUpTurnEnds`, `OtherTurnEnds`, `SessionExits`, `AgentSaysReview`; people are
`Move`, `PersonSetsStatus`, `SetAutonomy`, `SetMode`, `Chat`; and `Crash`.

A *crash* clears everything but the rows (`boot/reconcile.ts` marks orphan
sessions as ended). It may come anywhere, also between the two writes of
`block()`: those, and the prompt that follows a write without a wait, are steps
of their own that only a crash comes between (`Settled`). Elsewhere a run of
database writes is one step.

The text of prompts, the positions inside a column, the contents of findings and
the arithmetic of budgets and quota clocks are abstracted: their outcomes
(refused, paused, opens too late, reproduced) are nondeterministic.

### Belt

The abstract specification: cards move along four arrows forward and the
reviewer's arrow back; a card the machine gave up on stays where it is. The
mapping reads `stage` off the column and `stopped` off the switch. The conveyor
implements it when nobody touches the board (`AloneSpec`).

### CloneJobs and Clones

| variable | in the code |
|---|---|
| `job` | a job of the store: its state and, of its progress, the number of the last line |
| `paced`, `timer` | `pacing`: whether the last delivery is younger than the window, whether a trailing one is armed |
| `sub` | one `snapshots` generator: where it is suspended, its queue, what it yielded last, whether its client went away |
| `run` | the locals of one `runCloneJob` and `registerCloned`: `name`, `landed`, `attempt`, `abandoned`, and the await it is at |
| `temp`, `repo`, `homes` | the disk: temporaries, whose bytes are in each repository directory, project homes |
| `row` | the table of projects: the path under each name |
| `up` | the daemon is running |
| `rivals` | history: jobs whose run was alive together with another (below) |

A run is, in order: `Prepare` - *git* (`GitReports`, `GitEnds`) - `RewriteOrigin`
- `ResolveTarget`, `Relocate` - `Rename` - `Renamed` (the job becomes
`registering`, or is found cancelled) - `Register`, or `RegisterDuplicate`,
`Retry`, `Move` and again - `Finish`; an error goes through `DropTemp`, `Remove`
and `Settle`. `Cancel` may come at any point, `Crash` and `Boot` too;
`AddByPath` and `RenameProject` take names from under the clone. A rename and
the code after it are two actions: a request can come between them.

The store refuses a second job while one is active, but a cancelled job is not
active while its run goes on to its end. So two *runs* can be alive together,
one of them cancelled. `rivals` remembers which were; the properties say what
holds of the others (`NothingLeftBehind`), or as long as there are none
(`CancelledIsNotRegistered`, `RegisteredIsThere`; section 6). The length of a window is not
modelled: a delivery that is pending may be made at any time, also in the window
of a later one.

Names are numbers, and the name after `n` is `n` with the next suffix. Homes are
those of one workspace. `rm` of a temporary or of a repository is one step that
succeeds; the collection of jobs ten minutes old (`collect`) and the removal of a
project are left out, and the workspace of a job is always found.

### FreshReads and PrCache

| variable | in the code |
|---|---|
| `history` | external: what `gh` would have said of the branch, oldest first |
| `slot` | `slots.get(project)`: last answer, failure, whether it is fresh, `want` and `served`, the read in flight with the `want` it serves and the age of what it may bring |
| `call` | one question, where it waits (`joined`: the promise of the read in flight; `chained`: that and `start` again), and the answer it was given |
| `floor` | history: how old the host's facts may be, by the last invalidation |

`get` is `Get`, a question that answers at once from what is known or joins,
chains or begins a read; `ReadEnds` is the end of `fetch`: the slot, `pr.changed`
when the digest differs, and everybody who waited; `StartAgain` is the
continuation of a chained question. The routes are `Refresh`, `AskToMerge` -
`RefuseMerge` or `GoToMerge` - `HostTakes`/`WriteFails` - `RouteReturns`, and
`GoToCreateFromScreen`; the conveyor's `openPullRequest` and `publishNotes` are
`Get` with the purposes `open` and `notes`. `Decide` is `decide` of
`pr/verdict.ts`, rung by rung. The host changes when it likes, and refuses to
merge what is not open and to create what exists. The TTL is abstract: `Ages`.

`FreshReads` knows neither generations nor reads: a question is told a failure,
or an entry no older than the last invalidation before it. The mapping is
`question` in `PrCache`; several questions answered by one read are one step of
the promise (`Hear`).

### Scripts

| variable | in the code |
|---|---|
| `row`, `dir` | the rows of `worktree`, and their directories |
| `reserved` | the table `checkout_port` |
| `scripts` | the sessions of kind `script`, oldest first, each with its process: alive, told to stop, its output read for a port, its exit watched |
| `discovered` | the keys of the map of ports of `ScriptRunner` |
| `call` | one request: `start`, `wait` (`runToCompletion`), `remove`, `finish`, and the wait it is at |

A call is, in order: `Ask` - *git about the checkout*, for the removals -
`Checked` - *the script file* - `ReadDone` (the previous run told to stop) -
*probes* - `Probed` (a free block is inserted under its two unique indexes, a
clash is answered by the block the checkout has, or the search goes on), then
the process is born in the same step. `remove` goes on from its `teardown`, or
from its failure, or from its ceiling (`Timeout`), to `stopAll` - *git* -
`Unlinked`. Processes end (`Exit`) and name their port (`Sniffs`) when they like;
`Stop`, `Vanishes` (a directory removed by hand) and `Restart` are the rest. A
restart ends every script: the terminals die with the daemon and
`boot/reconcile.ts` (106-124) ends their rows.

### FirstPrompt

| variable | in the code |
|---|---|
| `row` | the row of a session: its state, whether the text waits on it, whether it says why the text did not go |
| `agent` | the adapter of a session |
| `preparing` | the `deliver`s that wait for the `setup` |
| `resume` | one `session.resume`: what it read of the row, and the adapter it brought up |
| `sending`, `listening` | the claim of `sendPendingNow`, and its listener of the next message of a user |
| `core`, `asked`, `chat` | turns of the text that wait for the memory, turns of it that the agent was asked, the turn of somebody who types |
| `said`, `dropped`, `refused`, `mistaken` | history |

There is one text, written by `worktree.start`. `Prepared` is the end of the
`setup` (the row is read again, then the text is sent or the reason written),
`SendPending` and `Discard` the decisions of a person, `TextEnters`/`TextEnds` its
turn, `Chats` - `ChatEnters` - `ChatEnds` somebody else's, `Exit` the process of the
adapter, which still writes the questions that had not entered. `Resume` -
`Spawned` - `Resumed`/`ResumeFails` is `session.resume` with its two waits.
`Restart` may tear `Resumed` between the new row and the clearing of the old one,
and `TextEnters` between the message and the clearing of the row. Failures of the
database other than that of a resume's row are left out.

### Turns

| variable | in the code |
|---|---|
| `up`, `piped` | the process has not exited (`info.state`); its connection is open (`connection.signal`) |
| `flag` | `promptInFlight` |
| `cored` | `coreInjected` |
| `turn` | one call of `prompt` and its `TurnInFlight`: the wait it is at, the failure the exit put there, what the agent's answer will be, and what the transcript says of it |
| `request` | an entry of `pendingPermissions`; what the policy approves at once, what is answered and what is cancelled leave nothing, and the id serves again |
| `change` | a call of `setConfig` between its request to the agent and the answer, with the turns that were in flight when it was asked for (history) |
| `door` | `updating`, with the installer: open, held, or the daemon about to leave |
| `cores`, `overlapped`, `midturn`, `late` | history: memories given to a session, turns that shared their session, turns under which a change asked for during them was made, requests read after the exit |

A turn is, in order: `Prompt` (the mark, before any wait) - *the budget* -
`BudgetAnswers` - *the memory*, the first time - `MemoryAnswers` (the question is
written and sent) - *the answer or the exit* - `Ends`, `Fails`, or, when the pipe
closed first, *two seconds for the exit* - `GraceEnds`; `LetGo` is whoever was
rejected by the exit. `Replies` is separate from what reads it, because the exit
may come between the two. `Exit` is `markExited` with `cancelPending` and
`closeTurnOnExit`; `PipeCloses` is stdout, which may close before it, after it
(a grandchild inherited it; `acp/process.ts` listens to `exit`, not `close`) or
never. `SetsConfig` is `setConfig` up to its request, behind the mark;
`ConfigAnswered` what it writes after the agent's answer, behind nothing, and
`ConfigFails` an agent that refuses or a pipe that closed. `SetsLumemMode` is
`setLumemMode`, which asks nobody. `UpdateStarts` is the tick
of `update/auto.ts` and the click, each of which counts the turns and closes the
door in one stretch; `UpdateGoesOn` is the end of the installation, good or bad,
and of a shutdown that failed.

The code allows two prompts in one session and keeps one flag for both: the end
of either clears it. `overlapped` remembers which turns shared; the properties
that rely on the flag speak of the others, and `StoryOfATurn`, `NoDeadButtons` and
`EverybodyIsLetGo` of all.

## 3. The runs

| run | instance | shows |
|---|---|---|
| `belt_one_card` | one card, two adapters, one touch of a person, one `review` of the agent, one crash | `TypeOK`, the budget (`HeardWithinAttempts`), one turn at a time, one conversation per card and role, the machine's columns, the order of `block()` |
| `belt_ceiling` | two cards, one slot | `CeilingHolds`: turns given up still hold their slot |
| `belt_assisted` | one card, an assisted workspace, two concurrent clicks, chats, drags | parked prompts belong to the column of their card |
| `belt_alone` | one card nobody touches, two crashes | the conveyor implements `Belt`; returns are bounded by their ceiling, plus one, plus one per crash; every due card is taken to the person or stops |
| `clones` | two jobs, five names, two of them asked for, two projects added by path, one rename, one crash | what a cleanup leaves and what it deletes; who owns a temporary; that a cancelled clone is not registered |
| `clone_streams` | one job, one client, two lines of progress, one crash | nothing is lost to the window of 250 ms, the story is in order, clones and streams end |
| `pr_cache` | one project, a screen and a run of the conveyor, a host that changes once, two invalidations | `FreshReads` is implemented: no answer is older than the invalidation before its question; merges only on facts stated after the click and fit to merge; old screens are told; every question is answered |
| `scripts` | two checkouts, one block of ports, a caller that starts, removes and finishes, another that starts, two scripts, a directory that may vanish, restarts | a block has one holder and its scripts use it; a block goes only with its checkout; the map of ports forgets the dead; every call ends |
| `first_prompt` | three sessions, two resumes at a time, somebody who types and refusals in the first session, one crash | the text is said once in a conversation, kept, decided, and stays dropped |
| `turns` | two sessions, two prompts, together in one or each in its own, any number of updates and of permissions, one at a time, and of changes of configuration, one of them waiting for the agent at a time | one question and one closing per turn; the flag tells the truth; no update under a turn and no change asked for under one; no dead buttons; one memory; nobody waits for an agent that is gone |
| `v_stop`, `v_twice` | the smallest instance | each a disagreement between the code and its own documentation (section 6) |

`MCConveyor` gives people, crashes and the agents' posts a budget each, so that
counters stay finite and every behaviour ends in a stretch where only the daemon
acts. Ceilings are small (`MAX_ATTEMPTS` 1 or 2, `MAX_BOUNCES` and
`QUOTA_RETRIES` 1) but each is reached and passed: the runs block cards for
attempts, returns and quota. Two adapters are enough for two conversations of
one card to meet, two cards for a slot to be contended. `SessionSymmetry` is
sound in `belt_one_card`: no property or action names an adapter.
`CHECK_DEADLOCK FALSE`: the daemon really rests when no card is due and the
budgets of the environment are spent.

*Fairness.* `DaemonFairness` is what the daemon's own clocks give: the loop runs
a pass every 15 s (`tasks/conveyor-loop.ts`), every wait of `runOne` and `send`
ends (a turn has a ceiling, a child process exits or is killed), a pause is a
date, and a process that was killed dies. The loop skips its passes while an update
installs (`conveyor-loop.ts` 82), which `Tick` does not look at: for safety that is
a pass that comes later; for `CardsLeaveTheBelt` it assumes that installations end,
though `npm` has no ceiling. Nothing is assumed of how a turn ends:
`TurnEnds`, `TurnFails` and `TurnOutOfQuota` are not fair. `AgentsObeyCancel` is
an assumption on the agents: one that ignores `session/cancel` keeps its card out
of the queue for ever, in the model as in the code.

`MCClones` does the same for people, git's lines and crashes. Two jobs are enough
for a cancelled run to meet the next one; two attempts reach the last one, with
two names taken under a clone; five names leave a free one after every retry.
Clones fairness: a run, the timer of the window and a generator whose client is
there go on by themselves (git has a silence timeout, disk and database calls
return); nobody has to ask, cancel or leave.

`MCPrCache`: one project is enough, as slots share nothing; two questions are
enough for one to join and one to chain, and two invalidations for a chained
question to meet a read that began between them. A history of two entries
distinguishes an old answer from a new one. Three facts: no pull request, one
fit to merge, one with a failed check (the other rungs of `decide` differ from
these by a fact that the theorem covers for any). Every question comes again and
again, so its bounds are on the host and on invalidations only. `MCScripts`: one
block for two checkouts makes the clash and the end of the range; two scripts
make a second start meet the first. Its phases are `run` and `teardown`; `setup`
(the operation `wait`) adds no step of its own and is in the proofs. In
`MCFirstPrompt` two resumes of one session need three sessions. In `MCTurns` two
turns are enough for one to follow or to meet the other; two sessions, for one
to be marked while the other is not.

Fairness of these: `gh` is killed after 20 s (`pr/exec.ts` 18) and the
continuation of a promise runs (`PrCache`); files, probes and git answer and the
timer of a ceiling fires (`Scripts`), while no process is assumed to end; the
`setup` has its ceiling (`SETUP_TIMEOUT_MS`) and the files of the memory answer
(`FirstPrompt`, `Turns`), and the timer of the two seconds fires (`Turns`), while
no agent is assumed to answer, to exit or to close its pipe, and no installation
to end: `npm` has no ceiling there.

`OneTurnAtATime` holds where nobody types in the conversation of a card the
conveyor is working on (`MaxChats = 0`), and `OneConversation` without concurrent
clicks; with them they fail (section 6).

## 4. The proofs

For any sets of cards, adapters and clients and any ceilings, from
`ConveyorAssumption` (the ceilings are naturals, `MAX_ATTEMPTS` positive, `None`
is no card and no adapter):

| theorem | statement |
|---|---|
| `Types` | `Spec => []TypeOK` |
| `AttemptsBounded` | `Spec => []HeardWithinAttempts` |
| `BlockedOff` | `Spec => BlockedIsOff` |
| `OwnColumns` | `Spec => MachineKeepsToItsColumns` |
| `LeftAlone` | `AloneSpec => BoardSpec` (refinement) |
| `OneToTalkTo` | `UnclickedSpec => []OneConversation` |
| `OneTurnEach` | `UndisturbedSpec => []OneTurnAtATime` |
| `Ceiling` | `UndisturbedSpec => []CeilingHolds` |
| `ParkedWhereItWas` | `Spec => []ParkedOrReturned` |
| `ParkedForTheStage` | `AssistedSpec => []ParkedForItsStage` |
| `ReturnsCeiling` | `MCSpec => []ReturnsBounded` |

Four of these are about part of the behaviours of `Spec`, because the code breaks
the property on the others (section 6). `UnclickedSpec` takes away the
click on a parked prompt (`Clicked`), `UndisturbedSpec` also typing in a
conversation (`Typed`); cards, drags, switches, agents that post, exits and
crashes remain, for any number of everything. `AssistedSpec` is a workspace that
was and stays assisted. `ReturnsCeiling` is of `MCSpec` because its bound counts
crashes and interventions; the budgets may be any naturals (`MCAssumption`).

**The budget.** `HeardWithinAttempts` is not inductive, and `TypeOK` alone is
not either: a turn out of quota *gives back* an attempt and takes one turn off
the history, which is a natural number only because something was charged
before. `BudgetInvariant` says it: a charged run on its way to the prompt has one
attempt more than the agent heard; a charged turn was heard; and a run whose
stage was left behind (a drag, an agent's `review`) charges nothing to the new
one, whose history is zero. `TypeOK /\ BudgetInvariant` is inductive
(`TypeStep`, `BudgetStep`: one step per action), and gives both theorems.

**The block.** `BlockedIsOff` needs `ReasonAfterOff`: between the two writes
nobody turns the card back on. A drag or a click cannot come there (`Settled`:
no wait between the writes), a crash can, and then the reason is never written.

**The refinement.** `AloneInvariant` says that a run holds a card that did not
stop, in the column of the queue's photo, or in `in_progress` when the photo
said `open`, or after a return that ended in a block. Every step of the daemon
then maps to an arrow, a stop or a stutter (`BoardStep`).

**Conversations and turns.** `Conversations` says that the newest session of a
card and role is the only live one, that what a run holds is a live conversation
of its own card, and that a run opens one only when there is none: that is what
`Charge` reads, and it is still so at `Opened` because only the run of the card
opens. `Undisturbed` adds that a turn that was given up is alone on its card,
still in flight for the daemon, and that the card's run neither asks nor waits;
so the flag keeps the card out of the queue until the agent obeys
(`LiveTurns(t) = {}` in `Charge`). `WithinCeiling` counts the turns given up plus
the runs of the pass: `TurnTimesOut` moves one from the second count to the
first, the pass fills the second only as far as the flags of the first leave
room (`CeilingTick`), and every other step shrinks both (`FewerBusy`).

**Parked prompts and returns.** Every step either parks a card, returns it, or
leaves its returns as they are and its parked prompt where it was, or none
(`UndisplacedNext`). `ParkedOrReturned` needs that whoever is about to return a
card is a reviewer's run that began when the card had at most a reviewer's prompt
(`ReviewerReturns`). In an assisted workspace no run gets past its preparation
(`OnlyPrepares`), so nothing is returned. `ReturnsLeft`: a card at its bound is
about to stop, between the two writes of `block()`, or off; only a crash or a
person takes it out of there, and each raises the bound by one.

For any jobs, streams, names and attempts, from `CloneAssumption` (there is an
attempt, `None` is no job and no name, a path registered by hand is not one of
the daemon's homes):

| theorem | statement |
|---|---|
| `TypeCorrect` | `Spec => []TypeOK` (of `Clones`) |
| `NoOrphanTemps` | `Spec => []TempsAreOwned` |
| `CleansUp` | `Spec => []NothingLeftBehind` |
| `RegisteredStays` | `Spec => []RegisteredIsThere` |
| `CancelledStaysOut` | `Spec => []CancelledIsNotRegistered` |
| `WindowsLoseNothing` | `Spec => []NothingLostToTheWindow` |
| `StoriesAreInOrder` | `Spec => []StoryInOrder` |

**The clones.** Each step is first described field by field (`CloningEffect`,
`RegisteringEffect`, `CancelEffect`, ...), then the invariant is built in three
layers. `Orderly`: job and run agree, and a run has a temporary only between git
and the rename. `Traceable`: the bytes of a job are at `name` between the rename
and its continuation, at `landed` until they are registered or removed, and
nowhere else unless it ended well or died; this is what the comment on `landed`
in `runCloneJob` asks for, and `CleansUp` follows. `Standing`, while runs come one
at a time: what the run would delete is its own or nothing, and what a row points
at belongs to a run past deleting. `RegisteredStays` and `CancelledStaysOut`
follow from it.
`TypeCorrect` rests on two facts beside the types: an attempt is counted only
while one is left, and a registration has a place on disk to start from
(`CarriesOn`); and a timer is armed only for a job that exists (`StoreOK`).

**The streams.** What a client was given last and what is queued for it are one
sequence (`Tells`). `StreamsInv` says that it is a story of the job as it is now
(lines never go back, nothing is beyond the job, a terminal snapshot is the last
and is the job's) and that its newest snapshot is the job itself, unless a
delivery is pending; and that nothing is pending for a job that ended. A story
goes on when the job does, with the new snapshot delivered or held back for the
window (`StoryGoesOn`); both theorems follow.

For any projects, callers, facts and bounds, from the assumptions of `PrCache`
(there is a project, `NoPr` is a fact, the other facts are of the shape of
`Facts`, screens are not runs of the conveyor):

| theorem | statement |
|---|---|
| `TypeCorrect` | `Spec => []TypeOK` |
| `AnswersAreFresh` | `Spec => []AnswersRespectInvalidations` |
| `MergesAreFreshAndGreen` | `Spec => []MergesOnlyOnFreshGreen` |
| `ScreensHear` | `Spec => []ScreensAreTold` |
| `KeepsThePromise` | `Spec => ImplementsFreshReads` (refinement) |

**The cache.** The invariant relates the generations to the history: what was
served up to `want` is no older than `floor`; a read in flight that serves the
last `want` began after the last invalidation; who joined a read is served by
it, and who chained will ask again. Together they say that whoever is answered
is answered with something no older than its own floor, which is also what the
mapping to `FreshReads` needs at `ReadEnds`. That `Decide` says `ready` only of
facts fit to merge is a lemma on the operator, for any facts. `ScreensHear` has an
invariant of its own, `ToldInv`: a screen that was not told holds what the slot
holds, or something the host said the same of, and drew nothing from a slot that
was empty. Steps that end no read keep it by one lemma (`NothingRead`).

For any checkouts, ports, callers and bounds, from the assumptions of `Scripts`
(there is a checkout, `teardown` is a phase, ports are a finite set of positive
numbers):

| theorem | statement |
|---|---|
| `TypeCorrect` | `Spec => []TypeOK` |
| `BlocksAreHeld` | `Spec => []LiveScriptsHoldTheirBlock` |
| `TheDeadLeaveTheMap` | `Spec => []NoPortOfTheDead` |
| `BlocksStayPut` | `Spec => BlocksAreForGood` |

**The scripts.** The invariant adds, to the properties themselves, where a call
may be: what it probes is a block of the range, what it waits for is a script
of its own checkout, and only a removal of a checkout with a directory waits for
git (`CallsInv`). A script is born in the step in which its block is read or
inserted, and a block is given back only with the row: these two carry
`BlocksAreHeld`.

For any sessions, requests and crashes, from `SessionsAssumption`:

| theorem | statement |
|---|---|
| `TypeCorrect` | `Spec => []TypeOK` |
| `NoSecondTurn` | `Spec => []SentOnce` |
| `SomebodyHasIt` | `Spec => []NothingForgotten` |
| `NeverLost` | `Spec => []TextIsKept` |
| `DroppedForGood` | `Spec => DecisionsStand` |

**The first prompt.** `SentOnce` needs that a text on a row was not said there
unless it is being sent, and that a claim holds exactly one turn; `DecisionsStand`
needs in addition that the copy a resume took of a row does not come back to
that row; `TextIsKept`, that a copy whose original is gone is in the hands of a
resume or on the row it wrote. They are one inductive invariant, a conjunction
of facts about one session (`Born0`, `Over`, `Claims`, `Drops`, `Goes`) and of
facts about resumes (`ResumeInv`, `Apart`, `Ways`), so that each action disturbs
a few of them.

For any sessions, turns and requests, from `NoneAssumption` (`None` is no session):

| theorem | statement |
|---|---|
| `TypeCorrect` | `Spec => []TypeOK` (of `Turns`) |
| `OneClosing` | `Spec => []StoryOfATurn` |
| `MarkIsTrue` | `Spec => []MarkTellsOfATurn` |
| `TurnsAreLeftAlone` | `Spec => []NothingUnderATurn` |
| `ButtonsDie` | `Spec => []NoDeadButtons` |
| `OneMemory` | `Spec => []MemoryGoesOnce` |

**The turns.** `Phase` says what a turn has told at each of its waits, with the
failure of the exit or without it: that is all `OneClosing` needs. The others
rest on `Marks`, whose point is `Alone`: any two turns in flight in one session
are both in `overlapped`, so a step that clears the flag for one of them leaves
unmarked only turns that shared. `Changing` adds, of the changes of configuration,
that the turns in flight when one was asked for had shared; it is apart because
no other part needs it. Every step but the start of a prompt is
`Settled` (turns go on or end, and the flag only with its turns), which keeps
`Marks` by one lemma. `Gifts` adds that a turn that waits for the memory and is
alone is in a session that was not given any.

TLC checked every inductive invariant before it was proved. `TypeOK` of `PrCache`,
`Scripts` and `Turns`, and `AnswersRespectInvalidations`, which the refinement of
`FreshReads` includes, are stated by their theorems and not by a run. Model-checked only:
liveness (`CardsLeaveTheBelt`, `RunsEnd`, `StreamsEnd`, `EveryQuestionIsAnswered`,
`EveryCallEnds`, `EveryTextIsDecided`, `EverybodyIsLetGo`), which is out of the prover's reach as is
`ENABLED`. Every invariant and every action property of a passing run is proved.

## 5. What is not modelled

Listed under `components` in `PROJECT.json` with the reason, and, for the parts
that are modelled, what is left out of each. Process and network I/O,
translation of wire messages, the client's views and read-only accounting have
no state worth a model; the rest is in the plan. Left out of the parts that are
modelled, beside what section 2 says: the length of the TTLs of the cache and
the second cache of the same shape (`IssueCache`); the parsing and the trust of
a project's script file, and the text of its output; the table of decisions of
the cleanup of a card; the continuation of a conversation in another account
(`continueIn`); the launch, the loading and the replay of a conversation, tool
calls, and the count of scripts that also holds an update back.

Hazards of the code that no property covers, beside those `PROJECT.json` lists:

* `tasks/conveyor.ts` 385, 470, 752, 418, 690: a checkout that fails under a card
  that left the queue; blocks that leave a conversation open; the mode read once
  per pass; findings consumed by a prompt that is not delivered; two clicks;
* `tasks/conveyor-ports.ts` 680, 509: the reason of a block on a card that a
  person moved; a gate that reads a verdict up to a TTL old;
* `acp/AcpManager.ts` 1635, 1484, 1333: an agent that ignores `session/cancel`; a chat
  that clears the flag of the conveyor's turn; an update that refuses a prompt
  while the conveyor opens its adapter, which blocks the card;
* `update/idle.ts` 27: a script that starts while an update installs;
* `tasks/conveyor-ports.ts` 535: `gh` fails and the conveyor sees no pull request;
* `routers/task.ts` 456: the blocks of ports of finished cards;
* `tracker/sync.ts` 130: a crash between the creation of a card and its link to the
  issue, after which the issue makes a second card; 156: between the link and the
  block, after which the card of a closed issue is due;
* `routers/project.ts` 513, `git/clone.ts` 217: a crash between the rename and the
  `INSERT`; the temporary removed while git still writes in it;
* `routers/pr.ts` 243: a write that worked and whose answer was lost;
* `scripts/ScriptRunner.ts` 272, 381: a previous run that was told to stop and lives
  on; the exit of a run that has its port from its environment, which nobody watches;
* `routers/worktree.ts` 857, `routers/task.ts` 436: a second removal stops the first
  one's `teardown`; `--force` discards what was written after the decision;
* `sessions/SessionStore.ts` 776, 728, 715, `sessions/pending-prompt.ts` 154: below;
* `files/FileService.ts` 700: a file that changes between the check of its
  revision and the write.

## 6. Where the code and its documentation disagree

Kept as runs, each with the line it quotes: `stop` does not stop a run that is
opening its adapter (`v_stop`); two resumes of a session send its first prompt twice (`v_twice`).

Seen while modelling, not kept as runs. TLC found the first five with the
models above and a property that says the opposite.

* a green gate takes a card to the column after the one of the photo, also
  backwards when somebody moved it on during the turn (`tasks/conveyor.ts` 649;
  the comment at 236 knows one arrow back only, the reviewer's);
* findings are consumed when the prompt is composed (`tasks/conveyor.ts` 418), not
  when it is delivered (`tasks/conveyor-ports.ts` 514-517);
* two clicks on a parked prompt open two conversations (`tasks/conveyor.ts` 681
  against 693-699);
* a card dragged to the backlog during its turn is pulled back by the return of
  a review (`repositories/task.ts` 589; PRD 028, 332);
* a chat during the conveyor's turn clears `promptInFlight` when it ends
  (`acp/AcpManager.ts` 1484 against `tasks/queue.ts` 157): a second turn begins on
  the card;
* a checkout that fails to prepare charges an attempt to a card that has left the
  queue meanwhile (`tasks/conveyor.ts` 379-390 against the comment at 393-396);
* the reason of a block is written on whatever column the card is in by then
  (`tasks/conveyor-ports.ts` 680);
* `countBounce` leaves the parked prompt of the review on a card that is back in
  `in_progress` (`repositories/task.ts` 585-604 against 454-493);
* a green gate whose card is already in the next column leaves the attempts of
  the old stage on it (`advance` finds no change of column to make);
* a card blocked past its ceiling of attempts, or because its checkout could not
  be prepared, leaves the conversation of the slot running
  (`tasks/conveyor.ts` 470 against 668).

Of the clones:

* a run that was cancelled past git goes on beside the next clone. If its rename
  then fails, its cleanup deletes the directory it believes to be its own
  (`routers/project.ts` 537, `landed` set at 507): without the condition
  `rivals = {}`, TLC finds it deleting what the second clone has just registered, and, with three
  runs alive, the bytes of a cancelled one under a row that lost its own;
* a crash between the rename and the `INSERT` leaves a populated directory that
  no row names; the boot sweep removes only `.lumem-clone-*`, and the next clone
  of that name is refused as occupied. The comment on `runCloneJob` ("§8 forbids
  leaving a checkout nobody knows about") is about errors, not crashes;
* `docs/features/011-project-from-url/prd.md` 343 says that cancelling waits for
  git to die "e só então apaga o temporário"; the code rejects first, kills
  after, and removes the temporary at once (`git/clone.ts` 217-220, 111);
* a failed clone leaves the empty home that `prepareCloneTarget` made for it.

Of the cache:

* a `null` of the cache is read by the conveyor as "no pull request" also when
  `gh` failed (`conveyor-wiring.ts` 84, `tasks/conveyor-ports.ts` 535 against 530
  and 592), and nothing is invalidated after it opened one (582);
* `PrCache.forget` and `IssueCache.forget` are never called, though the comment
  says "Cache que sobrevive ao dono é vazamento";
* `pullOfWorktree` takes the first pull request of the branch (`find`), where the
  cache chooses one (`pickForBranch`).

Of the scripts:

* a start that arrives while git deletes the directory, and an older script that
  was told to stop but lives on and is found again by `stopAll`, leave a process
  without a checkout (`routers/worktree.ts` 861-863).

* a card that is finished never gives back its block (`routers/task.ts` 456), nor
  does a start that was probing while its checkout went: "Sem isto a faixa vaza"
  (`scripts/ports.ts` 120). TLC finds both.

Of the first prompt:

* a discard during the seconds of a resume is undone by the row it had copied
  (`sessions/SessionStore.ts` 776);
* a message typed while the text waits for the memory takes the text off the row;
  a crash then loses it (`sessions/pending-prompt.ts` 154 against 126-129; `mistaken`);
* an adapter that dies between its start and its row leaves a row `running`
  without an agent until the next boot (`sessions/SessionStore.ts` 728 against 855-857);
* the marker of a session without turns is wrong after a chat (715 against 709-712);
* a prompt that was refused before its turn stays on the row without a reason,
  and nobody tries again.

Of the turns:

* two prompts in one session share one flag: the end of the first clears it
  under the second, so an update may interrupt that one, the configuration may
  change under it, and two prompts that wait together both bring the memory
  (`overlapped`; without it TLC violates the three properties that name it);
* `setConfig` looks at the flag, waits for the agent and only then writes and
  tells the configuration (`acp/AcpManager.ts` 2448, 2456-2476, 2485-2501): a
  prompt that begins during the wait has it changed under it, alone in its
  session, which is what the refusal is there to prevent ("would let the user believe
  they changed the rules for what is happening now, which is the worst of the three
  options", 2440-2443; "uma garantia que a `016` cobra", 1364-1365). TLC finds it in five states with `ConfigAnswered` required to
  meet no turn in flight; `NothingUnderATurn` speaks of what was asked for during
  the turn. The conveyor waits for its own changes before it prompts
  (`tasks/conveyor-sessions.ts` 64-81) and does not meet this;
* a permission still in the pipe when the process exits is registered afterwards
  and waits for ever, with live buttons (`acp/AcpManager.ts` 2144 against 2633; `late`);
* a turn that fails, ends, or is closed by the end of the grace leaves its pending
  permissions on the screen: only `cancel` and the exit withdraw them;
* a failed turn forgets its open tool calls without closing their cards (1461,
  2699, where a cancelled one closes them, 1475-1480);
* the gate of an update counts scripts, but the hold stops prompts only: a script
  may start while `npm` runs, and `npm` has no ceiling.

## 7. Plan

1. The hold of `Turns` composed with `Conveyor` (prompts refused while it opens
   an adapter block cards) and with `Scripts` (which it does not stop).
2. Launching, loading and the replay of a conversation in `acp/AcpManager.ts`.
3. `TaskBoard`: positions inside a column, `finish` against turns in flight.
4. `Files` (save against a revision), `Tracker`, `Memory` (the write gate).
5. Decision tables as operators: gate, cleanup, seal, budget, pause for quota.
6. Theorems: the refinement of an abstract first prompt and of an abstract
   allocator of blocks; what survives of the two properties of turns when people
   type and click.
