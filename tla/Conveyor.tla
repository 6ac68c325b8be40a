------------------------------ MODULE Conveyor ------------------------------
(***************************************************************************)
(* The conveyor ("a esteira"): the loop of the daemon that takes due cards *)
(* off the board of one workspace, runs an agent turn for each, judges the *)
(* turn and moves the card.  packages/server/src/tasks/conveyor.ts and the *)
(* ports behind it.                                                        *)
(*                                                                         *)
(* ATOMICITY.  The daemon is one Node process over a synchronous database: *)
(* a run of awaits that touch only the database cannot be interleaved with *)
(* a request, so it is ONE action.  What splits the code into actions is   *)
(* real I/O: preparing a checkout, spawning an adapter, configuring it, a  *)
(* turn, the gate, publishing.  A crash may come anywhere, also between    *)
(* two database writes; the only place where that matters is the pair of   *)
(* writes of `block`, which is why blocking is two steps (BlockOff and     *)
(* BlockReason) that nothing but a crash may come between (Settled).       *)
(***************************************************************************)
EXTENDS Integers, FiniteSets

CONSTANTS
    Tasks,          \* the cards of the workspace
    Sessions,       \* adapter processes that can be alive at the same time
    Clients,        \* concurrent `sendPrepared` requests
    MaxParallel,    \* workspace.autonomyMaxParallel
    MAX_ATTEMPTS,
    MAX_BOUNCES,
    QUOTA_RETRIES,
    MaxChats,       \* bound: prompts of a person in flight on one session
    None            \* no session, no card

ASSUME ConveyorAssumption ==
    /\ MaxParallel \in Nat
    /\ MAX_ATTEMPTS \in Nat \ {0}
    /\ MAX_BOUNCES \in Nat
    /\ QUOTA_RETRIES \in Nat
    /\ MaxChats \in Nat
    /\ None \notin Sessions \cup Tasks
    /\ IsFiniteSet(Tasks)
    /\ IsFiniteSet(Sessions)

VARIABLES
    mode,      \* workspace.autonomy
    task,      \* the rows of the cards
    session,   \* the live conversations, and the turns in flight on each
    latest,    \* the newest session row of a card and role, when it is alive
    run,       \* one `runOne` per card: where it is, and the row it started from
    request,   \* one `send` per client
    heard      \* history: turns charged to the present stage that an agent heard

vars == <<mode, task, session, latest, run, request, heard>>

-----------------------------------------------------------------------------
(* Cards *)

Modes == {"manual", "assistido", "autonomo"}
Roles == {"implementador", "revisor", "testador"}
DueStatuses == {"open", "in_progress", "review", "testing"}
CLOSED == {"done", "dropped"}
Statuses == {"proposed", "backlog", "ready_to_merge"} \cup DueStatuses \cup CLOSED
HANDS_ON_COLUMNS == {"in_progress", "review", "testing"}
CONVEYOR_MAY_SET == {"in_progress", "review", "testing", "ready_to_merge"}

\* What the reviewer returned: nothing, reproduced and waiting, or handed over
\* (`skipped` in the database).  "heard" is `skipped` too: the history of
\* whether the text that carried it reached an agent.
Findings == {"none", "reproduced", "skipped", "heard"}

TaskRows ==
    [status: Statuses, attempts: Nat, bounces: Nat, autonomy: {"inherit", "off"},
     blocked: BOOLEAN, prepared: Roles \cup {"none"}, carries: BOOLEAN,
     refusals: Nat, paused: BOOLEAN, finding: Findings]

NewTask(status) ==
    [status |-> status, attempts |-> 0, bounces |-> 0, autonomy |-> "inherit",
     blocked |-> FALSE, prepared |-> "none", carries |-> FALSE,
     refusals |-> 0, paused |-> FALSE, finding |-> "none"]

DUE_STAGES ==
    [status \in DueStatuses |->
        CASE status = "testing"     -> [rank |-> 1, role |-> "testador"]
          [] status = "review"      -> [rank |-> 2, role |-> "revisor"]
          [] status = "in_progress" -> [rank |-> 3, role |-> "implementador"]
          [] status = "open"        -> [rank |-> 4, role |-> "implementador"]]

NEXT_STAGE ==
    [status \in DueStatuses |->
        CASE status = "open"        -> "in_progress"
          [] status = "in_progress" -> "review"
          [] status = "review"      -> "testing"
          [] status = "testing"     -> "ready_to_merge"]

\* MUTANT of EnterStage: the parked prompt follows the card to the new column.
EnterStageKeepsParked(row, status) ==
    [row EXCEPT !.status = status, !.attempts = 0, !.blocked = FALSE,
                !.refusals = 0, !.paused = FALSE]

\* What a change of column writes besides the column.
EnterStage(row, status) ==
    [row EXCEPT !.status = status, !.attempts = 0, !.prepared = "none",
                !.carries = FALSE, !.blocked = FALSE, !.refusals = 0,
                !.paused = FALSE]

\* The column changes only if it is another one.
SetStatus(row, status) ==
    IF row.status = status THEN row ELSE EnterStage(row, status)

\* A daemon or an agent never takes a card out of a closed column.
MayWrite(row, status) == status \in CONVEYOR_MAY_SET /\ row.status \notin CLOSED

\* MUTANT of MayBounce: a table without its CHECK.
MayBounceAlways(row) == TRUE

\* The reviewer's return: an unconditional write of the column, except that the
\* CHECK of the table refuses a closed card that is not in a closed column.
MayBounce(row) == row.status \notin CLOSED
CountBounce(row) ==
    [row EXCEPT !.status = "in_progress", !.bounces = @ + 1, !.attempts = 0,
                !.refusals = 0, !.paused = FALSE]

\* MUTANT of TooManyReturns: one return too many.
TooManyReturnsLate(row) == row.bounces > MAX_BOUNCES + 1

TooManyReturns(row) == row.bounces > MAX_BOUNCES

\* MUTANT of RefuseForQuota: an attempt given back twice goes below zero.
RefuseForQuotaNoFloor(row) ==
    [row EXCEPT !.attempts = @ - 1, !.refusals = @ + 1]

\* MUTANT of RefuseForQuota: the refusals are not counted.
RefuseForQuotaUncounted(row) ==
    [row EXCEPT !.attempts = IF @ > 0 THEN @ - 1 ELSE 0]

\* The agent's complaint of quota gives the attempt back.
RefuseForQuota(row) ==
    [row EXCEPT !.attempts = IF @ > 0 THEN @ - 1 ELSE 0, !.refusals = @ + 1]

\* The first message of a turn moves an open card, and resets nothing.
Progressed(row) ==
    IF row.status = "open" THEN [row EXCEPT !.status = "in_progress"] ELSE row

-----------------------------------------------------------------------------
(* Conversations *)

SessionRows ==
    [state: {"free", "running", "closing"}, task: Tasks \cup {None}, role: Roles,
     givenUp: Nat,       \* turns of the conveyor that nobody waits for any more
     others: Nat,        \* turns of people, and of clicks nobody waits for
     inFlight: BOOLEAN]  \* what the daemon believes

Free == [state |-> "free", task |-> None, role |-> "implementador",
         givenUp |-> 0, others |-> 0, inFlight |-> FALSE]

NewSession(t, role) == [Free EXCEPT !.state = "running", !.task = t, !.role = role]

Live(s) == session[s].state # "free"

\* `promptInFlight` is one flag per session: the first of two concurrent
\* prompts to end turns it off, the other still in flight.
Asked(row)      == [row EXCEPT !.inFlight = TRUE]
Answered(row)   == [row EXCEPT !.inFlight = FALSE]

\* closeSession kills the process; the row stays `running` until it exits.
Close(s) ==
    session' = IF s = None THEN session
               ELSE [session EXCEPT ![s].state = "closing"]

-----------------------------------------------------------------------------
(* The queue *)

\* liveTurns(), by card: what the daemon believes is in flight.
LiveTurns(t) == {s \in Sessions : Live(s) /\ session[s].task = t /\ session[s].inFlight}

\* MUTANT of Candidate: a card that stopped stays due.
CandidateWhenOff(t) ==
    task[t].status \in DueStatuses /\ LiveTurns(t) = {} /\ ~task[t].paused

Candidate(t) ==
    /\ task[t].status \in DueStatuses
    /\ task[t].autonomy = "inherit"
    /\ LiveTurns(t) = {}
    /\ ~task[t].paused

Candidates == {t \in Tasks : Candidate(t)}

\* MUTANT of Slots: the turns in flight are not discounted.
SlotsAll == MaxParallel

Slots ==
    LET inFlight == Cardinality({s \in Sessions : Live(s) /\ session[s].inFlight})
    IN  IF inFlight >= MaxParallel THEN 0 ELSE MaxParallel - inFlight

\* The head of the queue: later stages first.  The order inside a column is the
\* person's and is left open.
IsHead(taking) ==
    /\ taking \subseteq Candidates
    /\ Cardinality(taking) =
         IF Cardinality(Candidates) < Slots THEN Cardinality(Candidates) ELSE Slots
    /\ \A t \in taking, u \in Candidates \ taking :
         DUE_STAGES[task[t].status].rank <= DUE_STAGES[task[u].status].rank

-----------------------------------------------------------------------------
(* runOne and send: what each remembers between two waits *)

RunRows ==
    [pc: {"idle", "preparing", "opening", "configuring", "prompting", "turn",
          "judging", "returning", "publishing", "blocking", "reason"},
     status: DueStatuses,     \* the row of the queue's photo: its column
     refused: BOOLEAN,        \* the row of the photo: quotaRefusals > 0
     assisted: BOOLEAN,       \* the workspace's autonomy in the photo
     attempt: Nat,
     charged: BOOLEAN,        \* history: the attempt is still on the row
     carries: BOOLEAN,        \* the text holds what the reviewer returned
     sess: Sessions \cup {None}]

Idle == [pc |-> "idle", status |-> "open", refused |-> FALSE, assisted |-> FALSE,
         attempt |-> 0, charged |-> FALSE, carries |-> FALSE, sess |-> None]

RequestRows ==
    [pc: {"idle", "opening", "configuring", "prompting", "turn"},
     task: Tasks \cup {None}, role: Roles, carries: BOOLEAN,
     sess: Sessions \cup {None}]

NoRequest == [pc |-> "idle", task |-> None, role |-> "implementador",
              carries |-> FALSE, sess |-> None]

Role(t) == DUE_STAGES[run[t].status].role

\* Nothing but a crash comes between two database writes of one run of awaits.
Settled ==
    /\ \A t \in Tasks : run[t].pc \notin {"prompting", "blocking", "reason"}
    /\ \A c \in Clients : request[c].pc # "prompting"

Init ==
    /\ mode \in Modes
    /\ task \in [Tasks -> {NewTask("open"), NewTask("backlog")}]
    /\ session = [s \in Sessions |-> Free]
    /\ latest = [t \in Tasks |-> [r \in Roles |-> None]]
    /\ run = [t \in Tasks |-> Idle]
    /\ request = [c \in Clients |-> NoRequest]
    /\ heard = [t \in Tasks |-> 0]

-----------------------------------------------------------------------------
(* tick, and the steps of runOne *)

Started(t) ==
    [Idle EXCEPT !.pc = "preparing", !.status = task[t].status,
                 !.refused = task[t].refusals > 0,
                 !.assisted = (mode = "assistido")]

\* One pass at a time: the pass ends when every runOne of it has ended.  The
\* clock also skips its turn while an update installs (conveyor-loop.ts:82),
\* which here is a pass that comes later.
Tick ==
    /\ Settled
    /\ mode # "manual"
    /\ \A t \in Tasks : run[t].pc = "idle"
    /\ \E taking \in SUBSET Tasks :
         /\ taking # {}
         /\ IsHead(taking)
         /\ run' = [t \in Tasks |-> IF t \in taking THEN Started(t) ELSE run[t]]
    /\ UNCHANGED <<mode, task, session, latest, request, heard>>

\* A failure to prepare costs an attempt, and the queue is not read again.
PrepareFails(t) ==
    /\ Settled
    /\ run[t].pc = "preparing"
    /\ task' = [task EXCEPT ![t].attempts = @ + 1]
    /\ run' = [run EXCEPT ![t] = IF task'[t].attempts >= MAX_ATTEMPTS
                                 THEN [@ EXCEPT !.pc = "blocking"] ELSE Idle]
    /\ UNCHANGED <<mode, session, latest, request, heard>>

StillDue(t) == Candidate(t) /\ DUE_STAGES[task[t].status].role = Role(t)

NoLongerDue(t) ==
    /\ Settled
    /\ run[t].pc = "preparing"
    /\ ~StillDue(t)
    /\ run' = [run EXCEPT ![t] = Idle]
    /\ UNCHANGED <<mode, task, session, latest, request, heard>>

\* `returned`: only the implementer reads it, and reading consumes it.
Carries(t) == Role(t) = "implementador" /\ task[t].finding = "reproduced"
HandOver(t) == IF Carries(t) THEN "skipped" ELSE task[t].finding

\* Assisted: the prompt is parked on the card, and no attempt is spent.
Park(t) ==
    /\ Settled
    /\ run[t].pc = "preparing"
    /\ StillDue(t)
    /\ run[t].assisted
    /\ task' = [task EXCEPT ![t].prepared = Role(t), ![t].carries = Carries(t),
                            ![t].finding = HandOver(t)]
    /\ run' = [run EXCEPT ![t] = Idle]
    /\ UNCHANGED <<mode, session, latest, request, heard>>

\* MUTANT of PastCeiling: one attempt too many.
PastCeilingLate(attempt) == attempt > MAX_ATTEMPTS + 1

PastCeiling(attempt) == attempt > MAX_ATTEMPTS

\* MUTANT of Alive: the conversation of the first attempt is not looked for.
AliveNever(t, role) == None

\* openSession goes on in the newest conversation of the card and role, if alive.
Alive(t, role) == latest[t][role]

\* Autonomous: the attempt is counted before anything is opened.  Past the
\* ceiling the card stops; a conversation still alive is used again at once.
Charge(t) ==
    /\ Settled
    /\ run[t].pc = "preparing"
    /\ StillDue(t)
    /\ ~run[t].assisted
    /\ LET attempt == task[t].attempts + 1
           alive   == Alive(t, Role(t))
           next    == CASE PastCeiling(attempt) -> "blocking"
                        [] ~PastCeiling(attempt) /\ alive # None -> "prompting"
                        [] OTHER -> "opening"
       IN  /\ task' = [task EXCEPT ![t].attempts = attempt,
                                   ![t].finding = HandOver(t)]
           /\ run' = [run EXCEPT ![t].pc = next, ![t].attempt = attempt,
                                 ![t].charged = TRUE, ![t].carries = Carries(t),
                                 ![t].sess = IF next = "prompting" THEN alive ELSE None]
    /\ UNCHANGED <<mode, session, latest, request, heard>>

\* The adapter is up and its row exists: resumed or new, it is the newest one.
Opened(t) ==
    /\ Settled
    /\ run[t].pc = "opening"
    /\ \E s \in Sessions :
         /\ ~Live(s)
         /\ session' = [session EXCEPT ![s] = NewSession(t, Role(t))]
         /\ latest' = [latest EXCEPT ![t][Role(t)] = s]
         /\ run' = [run EXCEPT ![t].pc = "configuring", ![t].sess = s]
    /\ UNCHANGED <<mode, task, request, heard>>

\* An exception nobody catches below the tick: the attempt stays counted.
Throws(t) ==
    /\ Settled
    /\ run[t].pc \in {"opening", "judging"}
    /\ run' = [run EXCEPT ![t] = Idle]
    /\ UNCHANGED <<mode, task, session, latest, request, heard>>

Ready(t) == (run[t].pc = "configuring" /\ Settled) \/ run[t].pc = "prompting"

\* The session died while it was being configured: the prompt throws.
PromptDead(t) ==
    /\ Ready(t)
    /\ run[t].sess = None
    /\ run' = [run EXCEPT ![t] = Idle]
    /\ UNCHANGED <<mode, task, session, latest, request, heard>>

\* The budget refuses before the agent hears anything: the card stops.
PromptRefused(t) ==
    /\ Ready(t)
    /\ run[t].sess # None
    /\ session' = [session EXCEPT ![run[t].sess] =
                     [Answered(@) EXCEPT !.state = "closing"]]
    /\ run' = [run EXCEPT ![t].pc = "blocking"]
    /\ UNCHANGED <<mode, task, latest, request, heard>>

\* What the first message of a turn does to the row of its card.
Hear(row, carries) ==
    [Progressed(row) EXCEPT
        !.finding = IF carries /\ @ = "skipped" THEN "heard" ELSE @]

PromptHeard(t) ==
    /\ Ready(t)
    /\ run[t].sess # None
    /\ session' = [session EXCEPT ![run[t].sess] = Asked(@)]
    /\ task' = [task EXCEPT ![t] = Hear(@, run[t].carries)]
    /\ heard' = [heard EXCEPT ![t] = IF run[t].charged THEN @ + 1 ELSE @]
    /\ run' = [run EXCEPT ![t].pc = "turn"]
    /\ UNCHANGED <<mode, latest, request>>

\* The pass of the photo had been refused for quota: a turn that ran clears it.
ClearPause(t) ==
    IF run[t].refused
    THEN [task EXCEPT ![t].paused = FALSE, ![t].refusals = 0] ELSE task

TurnEnds(t) ==
    /\ Settled
    /\ run[t].pc = "turn"
    /\ session' = [session EXCEPT ![run[t].sess] = Answered(@)]
    /\ task' = ClearPause(t)
    /\ run' = [run EXCEPT ![t].pc = "judging"]
    /\ UNCHANGED <<mode, latest, request, heard>>

TurnFails(t) ==
    /\ Settled
    /\ run[t].pc = "turn"
    /\ session' = [session EXCEPT ![run[t].sess] = Answered(@)]
    /\ run' = [run EXCEPT ![t] = Idle]
    /\ UNCHANGED <<mode, task, latest, request, heard>>

\* Quota: the conversation closes, the attempt is given back, and the card waits
\* - or stops, when it has waited enough or the agent says it opens too late.
TurnOutOfQuota(t) ==
    /\ Settled
    /\ run[t].pc = "turn"
    /\ session' = [session EXCEPT ![run[t].sess] =
                     [Answered(@) EXCEPT !.state = "closing"]]
    /\ heard' = [heard EXCEPT ![t] = IF run[t].charged THEN @ - 1 ELSE @]
    /\ LET row == RefuseForQuota(task[t])
       IN  \E opensTooLate \in BOOLEAN :
             IF row.refusals > QUOTA_RETRIES \/ opensTooLate
             THEN /\ task' = [task EXCEPT ![t] = row]
                  /\ run' = [run EXCEPT ![t].pc = "blocking"]
             ELSE /\ task' = [task EXCEPT ![t] = [row EXCEPT !.paused = TRUE]]
                  /\ run' = [run EXCEPT ![t] = Idle]
    /\ UNCHANGED <<mode, latest, request>>

\* What is left of an attempt that did not pass: the last one stops the card,
\* and only then is the conversation closed.
LastAttempt(t) == run[t].attempt >= MAX_ATTEMPTS
AfterUnfinished(t) ==
    [run EXCEPT ![t] = IF LastAttempt(t) THEN [@ EXCEPT !.pc = "blocking"] ELSE Idle]

\* MUTANT of TurnTimesOut: a turn asked to stop is taken for one that stopped.
TurnTimesOutForgets(t) ==
    /\ Settled
    /\ run[t].pc = "turn"
    /\ task' = ClearPause(t)
    /\ session' = [session EXCEPT ![run[t].sess].givenUp = @ + 1,
                                  ![run[t].sess].inFlight = FALSE]
    /\ run' = AfterUnfinished(t)
    /\ UNCHANGED <<mode, latest, request, heard>>

\* The ceiling of the turn: it is asked to stop, and stays in flight until it does.
TurnTimesOut(t) ==
    /\ Settled
    /\ run[t].pc = "turn"
    /\ task' = ClearPause(t)
    /\ session' = [session EXCEPT ![run[t].sess].givenUp = @ + 1,
                                  ![run[t].sess].state =
                                    IF LastAttempt(t) THEN "closing" ELSE @]
    /\ run' = AfterUnfinished(t)
    /\ UNCHANGED <<mode, latest, request, heard>>

\* The gate: not finished, or - for anyone but the reviewer - failed.
JudgeUnfinished(t) ==
    /\ Settled
    /\ run[t].pc = "judging"
    /\ IF LastAttempt(t) THEN Close(run[t].sess) ELSE UNCHANGED session
    /\ run' = AfterUnfinished(t)
    /\ UNCHANGED <<mode, task, latest, request, heard>>

\* The reviewer's gate writes each verdict as it reproduces: one that could not
\* be run (`pending`) holds the card too, and is not marked reproduced.
JudgeFinding(t) ==
    /\ Settled
    /\ run[t].pc = "judging"
    /\ Role(t) = "revisor"
    /\ \E ran \in BOOLEAN :
         task' = IF ran THEN [task EXCEPT ![t].finding = "reproduced"] ELSE task
    /\ run' = [run EXCEPT ![t].pc = "returning"]
    /\ UNCHANGED <<mode, session, latest, request, heard>>

\* The reviewer returns the card; too many returns stop it.
Bounce(t) ==
    /\ Settled
    /\ run[t].pc = "returning"
    /\ Close(run[t].sess)
    /\ IF MayBounce(task[t])
       THEN /\ task' = [task EXCEPT ![t] = CountBounce(@)]
            /\ heard' = [heard EXCEPT ![t] = 0]
            /\ run' = [run EXCEPT ![t] = IF TooManyReturns(task'[t])
                                         THEN [@ EXCEPT !.pc = "blocking",
                                                        !.charged = FALSE]
                                         ELSE Idle]
       ELSE /\ run' = [run EXCEPT ![t] = Idle]
            /\ UNCHANGED <<task, heard>>
    /\ UNCHANGED <<mode, latest, request>>

\* Green: the implementer's PR and the reviewer's notes go out first.
JudgePass(t) ==
    /\ Settled
    /\ run[t].pc = "judging"
    /\ Role(t) # "testador"
    /\ run' = [run EXCEPT ![t].pc = "publishing"]
    /\ UNCHANGED <<mode, task, session, latest, request, heard>>

\* The card moves to the stage after the one in the queue's photo.
Advance(t) ==
    /\ Settled
    /\ \/ run[t].pc = "publishing"
       \/ run[t].pc = "judging" /\ Role(t) = "testador"
    /\ Close(run[t].sess)
    /\ LET next == NEXT_STAGE[run[t].status]
       IN  IF MayWrite(task[t], next)
           THEN /\ task' = [task EXCEPT ![t] = SetStatus(@, next)]
                /\ heard' = [heard EXCEPT ![t] =
                               IF task[t].status = next THEN @ ELSE 0]
           ELSE UNCHANGED <<task, heard>>
    /\ run' = [run EXCEPT ![t] = Idle]
    /\ UNCHANGED <<mode, latest, request>>

\* MUTANT of BlockOff: the card stays in the queue.
BlockOffForgotten(t) ==
    /\ run[t].pc = "blocking"
    /\ run' = [run EXCEPT ![t].pc = "reason"]
    /\ UNCHANGED <<mode, task, session, latest, request, heard>>

\* block(): autonomy off, then the reason.  The order is the one that leaves no
\* card in the queue saying that it is blocked.
BlockOff(t) ==
    /\ run[t].pc = "blocking"
    /\ task' = [task EXCEPT ![t].autonomy = "off"]
    /\ run' = [run EXCEPT ![t].pc = "reason"]
    /\ UNCHANGED <<mode, session, latest, request, heard>>

BlockReason(t) ==
    /\ run[t].pc = "reason"
    /\ task' = [task EXCEPT ![t].blocked = TRUE]
    /\ run' = [run EXCEPT ![t] = Idle]
    /\ UNCHANGED <<mode, session, latest, request, heard>>

-----------------------------------------------------------------------------
(* send: the click on a parked prompt *)

\* The click reads the parked prompt and, at once, looks for a live conversation.
\* The card is not touched until the conversation is open.
Send(c, t) ==
    /\ Settled
    /\ request[c].pc = "idle"
    /\ task[t].prepared # "none"
    /\ LET alive == Alive(t, task[t].prepared)
       IN  request' = [request EXCEPT ![c] =
                        [pc |-> IF alive = None THEN "opening" ELSE "prompting",
                         task |-> t, role |-> task[t].prepared,
                         carries |-> task[t].carries, sess |-> alive]]
    /\ UNCHANGED <<mode, task, session, latest, run, heard>>

SendOpened(c) ==
    /\ Settled
    /\ request[c].pc = "opening"
    /\ \E s \in Sessions :
         /\ ~Live(s)
         /\ session' = [session EXCEPT ![s] =
                         NewSession(request[c].task, request[c].role)]
         /\ latest' = [latest EXCEPT ![request[c].task][request[c].role] = s]
         /\ request' = [request EXCEPT ![c].pc = "configuring", ![c].sess = s]
    /\ UNCHANGED <<mode, task, run, heard>>

SendFails(c) ==
    /\ Settled
    /\ request[c].pc = "opening"
    /\ request' = [request EXCEPT ![c] = NoRequest]
    /\ UNCHANGED <<mode, task, session, latest, run, heard>>

Unparked(row) == [row EXCEPT !.prepared = "none", !.carries = FALSE]

SendReady(c) ==
    \/ request[c].pc = "configuring" /\ Settled
    \/ request[c].pc = "prompting"

\* The parked prompt is cleared, and the daemon refuses: dead session or budget.
SendRefused(c) ==
    /\ SendReady(c)
    /\ task' = [task EXCEPT ![request[c].task] = Unparked(@)]
    /\ session' = IF request[c].sess = None THEN session
                  ELSE [session EXCEPT ![request[c].sess] = Answered(@)]
    /\ request' = [request EXCEPT ![c] = NoRequest]
    /\ UNCHANGED <<mode, latest, run, heard>>

SendHeard(c) ==
    /\ SendReady(c)
    /\ request[c].sess # None
    /\ task' = [task EXCEPT ![request[c].task] =
                 Hear(Unparked(@), request[c].carries)]
    /\ session' = [session EXCEPT ![request[c].sess] = Asked(@)]
    /\ request' = [request EXCEPT ![c].pc = "turn"]
    /\ UNCHANGED <<mode, latest, run, heard>>

\* The turn of a click ends or fails; nothing judges it.
SendEnds(c) ==
    /\ Settled
    /\ request[c].pc = "turn"
    /\ session' = [session EXCEPT ![request[c].sess] = Answered(@)]
    /\ request' = [request EXCEPT ![c] = NoRequest]
    /\ UNCHANGED <<mode, task, latest, run, heard>>

SendTimesOut(c) ==
    /\ Settled
    /\ request[c].pc = "turn"
    /\ session' = [session EXCEPT ![request[c].sess].others = @ + 1]
    /\ request' = [request EXCEPT ![c] = NoRequest]
    /\ UNCHANGED <<mode, task, latest, run, heard>>

-----------------------------------------------------------------------------
(* Agents, processes and the clock *)

\* Whose turns run on a session, and whether any does.
WaitingRuns(s) == {t \in Tasks : run[t].pc = "turn" /\ run[t].sess = s}
WaitingSends(s) == {c \in Clients : request[c].pc = "turn" /\ request[c].sess = s}
Working(s) ==
    \/ WaitingRuns(s) # {} \/ WaitingSends(s) # {}
    \/ session[s].givenUp + session[s].others > 0

\* A turn of the conveyor that nobody waits for any more ends: it obeyed.
GivenUpTurnEnds(s) ==
    /\ Settled
    /\ Live(s)
    /\ session[s].givenUp > 0
    /\ session' = [session EXCEPT ![s].inFlight = FALSE, ![s].givenUp = @ - 1]
    /\ UNCHANGED <<mode, task, latest, run, request, heard>>

\* The same for the turn of a person, or of a click that was given up.
OtherTurnEnds(s) ==
    /\ Settled
    /\ Live(s)
    /\ session[s].others > 0
    /\ session' = [session EXCEPT ![s].inFlight = FALSE, ![s].others = @ - 1]
    /\ UNCHANGED <<mode, task, latest, run, request, heard>>

\* The process of a session ends: every turn on it fails, and whoever was going
\* to use the session finds it dead.
SessionExits(s) ==
    /\ Settled
    /\ Live(s)
    /\ session' = [session EXCEPT ![s] = Free]
    /\ latest' = [t \in Tasks |-> [r \in Roles |->
                   IF latest[t][r] = s THEN None ELSE latest[t][r]]]
    /\ run' = [t \in Tasks |->
                CASE run[t].sess # s -> run[t]
                  [] run[t].sess = s /\ run[t].pc = "turn" -> Idle
                  [] OTHER -> [run[t] EXCEPT !.sess = None]]
    /\ request' = [c \in Clients |->
                    CASE request[c].sess # s -> request[c]
                      [] request[c].sess = s /\ request[c].pc = "turn" -> NoRequest
                      [] OTHER -> [request[c] EXCEPT !.sess = None]]
    /\ UNCHANGED <<mode, task, heard>>

\* The time a card waits for quota is over.
PauseEnds(t) ==
    /\ Settled
    /\ task[t].paused
    /\ task' = [task EXCEPT ![t].paused = FALSE]
    /\ UNCHANGED <<mode, session, latest, run, request, heard>>

\* The daemon dies and comes back: the board survives, nothing else does.
Crash ==
    /\ session' = [s \in Sessions |-> Free]
    /\ latest' = [t \in Tasks |-> [r \in Roles |-> None]]
    /\ run' = [t \in Tasks |-> Idle]
    /\ request' = [c \in Clients |-> NoRequest]
    /\ UNCHANGED <<mode, task, heard>>

-----------------------------------------------------------------------------
(* People, and what an agent may say *)

\* Writing row t as `row`: a new stage is charged with nothing.
Write(t, row) ==
    /\ task' = [task EXCEPT ![t] = row]
    /\ IF row.status = task[t].status
       THEN UNCHANGED <<run, heard>>
       ELSE /\ run' = [run EXCEPT ![t].charged = FALSE]
            /\ heard' = [heard EXCEPT ![t] = 0]

\* A drag: into a column where somebody works it also turns the autonomy off.
Move(t, status) ==
    /\ Settled
    /\ LET row == SetStatus(task[t], status)
       IN  Write(t, IF status \in HANDS_ON_COLUMNS
                    THEN [row EXCEPT !.autonomy = "off"] ELSE row)
    /\ UNCHANGED <<mode, session, latest, request>>

\* The status menu and `finish`: any column, and the autonomy stays.
PersonSetsStatus(t, status) ==
    /\ Settled
    /\ Write(t, SetStatus(task[t], status))
    /\ UNCHANGED <<mode, session, latest, request>>

\* The agent of a turn says it is done: `review`, never from a closed column.
AgentSaysReview(t) ==
    /\ Settled
    /\ \E s \in Sessions : Live(s) /\ session[s].task = t /\ Working(s)
    /\ MayWrite(task[t], "review")
    /\ Write(t, SetStatus(task[t], "review"))
    /\ UNCHANGED <<mode, session, latest, request>>

\* The switch of a card, and `stop`: the cancel that `stop` sends first changes
\* nothing here, because a turn may end at any time.
SetAutonomy(t, autonomy) ==
    /\ Settled
    /\ task' = [task EXCEPT ![t].autonomy = autonomy]
    /\ UNCHANGED <<mode, session, latest, run, request, heard>>

\* The switch of the workspace.
SetMode(new) ==
    /\ Settled
    /\ mode' = new
    /\ UNCHANGED <<task, session, latest, run, request, heard>>

\* A person types in the conversation of a card.
Chat(s) ==
    /\ Settled
    /\ Live(s)
    /\ session[s].others < MaxChats
    /\ session' = [session EXCEPT ![s].inFlight = TRUE, ![s].others = @ + 1]
    /\ task' = [task EXCEPT ![session[s].task] = Progressed(@)]
    /\ UNCHANGED <<mode, latest, run, request, heard>>

-----------------------------------------------------------------------------
(* The specification *)

\* Every step of runOne that does not wait for an agent to answer.
RunStep(t) ==
    \/ PrepareFails(t) \/ NoLongerDue(t) \/ Park(t) \/ Charge(t)
    \/ Opened(t) \/ Throws(t) \/ PromptDead(t) \/ PromptRefused(t) \/ PromptHeard(t)
    \/ TurnTimesOut(t)
    \/ JudgeUnfinished(t) \/ JudgeFinding(t) \/ Bounce(t) \/ JudgePass(t) \/ Advance(t)
    \/ BlockOff(t) \/ BlockReason(t)

TurnAnswer(t) == TurnEnds(t) \/ TurnFails(t) \/ TurnOutOfQuota(t)

SendStep(c) ==
    \/ SendOpened(c) \/ SendFails(c) \/ SendRefused(c) \/ SendHeard(c)
    \/ SendEnds(c) \/ SendTimesOut(c)

Daemon ==
    \/ Tick
    \/ \E t \in Tasks : RunStep(t) \/ TurnAnswer(t) \/ PauseEnds(t)
    \/ \E c \in Clients : SendStep(c)
    \/ \E s \in Sessions : GivenUpTurnEnds(s) \/ OtherTurnEnds(s) \/ SessionExits(s)

Person ==
    \/ \E t \in Tasks, status \in Statuses : Move(t, status) \/ PersonSetsStatus(t, status)
    \/ \E t \in Tasks, autonomy \in {"inherit", "off"} : SetAutonomy(t, autonomy)
    \/ \E new \in Modes : SetMode(new)
    \/ \E c \in Clients, t \in Tasks : Send(c, t)
    \/ \E s \in Sessions : Chat(s)

Next == Daemon \/ Person \/ Crash \/ \E t \in Tasks : AgentSaysReview(t)

Spec == Init /\ [][Next]_vars

\* What the daemon's own loops guarantee, where no update installs for ever (its
\* npm has no ceiling of time): the clock of the pass, every step of a
\* runOne (a turn has a ceiling), the end of a pause, the death of a killed
\* process - and that an agent asked to stop does stop, which is the agent's.
DaemonFairness ==
    /\ WF_vars(Tick)
    /\ \A t \in Tasks : WF_vars(RunStep(t)) /\ WF_vars(PauseEnds(t))
    /\ \A c \in Clients : WF_vars(SendStep(c))
    /\ \A s \in Sessions : WF_vars(SessionExits(s) /\ session[s].state = "closing")

AgentsObeyCancel ==
    \A s \in Sessions : WF_vars(GivenUpTurnEnds(s)) /\ WF_vars(OtherTurnEnds(s))
=============================================================================
