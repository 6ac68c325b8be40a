--------------------------- MODULE ConveyorSafety ---------------------------
(***************************************************************************)
(* What the conveyor promises.  The properties a run checks and the proofs *)
(* prove are stated here, over the state of Conveyor.                      *)
(***************************************************************************)
EXTENDS Conveyor

\* The type of every variable.
TypeOK ==
    /\ mode \in Modes
    /\ task \in [Tasks -> TaskRows]
    /\ session \in [Sessions -> SessionRows]
    /\ latest \in [Tasks -> [Roles -> Sessions \cup {None}]]
    /\ run \in [Tasks -> RunRows]
    /\ request \in [Clients -> RequestRows]
    /\ heard \in [Tasks -> Nat]

\* Counting the attempt before the prompt makes the budget survive a crash: of
\* the turns charged to the stage a card is in, never more were heard by an
\* agent than the row counts, and never more than MAX_ATTEMPTS - whatever dies
\* in between (conveyor.ts, item 2 of the header).
HeardWithinAttempts ==
    \A t \in Tasks : heard[t] <= task[t].attempts /\ heard[t] <= MAX_ATTEMPTS

\* Why it holds: the attempt is charged before the prompt (so a run that is about
\* to prompt has one attempt more than the agent heard), and a run whose stage
\* was left behind charges nothing to the new one.
Asking == {"opening", "configuring", "prompting"}

Budget(t) ==
    /\ heard[t] <= task[t].attempts
    /\ heard[t] <= MAX_ATTEMPTS
    /\ run[t].charged /\ run[t].pc \in Asking
         => heard[t] < task[t].attempts /\ heard[t] < MAX_ATTEMPTS
    /\ run[t].charged /\ run[t].pc = "turn" => heard[t] > 0
    /\ run[t].pc \in Asking \cup {"turn"} => run[t].charged \/ heard[t] = 0

BudgetInvariant == \A t \in Tasks : Budget(t)

\* The turns of the conveyor that are running on a session.
Turns(s) == session[s].givenUp + Cardinality(WaitingRuns(s))

\* The conveyor never has two turns in flight on one card, not even when it has
\* given up on one of them and the agent has not obeyed the cancel yet.
OneTurnAtATime ==
    /\ \A s \in Sessions : Turns(s) <= 1
    /\ \A s, u \in Sessions :
          Live(s) /\ Live(u) /\ session[s].task = session[u].task
            /\ Turns(s) > 0 /\ Turns(u) > 0
          => s = u

\* One conversation per card and role: a second attempt goes on in the one that
\* is alive instead of opening another (conveyor-ports.ts, openSession).
OneConversation ==
    \A s, u \in Sessions :
        Live(s) /\ Live(u) /\ session[s].task = session[u].task
          /\ session[s].role = session[u].role
        => s = u

\* The ceiling of the workspace holds over the turns that are really in flight,
\* those given up included.
CeilingHolds ==
    Cardinality({s \in Sessions : Live(s) /\ Turns(s) > 0}) <= MaxParallel

\* The machine never takes a card into a column of the person, and never takes
\* one out of a closed column (PRD of 028, section 4).
MachineKeepsToItsColumns ==
    [][\A t \in Tasks :
        task'[t].status # task[t].status /\ ~(\E status \in Statuses :
                Move(t, status) \/ PersonSetsStatus(t, status))
        => task'[t].status \in CONVEYOR_MAY_SET /\ task[t].status \notin CLOSED]_vars

\* A card that stops is out of the queue by the time it says why: a crash in the
\* middle of block() never leaves a card both blocked and due.
BlockedIsOff ==
    [][\A t \in Tasks :
        task'[t].blocked /\ ~task[t].blocked => task'[t].autonomy = "off"]_vars

\* The parked prompt is the one of the stage the card is in ("O preparo é de uma
\* etapa, não da tarefa", repositories/task.ts).
ParkedForItsStage ==
    \A t \in Tasks :
        task[t].prepared # "none" =>
            /\ task[t].status \in DueStatuses
            /\ DUE_STAGES[task[t].status].role = task[t].prepared

\* Stopping a card stops everything: no turn of the conveyor starts on a card
\* whose autonomy is off ("Parar tem que parar tudo", routers/task.ts).
StopStops ==
    [][\A t \in Tasks : PromptHeard(t) => task[t].autonomy = "inherit"]_vars

-----------------------------------------------------------------------------
(* The conveyor when people leave its agents alone *)

\* The conveyor while nobody clicks on a parked prompt, and while nobody types
\* in a conversation either: nobody else prompts its agents.
Clicked == \E c \in Clients, t \in Tasks : Send(c, t)
Typed == \E s \in Sessions : Chat(s)

UnclickedSpec == Init /\ [][Next /\ ~Clicked]_vars
UndisturbedSpec == Init /\ [][Next /\ ~Clicked /\ ~Typed]_vars

\* The conveyor of a workspace that was, and stays, assisted.
AssistedSpec == Init /\ mode = "assistido" /\ [][Next /\ UNCHANGED mode]_vars

-----------------------------------------------------------------------------
(* The belt, as the board sees it *)

\* The conveyor with nobody touching the board, and agents that do not post.
AloneSpec == Init /\ [][Daemon \/ Crash]_vars

Board == INSTANCE Belt WITH
    Cards   <- Tasks,
    stage   <- [t \in Tasks |-> task[t].status],
    stopped <- [t \in Tasks |-> task[t].autonomy = "off"]

\* Left alone, the conveyor implements the belt: whatever fails, is refused, runs
\* out of quota or crashes, a card only goes along the arrows, and a card that
\* stopped stays where it is.
BoardSpec == Board!Spec

\* Why it does: a run holds a card that did not stop, and the card is where the
\* queue's photo says, but for the first message of the turn that took it out of
\* `open` and for the return that comes just before a block.
InItsColumn(t) ==
    \/ task[t].status = run[t].status
    \/ run[t].status = "open" /\ task[t].status = "in_progress"

Held(t) ==
    /\ run[t].pc \notin {"idle", "reason"} => task[t].autonomy = "inherit"
    /\ run[t].pc \notin {"idle", "blocking", "reason"} => InItsColumn(t)
    /\ run[t].pc = "returning" => run[t].status = "review"
    /\ run[t].pc = "blocking" => task[t].status \in DueStatuses

AloneInvariant ==
    /\ \A t \in Tasks : Held(t)
    /\ \A c \in Clients : request[c].pc = "idle"

\* Between the two writes of block() nothing puts the card back in the queue.
ReasonAfterOff == \A t \in Tasks : run[t].pc = "reason" => task[t].autonomy = "off"

-----------------------------------------------------------------------------
(* Liveness *)

OnTheBelt(t) == task[t].status \in DueStatuses /\ task[t].autonomy = "inherit"

\* Every card the conveyor may take is taken to the end or stops with a reason.
CardsLeaveTheBelt == \A t \in Tasks : OnTheBelt(t) ~> ~OnTheBelt(t)
=============================================================================
