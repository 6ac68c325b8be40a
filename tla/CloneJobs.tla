----------------------------- MODULE CloneJobs -----------------------------
(***************************************************************************)
(* The store of clone jobs and the streams that watch them:                *)
(* packages/server/src/git/CloneJobStore.ts.  A job is a small state       *)
(* machine in memory; every change of it is published to the listeners at  *)
(* most once per window (THROTTLE_MS), the last change of a window by a    *)
(* trailing timer, the terminal one always at once.                        *)
(*                                                                         *)
(* The module gives the operations of the store; Clones says who calls     *)
(* them.  Of a job's progress (phase, percentage, message) only the number *)
(* of the last line git printed is kept.                                   *)
(***************************************************************************)
EXTENDS Naturals, Sequences

CONSTANTS
    Jobs,    \* the ids a job may get
    Subs,    \* the clients that may open a stream
    None     \* no job, no name

VARIABLES
    job,     \* state and last progress line of each job
    paced,   \* the jobs delivered less than a window ago
    timer,   \* the jobs with a trailing delivery pending
    sub      \* the streams: one `snapshots` generator each

storeVars == <<job, paced, timer, sub>>

TERMINAL == {"done", "failed", "cancelled"}
CloneStates == {"cloning", "registering"} \cup TERMINAL

\* "unused": the id has not been given out; "lost": it died with the daemon.
JobRows == [state: CloneStates \cup {"unused", "lost"}, line: Nat]
Snapshots == [state: CloneStates, line: Nat]

ALLOWED ==
    [state \in CloneStates |->
        CASE state = "cloning"     -> {"registering", "failed", "cancelled"}
          [] state = "registering" -> {"done", "failed"}
          [] OTHER                 -> {}]

Active == {j \in Jobs : job[j].state \in {"cloning", "registering"}}

\* Where a generator is: not called, suspended at `yield`, waiting for `wake`,
\* or returned.
SubRows ==
    [at: {"new", "yielded", "waiting", "gone"}, job: Jobs \cup {None},
     queue: Seq(Snapshots), got: Snapshots \cup {None}, aborted: BOOLEAN,
     woken: BOOLEAN]

NewSub ==
    [at |-> "new", job |-> None, queue |-> <<>>, got |-> None,
     aborted |-> FALSE, woken |-> FALSE]

Listening(s, j) == sub[s].job = j /\ sub[s].at \in {"yielded", "waiting"}

StoreTypeOK ==
    /\ job \in [Jobs -> JobRows]
    /\ paced \subseteq Jobs
    /\ timer \subseteq Jobs
    /\ sub \in [Subs -> SubRows]

StoreInit ==
    /\ job = [j \in Jobs |-> [state |-> "unused", line |-> 0]]
    /\ paced = {}
    /\ timer = {}
    /\ sub = [s \in Subs |-> NewSub]

-----------------------------------------------------------------------------
(* Publishing *)

\* The listeners' queues once a snapshot of the job has been emitted.
Emitted(j, snapshot) ==
    [s \in Subs |->
        IF Listening(s, j)
        THEN [sub[s] EXCEPT !.queue = Append(@, snapshot),
                            !.woken = (sub[s].at = "waiting")]
        ELSE sub[s]]

\* MUTANT of PublishPaced: what falls into the window is dropped.
PublishPacedDrops(j, snapshot) ==
    IF j \in paced
    THEN UNCHANGED <<paced, timer, sub>>
    ELSE /\ sub' = Emitted(j, snapshot)
         /\ paced' = paced \cup {j}
         /\ UNCHANGED timer

PublishPaced(j, snapshot) ==
    IF j \in paced
    THEN /\ timer' = timer \cup {j}
         /\ UNCHANGED <<paced, sub>>
    ELSE /\ sub' = Emitted(j, snapshot)
         /\ paced' = paced \cup {j}
         /\ UNCHANGED timer

\* MUTANT of PublishNow: the pending timer outlives the terminal snapshot.
PublishNowKeepsTimer(j, snapshot) ==
    /\ sub' = Emitted(j, snapshot)
    /\ paced' = paced \ {j}
    /\ UNCHANGED timer

\* Nothing is published after it, so the window it opens is not kept.
PublishNow(j, snapshot) ==
    /\ sub' = Emitted(j, snapshot)
    /\ paced' = paced \ {j}
    /\ timer' = timer \ {j}

WindowElapses(j) ==
    /\ j \in paced
    /\ paced' = paced \ {j}
    /\ UNCHANGED <<job, timer, sub>>

\* The trailing delivery: the job as it is now, not as it was when it was armed.
\* A publish that came after the window and before a timer that is late opens a
\* window of its own, inside which the timer then fires: no order is assumed.
TimerFires(j) ==
    /\ j \in timer
    /\ timer' = timer \ {j}
    /\ paced' = paced \cup {j}
    /\ sub' = Emitted(j, job[j])
    /\ UNCHANGED job

-----------------------------------------------------------------------------
(* The life of a job *)

\* Nothing is published when a job starts.
Start(j) ==
    /\ Active = {}
    /\ job[j].state = "unused"
    /\ job' = [job EXCEPT ![j].state = "cloning"]
    /\ UNCHANGED <<paced, timer, sub>>

Becomes(j, state) ==
    LET after == [job[j] EXCEPT !.state = state] IN
    /\ state \in ALLOWED[job[j].state]
    /\ job' = [job EXCEPT ![j] = after]
    /\ IF state \in TERMINAL THEN PublishNow(j, after) ELSE PublishPaced(j, after)

Progress(j) ==
    LET after == [job[j] EXCEPT !.line = @ + 1] IN
    /\ job[j].state = "cloning"
    /\ job' = [job EXCEPT ![j] = after]
    /\ PublishPaced(j, after)

\* MUTANT of MayCancel: cancelling is offered until the end.
MayCancelActive(j) == j \in Active

MayCancel(j) == job[j].state = "cloning"

-----------------------------------------------------------------------------
(* A stream *)

\* The first call of the generator: the job as it is, already yielded.
Subscribe(s, j) ==
    /\ sub[s].at = "new"
    /\ job[j].state \in CloneStates
    /\ sub' = [sub EXCEPT ![s].at = "yielded", ![s].job = j, ![s].got = job[j]]
    /\ UNCHANGED <<job, paced, timer>>

\* One turn of the inner loop: the next snapshot, or wait to be woken.
Drained(row) ==
    IF row.queue # <<>>
    THEN [row EXCEPT !.at = "yielded", !.queue = Tail(row.queue),
                     !.got = Head(row.queue)]
    ELSE [row EXCEPT !.at = "waiting"]

Gone == [NewSub EXCEPT !.at = "gone"]

\* MUTANT of Ends: the stream does not look at what it yielded.
EndsNever(row) == FALSE

\* The stream ends after yielding a terminal snapshot.
Ends(row) == row.got.state \in TERMINAL

\* The client asks for the next one.  The abort signal is not looked at here.
AskNext(s) ==
    /\ sub[s].at = "yielded"
    /\ sub' = [sub EXCEPT ![s] = IF Ends(sub[s]) THEN Gone ELSE Drained(sub[s])]
    /\ UNCHANGED <<job, paced, timer>>

Wake(s) ==
    /\ sub[s].at = "waiting"
    /\ sub[s].woken
    /\ sub' = [sub EXCEPT ![s] =
                 LET row == [sub[s] EXCEPT !.woken = FALSE]
                 IN  IF row.aborted THEN Gone ELSE Drained(row)]
    /\ UNCHANGED <<job, paced, timer>>

\* The client goes away.  It may also close the generator, which only a
\* suspended one obeys at once (Close).
Abort(s) ==
    /\ sub[s].at \in {"yielded", "waiting"}
    /\ ~sub[s].aborted
    /\ sub' = [sub EXCEPT ![s].aborted = TRUE, ![s].woken = @ \/ sub[s].at = "waiting"]
    /\ UNCHANGED <<job, paced, timer>>

CloseStream(s) ==
    /\ sub[s].at = "yielded"
    /\ sub[s].aborted
    /\ sub' = [sub EXCEPT ![s] = Gone]
    /\ UNCHANGED <<job, paced, timer>>
=============================================================================
