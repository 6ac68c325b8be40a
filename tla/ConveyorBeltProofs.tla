------------------------ MODULE ConveyorBeltProofs ------------------------
(***************************************************************************)
(* What the conveyor does to the board, for any number of cards: the order *)
(* of block(), the columns of the machine, and that, left alone, it        *)
(* implements Belt.                                                        *)
(***************************************************************************)
EXTENDS ConveyorProofs

-----------------------------------------------------------------------------
(* Columns, switches and blocks that a step leaves alone *)

\* A card with the same column, the same switch and the same block.
Same(t) ==
    /\ task'[t].status = task[t].status
    /\ task'[t].autonomy = task[t].autonomy
    /\ task'[t].blocked = task[t].blocked

\* What each write of a row does to its column, its switch and its block.
LEMMA RowColumns ==
    ASSUME NEW row \in TaskRows, NEW carries, NEW status
    PROVE  /\ Unparked(row).status = row.status
           /\ Unparked(row).autonomy = row.autonomy
           /\ Hear(row, carries).autonomy = row.autonomy
           /\ Progressed(row).autonomy = row.autonomy
           /\ RefuseForQuota(row).status = row.status
           /\ RefuseForQuota(row).autonomy = row.autonomy
           /\ SetStatus(row, status).autonomy = row.autonomy
           /\ SetStatus(row, status).status = status
           /\ CountBounce(row).autonomy = row.autonomy
           /\ CountBounce(row).status = "in_progress"
           /\ Progressed(row).status = IF row.status = "open" THEN "in_progress" ELSE row.status
           /\ Hear(row, carries).status = Progressed(row).status
           /\ Unparked(row).blocked = row.blocked
           /\ Hear(row, carries).blocked = row.blocked
           /\ Progressed(row).blocked = row.blocked
           /\ RefuseForQuota(row).blocked = row.blocked
           /\ CountBounce(row).blocked = row.blocked
           /\ SetStatus(row, status).blocked => row.blocked
BY DEF Unparked, Hear, Progressed, RefuseForQuota, SetStatus, EnterStage, CountBounce,
       TaskRows

\* The steps of a run that leave all three alone.
QuietRun(t) ==
    \/ PrepareFails(t) \/ NoLongerDue(t) \/ Park(t) \/ Charge(t) \/ Opened(t)
    \/ Throws(t) \/ PromptDead(t) \/ PromptRefused(t) \/ TurnTimesOut(t)
    \/ JudgeUnfinished(t) \/ JudgeFinding(t) \/ JudgePass(t)
    \/ TurnEnds(t) \/ TurnFails(t) \/ TurnOutOfQuota(t) \/ PauseEnds(t)

\* They do.
LEMMA QuietRuns ==
    ASSUME TypeOK, NEW t \in Tasks, QuietRun(t), NEW u \in Tasks
    PROVE  Same(u)
<1>1. CASE TurnOutOfQuota(t)
  <2>1. \/ task'[u] = task[u]
        \/ task'[u] = RefuseForQuota(task[u])
        \/ task'[u] = [RefuseForQuota(task[u]) EXCEPT !.paused = TRUE]
    BY <1>1, ZenonT(30) DEF TurnOutOfQuota, TypeOK
  <2>2. RefuseForQuota(task[u]) \in TaskRows
    BY StateTypes, RowTypes DEF Statuses
  <2>3. /\ [RefuseForQuota(task[u]) EXCEPT !.paused = TRUE].status
             = RefuseForQuota(task[u]).status
        /\ [RefuseForQuota(task[u]) EXCEPT !.paused = TRUE].autonomy
             = RefuseForQuota(task[u]).autonomy
        /\ [RefuseForQuota(task[u]) EXCEPT !.paused = TRUE].blocked
             = RefuseForQuota(task[u]).blocked
    BY <2>2 DEF TaskRows
  <2>4. /\ RefuseForQuota(task[u]).status = task[u].status
        /\ RefuseForQuota(task[u]).autonomy = task[u].autonomy
        /\ RefuseForQuota(task[u]).blocked = task[u].blocked
    BY StateTypes, RowColumns
  <2> QED
    BY <2>1, <2>3, <2>4 DEF Same
<1>2. CASE UNCHANGED task
  BY <1>2 DEF Same
<1>3. CASE TurnEnds(t) \/ TurnTimesOut(t)
  <2>1. task'[u] = task[u] \/ task'[u] = [task[u] EXCEPT !.paused = FALSE, !.refusals = 0]
    BY <1>3, ZenonT(30) DEF TurnEnds, TurnTimesOut, ClearPause, TypeOK
  <2> QED
    BY <2>1, StateTypes DEF Same, TaskRows
<1>4. CASE PrepareFails(t)
  BY <1>4 DEF PrepareFails, Same, TypeOK, TaskRows
<1>5. CASE Park(t)
  BY <1>5 DEF Park, Same, TypeOK, TaskRows
<1>6. CASE Charge(t)
  BY <1>6 DEF Charge, Same, TypeOK, TaskRows
<1>7. CASE JudgeFinding(t)
  BY <1>7 DEF JudgeFinding, Same, TypeOK, TaskRows
<1>8. CASE PauseEnds(t)
  BY <1>8 DEF PauseEnds, Same, TypeOK, TaskRows
<1> QED
  BY <1>1, <1>2, <1>3, <1>4, <1>5, <1>6, <1>7, <1>8
     DEF QuietRun, NoLongerDue, Opened, Throws, PromptDead, PromptRefused,
         JudgeUnfinished, JudgePass, TurnFails

\* So do the steps of a click, but for its first message, which may take the card
\* out of `open`.
LEMMA SendSteps ==
    ASSUME TypeOK, NEW c \in Clients, SendStep(c), NEW u \in Tasks
    PROVE  /\ UNCHANGED run
           /\ task'[u].autonomy = task[u].autonomy
           /\ task'[u].blocked = task[u].blocked
           /\ \/ task'[u].status = task[u].status
              \/ task[u].status = "open" /\ task'[u].status = "in_progress"
<1>1. CASE SendHeard(c)
  <2>1. Unparked(task[u]) \in TaskRows
    BY StateTypes, RowTypes DEF Statuses
  <2>2. task'[u] = task[u] \/ task'[u] = Hear(Unparked(task[u]), request[c].carries)
    BY <1>1 DEF SendHeard, TypeOK
  <2> QED
    BY <1>1, <2>1, <2>2, StateTypes, RowColumns DEF SendHeard
<1>2. CASE SendRefused(c)
  <2>1. task'[u] = task[u] \/ task'[u] = Unparked(task[u])
    BY <1>2 DEF SendRefused, TypeOK
  <2> QED
    BY <1>2, <2>1, StateTypes, RowColumns DEF SendRefused
<1> QED
  BY <1>1, <1>2 DEF SendStep, SendOpened, SendFails, SendEnds, SendTimesOut

\* What the other steps of the machine write on a card.
LEMMA MovingSteps ==
    ASSUME TypeOK, NEW t \in Tasks
    PROVE  /\ PromptHeard(t) =>
                task' = [task EXCEPT ![t] = Hear(task[t], run[t].carries)]
           /\ Bounce(t) =>
                \/ UNCHANGED task
                \/ MayBounce(task[t]) /\ task' = [task EXCEPT ![t] = CountBounce(task[t])]
           /\ Advance(t) =>
                LET next == NEXT_STAGE[run[t].status]
                IN  \/ UNCHANGED task
                    \/ /\ MayWrite(task[t], next)
                       /\ task' = [task EXCEPT ![t] = SetStatus(task[t], next)]
           /\ BlockOff(t) => task' = [task EXCEPT ![t] = [task[t] EXCEPT !.autonomy = "off"]]
           /\ BlockReason(t) => task' = [task EXCEPT ![t] = [task[t] EXCEPT !.blocked = TRUE]]
BY DEF PromptHeard, Bounce, Advance, BlockOff, BlockReason

\* A drag, a choice in the menu or an agent's `review` writes one row.
LEMMA Writes ==
    ASSUME TypeOK, NEW t \in Tasks, NEW row, Write(t, row), NEW u \in Tasks
    PROVE  /\ task'[u] = IF u = t THEN row ELSE task[u]
           /\ run'[u].pc = run[u].pc
           /\ run'[u].status = run[u].status
<1>1. task'[u] = IF u = t THEN row ELSE task[u]
  BY DEF Write, TypeOK
<1>2. run'[u] = run[u] \/ run'[u] = [run[u] EXCEPT !.charged = FALSE]
  BY ZenonT(30) DEF Write, TypeOK
<1> QED
  BY <1>1, <1>2, StateTypes DEF RunRows

\* A step of a run leaves the other runs and the other cards alone.
LEMMA OtherCards ==
    ASSUME TypeOK, NEW t \in Tasks, RunStep(t) \/ TurnAnswer(t) \/ PauseEnds(t),
           NEW u \in Tasks, u # t
    PROVE  task'[u] = task[u] /\ run'[u] = run[u]
<1>1. CASE \/ PrepareFails(t) \/ NoLongerDue(t) \/ Park(t) \/ Charge(t) \/ Opened(t)
           \/ Throws(t) \/ PromptDead(t) \/ PromptRefused(t) \/ PromptHeard(t)
  BY <1>1 DEF PrepareFails, NoLongerDue, Park, Charge, Opened, Throws, PromptDead,
              PromptRefused, PromptHeard, TypeOK
<1>2. CASE \/ TurnTimesOut(t) \/ JudgeUnfinished(t) \/ JudgeFinding(t) \/ JudgePass(t)
           \/ TurnEnds(t) \/ TurnFails(t) \/ PauseEnds(t)
  BY <1>2 DEF TurnTimesOut, JudgeUnfinished, JudgeFinding, JudgePass, AfterUnfinished,
              TurnEnds, TurnFails, PauseEnds, ClearPause, TypeOK
<1>3. CASE TurnOutOfQuota(t) \/ Bounce(t)
  BY <1>3 DEF TurnOutOfQuota, Bounce, TypeOK
<1>4. CASE Advance(t) \/ BlockOff(t) \/ BlockReason(t)
  BY <1>4 DEF Advance, BlockOff, BlockReason, TypeOK
<1> QED
  BY <1>1, <1>2, <1>3, <1>4 DEF RunStep, TurnAnswer

\* Where a step of a run leaves the run.
LEMMA RunGoes ==
    ASSUME TypeOK, NEW t \in Tasks
    PROVE  /\ \/ PrepareFails(t) \/ TurnTimesOut(t) \/ JudgeUnfinished(t)
              \/ TurnOutOfQuota(t) \/ Bounce(t)
              => run'[t].pc \in {"idle", "blocking"}
           /\ \/ NoLongerDue(t) \/ Park(t) \/ Throws(t) \/ PromptDead(t)
              \/ TurnFails(t) \/ Advance(t) \/ BlockReason(t)
              => run'[t].pc = "idle"
           /\ Charge(t) => run'[t].pc \in {"blocking", "prompting", "opening"}
           /\ Opened(t) => run'[t].pc = "configuring"
           /\ PromptRefused(t) => run'[t].pc = "blocking"
           /\ PromptHeard(t) => run'[t].pc = "turn"
           /\ TurnEnds(t) => run'[t].pc = "judging"
           /\ JudgeFinding(t) => run'[t].pc = "returning"
           /\ JudgePass(t) => run'[t].pc = "publishing"
           /\ BlockOff(t) => run'[t].pc = "reason"
           /\ PauseEnds(t) => run'[t].pc = run[t].pc
<1>1. /\ [run[t] EXCEPT !.pc = "blocking"].pc = "blocking"
      /\ [run[t] EXCEPT !.pc = "blocking", !.charged = FALSE].pc = "blocking"
  BY StateTypes DEF RunRows
<1>2. Idle.pc = "idle"
  BY DEF Idle
<1>3. \/ PrepareFails(t) \/ TurnTimesOut(t) \/ JudgeUnfinished(t)
      \/ TurnOutOfQuota(t) \/ Bounce(t)
      => \/ run'[t] = Idle
         \/ run'[t] = [run[t] EXCEPT !.pc = "blocking"]
         \/ run'[t] = [run[t] EXCEPT !.pc = "blocking", !.charged = FALSE]
  BY DEF PrepareFails, TurnTimesOut, JudgeUnfinished, TurnOutOfQuota, Bounce,
         AfterUnfinished, TypeOK
<1>4. \/ NoLongerDue(t) \/ Park(t) \/ Throws(t) \/ PromptDead(t)
      \/ TurnFails(t) \/ Advance(t) \/ BlockReason(t)
      => run'[t] = Idle
  BY DEF NoLongerDue, Park, Throws, PromptDead, TurnFails, Advance, BlockReason, TypeOK
<1>5. Charge(t) => run'[t].pc \in {"blocking", "prompting", "opening"}
  BY DEF Charge, TypeOK, RunRows
<1>6. /\ Opened(t) => run'[t].pc = "configuring"
      /\ PromptRefused(t) => run'[t].pc = "blocking"
      /\ PromptHeard(t) => run'[t].pc = "turn"
      /\ TurnEnds(t) => run'[t].pc = "judging"
  BY DEF Opened, PromptRefused, PromptHeard, TurnEnds, TypeOK, RunRows
<1>7. /\ JudgeFinding(t) => run'[t].pc = "returning"
      /\ JudgePass(t) => run'[t].pc = "publishing"
      /\ BlockOff(t) => run'[t].pc = "reason"
      /\ PauseEnds(t) => run'[t].pc = run[t].pc
  BY DEF JudgeFinding, JudgePass, BlockOff, PauseEnds, TypeOK, RunRows
<1>8. \/ PrepareFails(t) \/ TurnTimesOut(t) \/ JudgeUnfinished(t)
      \/ TurnOutOfQuota(t) \/ Bounce(t)
      => run'[t].pc \in {"idle", "blocking"}
  BY <1>1, <1>2, <1>3
<1> QED
  BY <1>2, <1>4, <1>5, <1>6, <1>7, <1>8

\* The row a drag writes.
LEMMA DragsKeepBelt ==
    ASSUME TypeOK, NEW t \in Tasks, NEW status \in Statuses, Move(t, status), NEW u \in Tasks
    PROVE  /\ run'[u].pc = run[u].pc
           /\ u # t => task'[u] = task[u]
           /\ task'[u].autonomy \in {task[u].autonomy, "off"}
           /\ task'[u].blocked => task[u].blocked
<1> DEFINE row == SetStatus(task[t], status)
           hands == [row EXCEPT !.autonomy = "off"]
<1>1. row \in TaskRows /\ row.autonomy = task[t].autonomy /\ (row.blocked => task[t].blocked)
  <2>1. task[t] \in TaskRows
    BY StateTypes
  <2>2. row \in TaskRows
    BY <2>1, RowTypes
  <2>3. row.autonomy = task[t].autonomy /\ (row.blocked => task[t].blocked)
    BY <2>1, RowColumns
  <2> QED
    BY <2>2, <2>3
<1>2. hands.autonomy = "off" /\ hands.blocked = row.blocked
  BY <1>1 DEF TaskRows
<1>3. Write(t, row) \/ Write(t, hands)
  BY DEF Move
<1> HIDE DEF row, hands
<1> QED
  BY <1>1, <1>2, <1>3, Writes

-----------------------------------------------------------------------------
(* The order of block() *)

\* Between the two writes of block() nobody turns the card back on.
LEMMA ReasonStep == TypeOK /\ ReasonAfterOff /\ [Next]_vars => ReasonAfterOff'
<1> SUFFICES ASSUME TypeOK, ReasonAfterOff, [Next]_vars,
                    NEW u \in Tasks, run'[u].pc = "reason"
             PROVE  task'[u].autonomy = "off"
  BY DEF ReasonAfterOff
<1>1. ASSUME run'[u].pc = run[u].pc, task'[u].autonomy \in {task[u].autonomy, "off"}
      PROVE  task'[u].autonomy = "off"
  BY <1>1 DEF ReasonAfterOff
<1>2. ASSUME NEW t \in Tasks, QuietRun(t) PROVE task'[u].autonomy = "off"
  <2>1. run'[u].pc = run[u].pc
    BY <1>2, RunGoes, OtherCards DEF QuietRun, RunStep, TurnAnswer
  <2> QED
    BY <1>1, <1>2, <2>1, QuietRuns DEF Same
<1>3. ASSUME NEW t \in Tasks, PromptHeard(t) \/ Bounce(t) \/ Advance(t)
      PROVE  task'[u].autonomy = "off"
  <2>1. run'[u].pc = run[u].pc
    BY <1>3, RunGoes, OtherCards DEF RunStep
  <2>2. task'[u].autonomy = task[u].autonomy
    <3>1. \/ task'[u] = task[u]
          \/ task'[u] = Hear(task[u], run[u].carries)
          \/ task'[u] = CountBounce(task[u])
          \/ task'[u] = SetStatus(task[u], NEXT_STAGE[run[u].status])
      BY <1>3, MovingSteps DEF TypeOK
    <3> QED
      BY <3>1, StateTypes, RowColumns
  <2> QED
    BY <1>1, <2>1, <2>2
<1>4. ASSUME NEW t \in Tasks, BlockOff(t) \/ BlockReason(t) PROVE task'[u].autonomy = "off"
  <2>1. CASE u = t
    <3>1. ~BlockReason(t)
      BY <2>1, RunGoes
    <3> QED
      BY <1>4, <2>1, <3>1 DEF BlockOff, TypeOK, TaskRows
  <2>2. CASE u # t
    BY <1>1, <1>4, <2>2, OtherCards DEF RunStep
  <2> QED
    BY <2>1, <2>2
<1>5. ASSUME NEW c \in Clients, SendStep(c) PROVE task'[u].autonomy = "off"
  BY <1>1, <1>5, SendSteps
<1>6. ASSUME Tick PROVE task'[u].autonomy = "off"
  <2>1. run'[u] = run[u]
    BY <1>6, ZenonT(30) DEF Tick, Started, Idle
  <2> QED
    BY <1>1, <1>6, <2>1 DEF Tick
<1>7. ASSUME NEW s \in Sessions, SessionExits(s) PROVE task'[u].autonomy = "off"
  <2>1. run'[u].pc = run[u].pc
    BY <1>7, StateTypes DEF SessionExits, RunRows, Idle
  <2> QED
    BY <1>1, <1>7, <2>1 DEF SessionExits
<1>8. ~Crash
  BY DEF Crash, Idle
<1>9. ASSUME NEW t \in Tasks, NEW status \in Statuses, Move(t, status)
      PROVE  task'[u].autonomy = "off"
  BY <1>1, <1>9, DragsKeepBelt
<1>10. ASSUME NEW t \in Tasks, NEW status \in Statuses,
              PersonSetsStatus(t, status) \/ AgentSaysReview(t)
       PROVE  task'[u].autonomy = "off"
  <2>1. PICK to : Write(t, SetStatus(task[t], to))
    BY <1>10 DEF PersonSetsStatus, AgentSaysReview
  <2> QED
    BY <1>1, <2>1, StateTypes, Writes, RowColumns
<1>11. ASSUME NEW t \in Tasks, NEW autonomy, SetAutonomy(t, autonomy)
       PROVE  task'[u].autonomy = "off"
  BY <1>11 DEF SetAutonomy, Settled
<1>12. ASSUME NEW s \in Sessions, Chat(s) PROVE task'[u].autonomy = "off"
  <2>1. task'[u] = task[u] \/ task'[u] = Progressed(task[u])
    BY <1>12 DEF Chat, TypeOK
  <2> QED
    BY <1>1, <1>12, <2>1, StateTypes, RowColumns DEF Chat
<1>13. ASSUME UNCHANGED <<task, run>> PROVE task'[u].autonomy = "off"
  BY <1>1, <1>13
<1>14. "review" \in Statuses
  BY DEF Statuses, DueStatuses
<1> QED
  BY <1>2, <1>3, <1>4, <1>5, <1>6, <1>7, <1>8, <1>9, <1>10, <1>11, <1>12, <1>13, <1>14
     DEF Next, Daemon, RunStep, TurnAnswer, Person, QuietRun, GivenUpTurnEnds,
         OtherTurnEnds, SetMode, Send, vars

\* A card that says why it stopped is out of the queue when it says it, for any
\* crash in the middle of block() and anything a person does meanwhile
\* (conveyor.ts, 361-364).
THEOREM BlockedOff == Spec => BlockedIsOff
<1>1. Init => ReasonAfterOff
  BY DEF Init, ReasonAfterOff, Idle
<1>2. TypeOK /\ ReasonAfterOff /\ [Next]_vars =>
        [\A t \in Tasks :
            task'[t].blocked /\ ~task[t].blocked => task'[t].autonomy = "off"]_vars
  <2> SUFFICES ASSUME TypeOK, ReasonAfterOff, Next,
                      NEW u \in Tasks, task'[u].blocked, ~task[u].blocked
               PROVE  task'[u].autonomy = "off"
    BY DEF vars
  <2>1. ASSUME NEW t \in Tasks, BlockReason(t) PROVE task'[u].autonomy = "off"
    <3>1. u = t
      BY <2>1, OtherCards DEF RunStep
    <3>2. task'[t].autonomy = task[t].autonomy
      BY <2>1 DEF BlockReason, TypeOK, TaskRows
    <3> QED
      BY <2>1, <3>1, <3>2 DEF BlockReason, ReasonAfterOff
  <2>2. ASSUME NEW t \in Tasks, BlockOff(t) PROVE FALSE
    BY <2>2 DEF BlockOff, TypeOK, TaskRows
  <2>3. ASSUME NEW t \in Tasks, PromptHeard(t) \/ Bounce(t) \/ Advance(t) PROVE FALSE
    <3>1. \/ task'[u] = task[u]
          \/ task'[u] = Hear(task[u], run[u].carries)
          \/ task'[u] = CountBounce(task[u])
          \/ task'[u] = SetStatus(task[u], NEXT_STAGE[run[u].status])
      BY <2>3, MovingSteps DEF TypeOK
    <3> QED
      BY <3>1, StateTypes, RowColumns
  <2>4. ASSUME NEW t \in Tasks, NEW status \in Statuses,
               Move(t, status) \/ PersonSetsStatus(t, status) \/ AgentSaysReview(t)
        PROVE  FALSE
    <3>1. CASE Move(t, status)
      BY <3>1, DragsKeepBelt
    <3>2. CASE PersonSetsStatus(t, status) \/ AgentSaysReview(t)
      <4>1. PICK to : Write(t, SetStatus(task[t], to))
        BY <3>2 DEF PersonSetsStatus, AgentSaysReview
      <4> QED
        BY <4>1, StateTypes, Writes, RowColumns
    <3> QED
      BY <2>4, <3>1, <3>2
  <2>5. ASSUME NEW s \in Sessions, Chat(s) PROVE FALSE
    <3>1. task'[u] = task[u] \/ task'[u] = Progressed(task[u])
      BY <2>5 DEF Chat, TypeOK
    <3> QED
      BY <3>1, StateTypes, RowColumns
  <2>6. ASSUME NEW t \in Tasks, NEW autonomy, SetAutonomy(t, autonomy) PROVE FALSE
    BY <2>6 DEF SetAutonomy, TypeOK, TaskRows
  <2>7. ASSUME NEW t \in Tasks, QuietRun(t) PROVE FALSE
    BY <2>7, QuietRuns DEF Same
  <2>8. ASSUME NEW c \in Clients, SendStep(c) PROVE FALSE
    BY <2>8, SendSteps
  <2>9. ~UNCHANGED task
    OBVIOUS
  <2>10. "review" \in Statuses
    BY DEF Statuses, DueStatuses
  <2> QED
    BY <2>1, <2>2, <2>3, <2>4, <2>5, <2>6, <2>7, <2>8, <2>9, <2>10
       DEF Next, Daemon, RunStep, TurnAnswer, Person, QuietRun, Tick, GivenUpTurnEnds,
           OtherTurnEnds, SessionExits, Crash, SetMode, Send
<1> QED
  BY <1>1, <1>2, Types, ReasonStep, PTL DEF Spec, BlockedIsOff

-----------------------------------------------------------------------------
(* The columns of the machine *)

\* Only a person takes a card into a column that is not the machine's, or out of
\* a closed one: routers and MCP go through requireMayWrite, the return through
\* the CHECK of the table, and the first message of a turn only leaves `open`
\* (repositories/task.ts, 319-356).
THEOREM OwnColumns == Spec => MachineKeepsToItsColumns
<1>1. TypeOK /\ [Next]_vars =>
        [\A t \in Tasks :
            task'[t].status # task[t].status /\ ~(\E status \in Statuses :
                    Move(t, status) \/ PersonSetsStatus(t, status))
            => task'[t].status \in CONVEYOR_MAY_SET /\ task[t].status \notin CLOSED]_vars
  <2> SUFFICES ASSUME TypeOK, Next, NEW u \in Tasks, task'[u].status # task[u].status,
                      ~\E status \in Statuses : Move(u, status) \/ PersonSetsStatus(u, status)
               PROVE  task'[u].status \in CONVEYOR_MAY_SET /\ task[u].status \notin CLOSED
    BY DEF vars
  <2> DEFINE Goal == task'[u].status \in CONVEYOR_MAY_SET /\ task[u].status \notin CLOSED
  <2>1. ASSUME task[u].status = "open", task'[u].status = "in_progress" PROVE Goal
    BY <2>1 DEF CONVEYOR_MAY_SET, CLOSED
  <2>2. ASSUME NEW t \in Tasks, PromptHeard(t) PROVE Goal
    <3>1. task'[u] = task[u] \/ task'[u] = Hear(task[u], run[u].carries)
      BY <2>2, MovingSteps DEF TypeOK
    <3>2. Hear(task[u], run[u].carries).status
            = IF task[u].status = "open" THEN "in_progress" ELSE task[u].status
      BY StateTypes, RowColumns
    <3> QED
      BY <2>1, <3>1, <3>2
  <2>3. ASSUME NEW t \in Tasks, Bounce(t) PROVE Goal
    <3>1. MayBounce(task[u]) /\ task'[u] = CountBounce(task[u])
      BY <2>3, MovingSteps DEF TypeOK
    <3> QED
      BY <3>1, StateTypes, RowColumns DEF MayBounce, CONVEYOR_MAY_SET
  <2>4. ASSUME NEW t \in Tasks, Advance(t) PROVE Goal
    <3> DEFINE next == NEXT_STAGE[run[u].status]
    <3>1. MayWrite(task[u], next) /\ task'[u] = SetStatus(task[u], next)
      BY <2>4, MovingSteps, ZenonT(30) DEF TypeOK
    <3> HIDE DEF next
    <3> QED
      BY <3>1, StateTypes, RowColumns DEF MayWrite
  <2>5. ASSUME NEW t \in Tasks, AgentSaysReview(t) PROVE Goal
    <3>1. MayWrite(task[t], "review") /\ Write(t, SetStatus(task[t], "review"))
      BY <2>5 DEF AgentSaysReview
    <3>2. task'[u] = IF u = t THEN SetStatus(task[t], "review") ELSE task[u]
      BY <3>1, Writes
    <3>3. SetStatus(task[t], "review").status = "review"
      BY StateTypes, RowColumns
    <3> QED
      BY <3>1, <3>2, <3>3 DEF MayWrite
  <2>6. ASSUME NEW s \in Sessions, Chat(s) PROVE Goal
    <3>1. task'[u] = task[u] \/ task'[u] = Progressed(task[u])
      BY <2>6 DEF Chat, TypeOK
    <3>2. Progressed(task[u]).status
            = IF task[u].status = "open" THEN "in_progress" ELSE task[u].status
      BY StateTypes, RowColumns
    <3> QED
      BY <2>1, <3>1, <3>2
  <2>7. ASSUME NEW c \in Clients, SendStep(c) PROVE Goal
    BY <2>1, <2>7, SendSteps
  <2>8. ASSUME NEW t \in Tasks, NEW status \in Statuses,
               Move(t, status) \/ PersonSetsStatus(t, status)
        PROVE  FALSE
    <3>1. u # t
      BY <2>8
    <3>2. PICK row : Write(t, row)
      BY <2>8 DEF Move, PersonSetsStatus
    <3> QED
      BY <3>1, <3>2, Writes
  <2>9. ASSUME NEW t \in Tasks, QuietRun(t) PROVE FALSE
    BY <2>9, QuietRuns DEF Same
  <2>10. ASSUME NEW t \in Tasks, BlockOff(t) \/ BlockReason(t) PROVE FALSE
    <3>1. CASE BlockOff(t)
      BY <3>1 DEF BlockOff, TypeOK, TaskRows
    <3>2. CASE BlockReason(t)
      BY <3>2 DEF BlockReason, TypeOK, TaskRows
    <3> QED
      BY <2>10, <3>1, <3>2
  <2>11. ASSUME NEW t \in Tasks, NEW autonomy, SetAutonomy(t, autonomy) PROVE FALSE
    BY <2>11 DEF SetAutonomy, TypeOK, TaskRows
  <2>12. ~UNCHANGED task
    OBVIOUS
  <2> HIDE DEF Goal
  <2>13. Goal
    BY <2>2, <2>3, <2>4, <2>5, <2>6, <2>7, <2>8, <2>9, <2>10, <2>11, <2>12
       DEF Next, Daemon, RunStep, TurnAnswer, Person, QuietRun, Tick, GivenUpTurnEnds,
           OtherTurnEnds, SessionExits, Crash, SetMode, Send
  <2> QED
    BY <2>13 DEF Goal
<1> QED
  BY <1>1, Types, PTL DEF Spec, MachineKeepsToItsColumns

-----------------------------------------------------------------------------
(* Left alone, the conveyor implements the belt *)

\* Where a step of a run starts, and that it keeps the photo of the queue.
LEMMA RunComes ==
    ASSUME TypeOK, NEW t \in Tasks
    PROVE  /\ QuietRun(t) => PauseEnds(t) \/ run[t].pc \notin {"idle", "blocking", "reason"}
           /\ RunStep(t) \/ TurnAnswer(t) \/ PauseEnds(t)
                => run'[t].status = run[t].status \/ run'[t].pc = "idle"
           /\ JudgeFinding(t) => run[t].status = "review"
           /\ Bounce(t) => run[t].pc = "returning"
           /\ PromptHeard(t) => run[t].pc \in {"configuring", "prompting"}
           /\ Advance(t) => run[t].pc \in {"judging", "publishing"}
<1>1. QuietRun(t) => PauseEnds(t) \/ run[t].pc \notin {"idle", "blocking", "reason"}
  BY DEF QuietRun, PrepareFails, NoLongerDue, Park, Charge, Opened, Throws, PromptDead,
         PromptRefused, Ready, TurnTimesOut, JudgeUnfinished, JudgeFinding, JudgePass,
         TurnEnds, TurnFails, TurnOutOfQuota
<1>2. JudgeFinding(t) => run[t].status = "review"
  <2>1. run[t].status \in DueStatuses
    BY StateTypes DEF RunRows
  <2> QED
    BY <2>1 DEF JudgeFinding, Role, DUE_STAGES, DueStatuses
<1>3. /\ Bounce(t) => run[t].pc = "returning"
      /\ PromptHeard(t) => run[t].pc \in {"configuring", "prompting"}
      /\ Advance(t) => run[t].pc \in {"judging", "publishing"}
  BY DEF Bounce, PromptHeard, Ready, Advance
<1>4. ASSUME RunStep(t) \/ TurnAnswer(t) \/ PauseEnds(t), run'[t].pc # "idle"
      PROVE  run'[t].status = run[t].status
  <2>1. /\ [run[t] EXCEPT !.pc = "blocking"].status = run[t].status
        /\ [run[t] EXCEPT !.pc = "blocking", !.charged = FALSE].status = run[t].status
    BY StateTypes DEF RunRows
  <2>2. run'[t] # Idle
    BY <1>4 DEF Idle
  <2>3. CASE \/ PrepareFails(t) \/ TurnTimesOut(t) \/ JudgeUnfinished(t)
             \/ TurnOutOfQuota(t) \/ Bounce(t)
    <3>1. \/ run'[t] = [run[t] EXCEPT !.pc = "blocking"]
          \/ run'[t] = [run[t] EXCEPT !.pc = "blocking", !.charged = FALSE]
      BY <2>2, <2>3 DEF PrepareFails, TurnTimesOut, JudgeUnfinished, TurnOutOfQuota, Bounce,
                 AfterUnfinished, TypeOK
    <3> QED
      BY <2>1, <3>1
  <2>4. CASE \/ NoLongerDue(t) \/ Park(t) \/ Throws(t) \/ PromptDead(t)
             \/ TurnFails(t) \/ Advance(t) \/ BlockReason(t)
    BY <1>4, <2>4, RunGoes
  <2>5. CASE Charge(t)
    BY <2>5 DEF Charge, TypeOK, RunRows
  <2>6. CASE Opened(t) \/ PromptRefused(t) \/ PromptHeard(t)
    BY <2>6 DEF Opened, PromptRefused, PromptHeard, TypeOK, RunRows
  <2>7. CASE TurnEnds(t) \/ JudgeFinding(t)
    BY <2>7 DEF TurnEnds, JudgeFinding, TypeOK, RunRows
  <2>8. CASE JudgePass(t) \/ BlockOff(t) \/ PauseEnds(t)
    BY <2>8 DEF JudgePass, BlockOff, PauseEnds, TypeOK, RunRows
  <2> QED
    BY <1>4, <2>3, <2>4, <2>5, <2>6, <2>7, <2>8 DEF RunStep, TurnAnswer
<1> QED
  BY <1>1, <1>2, <1>3, <1>4

\* The first message of a turn of the conveyor.
LEMMA HeardColumns ==
    ASSUME TypeOK, NEW t \in Tasks, PromptHeard(t)
    PROVE  /\ task'[t].autonomy = task[t].autonomy
           /\ task'[t].status
                = IF task[t].status = "open" THEN "in_progress" ELSE task[t].status
<1>1. task'[t] = Hear(task[t], run[t].carries)
  BY MovingSteps DEF TypeOK
<1> QED
  BY <1>1, StateTypes, RowColumns, SMTT(30)

\* A run keeps holding its card.
LEMMA HeldStep ==
    TypeOK /\ AloneInvariant /\ [Daemon \/ Crash]_vars => AloneInvariant'
<1> SUFFICES ASSUME TypeOK, AloneInvariant, [Daemon \/ Crash]_vars PROVE AloneInvariant'
  OBVIOUS
<1>1. ASSUME NEW c \in Clients PROVE ~SendStep(c)
  BY DEF AloneInvariant, SendStep, SendOpened, SendFails, SendRefused, SendHeard,
         SendReady, SendEnds, SendTimesOut
<1>2. ASSUME NEW c \in Clients PROVE request'[c].pc = "idle"
  <2>1. request[c].pc = "idle" /\ request[c] \in RequestRows
    BY StateTypes DEF AloneInvariant
  <2>2. [request[c] EXCEPT !.sess = None].pc = "idle" /\ NoRequest.pc = "idle"
    BY <2>1 DEF RequestRows, NoRequest
  <2>3. \/ request'[c] = request[c]
        \/ request'[c] = NoRequest
        \/ request'[c] = [request[c] EXCEPT !.sess = None]
    <3>1. ASSUME NEW s \in Sessions, SessionExits(s)
          PROVE  \/ request'[c] = request[c]
                 \/ request'[c] = NoRequest
                 \/ request'[c] = [request[c] EXCEPT !.sess = None]
      BY <3>1 DEF SessionExits
    <3>2. CASE Crash
      BY <3>2 DEF Crash
    <3>3. CASE UNCHANGED request
      BY <3>3
    <3>4. ASSUME NEW t \in Tasks, RunStep(t) PROVE UNCHANGED request
      BY <3>4
         DEF RunStep, PrepareFails, NoLongerDue, Park, Charge, Opened, Throws, PromptDead,
             PromptRefused, PromptHeard, TurnTimesOut, JudgeUnfinished, JudgeFinding,
             Bounce, JudgePass, Advance, BlockOff, BlockReason
    <3>5. ASSUME NEW t \in Tasks, TurnAnswer(t) \/ PauseEnds(t) PROVE UNCHANGED request
      BY <3>5 DEF TurnAnswer, PauseEnds, TurnEnds, TurnFails, TurnOutOfQuota
    <3> QED
      BY <1>1, <3>1, <3>2, <3>3, <3>4, <3>5
         DEF Daemon, Tick, GivenUpTurnEnds, OtherTurnEnds, vars
  <2> QED
    BY <2>1, <2>2, <2>3
<1>3. ASSUME NEW u \in Tasks PROVE Held(u)'
  <2>1. Held(u) /\ run[u] \in RunRows
    BY StateTypes DEF AloneInvariant
  <2>2. ASSUME task'[u].status = task[u].status, task'[u].autonomy = task[u].autonomy,
               \/ run'[u].pc = "idle"
               \/ run'[u].pc = run[u].pc /\ run'[u].status = run[u].status
        PROVE  Held(u)'
    BY <2>1, <2>2 DEF Held, InItsColumn
  <2>3. ASSUME Tick PROVE Held(u)'
    <3>1. CASE run'[u] = run[u]
      BY <2>2, <2>3, <3>1 DEF Tick
    <3>2. CASE Candidate(u) /\ run'[u] = Started(u)
      <4>1. run'[u].pc = "preparing" /\ run'[u].status = task[u].status
        BY <3>2 DEF Started, Idle
      <4> QED
        BY <2>3, <3>2, <4>1 DEF Tick, Candidate, Held, InItsColumn
    <3> QED
      BY <2>3, <3>1, <3>2 DEF Tick, IsHead, Candidates
  <2>4. ASSUME NEW t \in Tasks, RunStep(t) \/ TurnAnswer(t) \/ PauseEnds(t) PROVE Held(u)'
    <3>1. CASE u # t
      BY <2>2, <2>4, <3>1, OtherCards
    <3>2. CASE u = t /\ PauseEnds(t)
      <4>1. Same(u)
        BY <3>2, QuietRuns DEF QuietRun
      <4> QED
        BY <2>2, <3>2, <4>1 DEF PauseEnds, Same
    <3>3. CASE u = t /\ QuietRun(t) /\ ~PauseEnds(t)
      <4>1. Same(u)
        BY <3>3, QuietRuns
      <4>2. run[u].pc \notin {"idle", "blocking", "reason"}
        BY <3>3, RunComes
      <4>3. run'[u].pc = "returning" => run[u].status = "review"
        BY <3>3, RunComes, RunGoes DEF QuietRun
      <4>4. run'[u].status = run[u].status \/ run'[u].pc = "idle"
        BY <2>4, <3>3, RunComes
      <4>5. task[u].status \in DueStatuses
        BY <2>1, <4>2 DEF Held, InItsColumn, RunRows, DueStatuses
      <4> QED
        BY <2>1, <4>1, <4>2, <4>3, <4>4, <4>5 DEF Same, Held, InItsColumn
    <3>4. CASE u = t /\ PromptHeard(t)
      <4>1. run'[u].pc = "turn" /\ run'[u].status = run[u].status
        BY <2>4, <3>4, RunComes, RunGoes
      <4>2. run[u].pc \in {"configuring", "prompting"}
        BY <3>4, RunComes
      <4> QED
        BY <2>1, <3>4, <4>1, <4>2, HeardColumns DEF Held, InItsColumn
    <3>5. CASE u = t /\ Bounce(t)
      <4>1. run'[u].pc \in {"idle", "blocking"} /\ run[u].pc = "returning"
        BY <3>5, RunComes, RunGoes
      <4>2. run'[u].pc = "blocking" => task'[u] = CountBounce(task[u])
        BY <3>5 DEF Bounce, TypeOK, Idle
      <4>3. /\ CountBounce(task[u]).autonomy = task[u].autonomy
            /\ CountBounce(task[u]).status \in DueStatuses
        BY StateTypes, RowColumns DEF DueStatuses
      <4> QED
        BY <2>1, <4>1, <4>2, <4>3 DEF Held
    <3>6. CASE u = t /\ (Advance(t) \/ BlockOff(t) \/ BlockReason(t))
      <4>1. run'[u].pc \in {"idle", "reason"}
        BY <3>6, RunGoes
      <4> QED
        BY <4>1 DEF Held
    <3> QED
      BY <2>4, <3>1, <3>2, <3>3, <3>4, <3>5, <3>6 DEF RunStep, TurnAnswer, QuietRun
  <2>5. ASSUME NEW s \in Sessions, SessionExits(s) PROVE Held(u)'
    <3>1. run'[u] = run[u] \/ run'[u] = Idle \/ run'[u] = [run[u] EXCEPT !.sess = None]
      BY <2>5 DEF SessionExits
    <3>2. /\ [run[u] EXCEPT !.sess = None].pc = run[u].pc
          /\ [run[u] EXCEPT !.sess = None].status = run[u].status
          /\ Idle.pc = "idle"
      BY <2>1 DEF RunRows, Idle
    <3> QED
      BY <2>2, <2>5, <3>1, <3>2 DEF SessionExits
  <2>6. ASSUME Crash PROVE Held(u)'
    BY <2>2, <2>6 DEF Crash, Idle
  <2>7. ASSUME UNCHANGED <<task, run>> PROVE Held(u)'
    BY <2>2, <2>7
  <2> QED
    BY <1>1, <2>3, <2>4, <2>5, <2>6, <2>7
       DEF Daemon, GivenUpTurnEnds, OtherTurnEnds, vars
<1> QED
  BY <1>2, <1>3 DEF AloneInvariant

\* One card carried along an arrow, one card stopped, or a board left as it is.
LEMMA BoardMoves ==
    ASSUME TypeOK, TypeOK', NEW t \in Tasks,
           \A u \in Tasks \ {t} : task'[u] = task[u]
    PROVE  /\ /\ task[t].autonomy = "inherit" /\ task'[t].autonomy = "inherit"
              /\ <<task[t].status, task'[t].status>> \in Board!ARROWS
              => Board!Next
           /\ /\ task[t].autonomy = "inherit" /\ task'[t].autonomy = "off"
              /\ task[t].status # "backlog" /\ task'[t].status = task[t].status
              => Board!Next
           /\ /\ task'[t].autonomy = task[t].autonomy
              /\ task'[t].status = task[t].status
              => UNCHANGED Board!bvars
<1>1. ASSUME task[t].autonomy = "inherit", task'[t].autonomy = "inherit",
             <<task[t].status, task'[t].status>> \in Board!ARROWS
      PROVE  Board!Carry(t)
  <2>1. task'[t].status \in {arrow[2] : arrow \in Board!ARROWS}
    BY <1>1 DEF Board!ARROWS
  <2>2. [u \in Tasks |-> task'[u].status]
          = [[u \in Tasks |-> task[u].status] EXCEPT ![t] = task'[t].status]
    OBVIOUS
  <2>3. [u \in Tasks |-> task'[u].autonomy = "off"] = [u \in Tasks |-> task[u].autonomy = "off"]
    BY <1>1
  <2>4. ~[u \in Tasks |-> task[u].autonomy = "off"][t]
    BY <1>1
  <2>5. [u \in Tasks |-> task[u].status][t] = task[t].status
    OBVIOUS
  <2> QED
    BY <1>1, <2>1, <2>2, <2>3, <2>4, <2>5 DEF Board!Carry
<1>2. ASSUME task[t].autonomy = "inherit", task'[t].autonomy = "off",
             task[t].status # "backlog", task'[t].status = task[t].status
      PROVE  Board!Stop(t)
  <2>1. [u \in Tasks |-> task'[u].status] = [u \in Tasks |-> task[u].status]
    BY <1>2
  <2>2. [u \in Tasks |-> task'[u].autonomy = "off"]
          = [[u \in Tasks |-> task[u].autonomy = "off"] EXCEPT ![t] = TRUE]
    BY <1>2
  <2> QED
    BY <1>2, <2>1, <2>2 DEF Board!Stop
<1>3. ASSUME task'[t].autonomy = task[t].autonomy, task'[t].status = task[t].status
      PROVE  UNCHANGED Board!bvars
  BY <1>3 DEF Board!bvars
<1> QED
  BY <1>1, <1>2, <1>3 DEF Board!Next

\* Every step of the daemon, and a crash, is a step of the belt or none.
LEMMA BoardStep ==
    TypeOK /\ TypeOK' /\ AloneInvariant /\ [Daemon \/ Crash]_vars
      => [Board!Next]_(Board!bvars)
<1> SUFFICES ASSUME TypeOK, TypeOK', AloneInvariant, [Daemon \/ Crash]_vars
             PROVE  Board!Next \/ UNCHANGED Board!bvars
  OBVIOUS
<1>1. ASSUME UNCHANGED task PROVE UNCHANGED Board!bvars
  BY <1>1 DEF Board!bvars
<1>2. ASSUME NEW t \in Tasks, RunStep(t) \/ TurnAnswer(t) \/ PauseEnds(t)
      PROVE  Board!Next \/ UNCHANGED Board!bvars
  <2>1. \A u \in Tasks \ {t} : task'[u] = task[u]
    BY <1>2, OtherCards
  <2>2. Held(t) /\ task[t] \in TaskRows /\ run[t] \in RunRows
    BY StateTypes DEF AloneInvariant
  <2>3. CASE QuietRun(t)
    BY <2>1, <2>3, QuietRuns, BoardMoves DEF Same
  <2>4. CASE BlockReason(t)
    <3>1. /\ task'[t].status = task[t].status
          /\ task'[t].autonomy = task[t].autonomy
      BY <2>4 DEF BlockReason, TypeOK, TaskRows
    <3> QED
      BY <2>1, <3>1, BoardMoves
  <2>5. CASE BlockOff(t)
    <3>1. /\ task'[t].status = task[t].status
          /\ task'[t].autonomy = "off"
      BY <2>5 DEF BlockOff, TypeOK, TaskRows
    <3>2. task[t].autonomy = "inherit" /\ task[t].status # "backlog"
      BY <2>2, <2>5 DEF BlockOff, Held, DueStatuses
    <3> QED
      BY <2>1, <3>1, <3>2, BoardMoves
  <2>6. CASE PromptHeard(t)
    <3>1. task[t].autonomy = "inherit"
      BY <2>2, <2>6, RunComes DEF Held
    <3>2. CASE task[t].status = "open"
      <4>1. <<task[t].status, task'[t].status>> \in Board!ARROWS
        BY <2>6, <3>2, HeardColumns DEF Board!ARROWS
      <4> QED
        BY <2>1, <2>6, <3>1, <4>1, HeardColumns, BoardMoves
    <3>3. CASE task[t].status # "open"
      BY <2>1, <2>6, <3>3, HeardColumns, BoardMoves
    <3> QED
      BY <3>2, <3>3
  <2>7. CASE Bounce(t)
    <3>1. task[t].autonomy = "inherit" /\ task[t].status = "review"
      BY <2>2, <2>7, RunComes DEF Held, InItsColumn
    <3>2. CASE task' = [task EXCEPT ![t] = CountBounce(task[t])]
      <4>1. task'[t].status = "in_progress" /\ task'[t].autonomy = "inherit"
        BY <2>2, <3>1, <3>2, RowColumns DEF TypeOK
      <4>2. <<task[t].status, task'[t].status>> \in Board!ARROWS
        BY <3>1, <4>1 DEF Board!ARROWS
      <4> QED
        BY <2>1, <3>1, <4>1, <4>2, BoardMoves
    <3> QED
      BY <1>1, <2>7, <3>2, MovingSteps
  <2>8. CASE Advance(t)
    <3> DEFINE next == NEXT_STAGE[run[t].status]
    <3>1. task[t].autonomy = "inherit" /\ InItsColumn(t)
      BY <2>2, <2>8, RunComes DEF Held
    <3>2. CASE task' = [task EXCEPT ![t] = SetStatus(task[t], next)]
      <4>1. task'[t].status = next /\ task'[t].autonomy = "inherit"
        <5> HIDE DEF next
        <5>1. task'[t] = SetStatus(task[t], next)
          BY <3>2 DEF TypeOK
        <5> QED
          BY <2>2, <3>1, <5>1, RowColumns
      <4>2. run[t].status \in DueStatuses
        BY <2>2 DEF RunRows
      <4>3. task[t].status = next \/ <<task[t].status, next>> \in Board!ARROWS
        BY <3>1, <4>2 DEF InItsColumn, NEXT_STAGE, DueStatuses, Board!ARROWS
      <4> HIDE DEF next
      <4> QED
        BY <2>1, <3>1, <4>1, <4>3, BoardMoves
    <3> QED
      BY <1>1, <2>8, <3>2, MovingSteps
  <2> QED
    BY <1>2, <2>3, <2>4, <2>5, <2>6, <2>7, <2>8 DEF RunStep, TurnAnswer, QuietRun
<1>3. ASSUME NEW c \in Clients PROVE ~SendStep(c)
  BY DEF AloneInvariant, SendStep, SendOpened, SendFails, SendRefused, SendHeard,
         SendReady, SendEnds, SendTimesOut
<1> QED
  BY <1>1, <1>2, <1>3
     DEF Daemon, Tick, GivenUpTurnEnds, OtherTurnEnds, SessionExits, Crash, vars

\* Left alone, and whatever fails, runs out of quota or crashes, the conveyor
\* implements the belt: cards go along the arrows, and one that stopped stays
\* where it is.
THEOREM LeftAlone == AloneSpec => BoardSpec
<1>1. Init => Board!Init
  <2> SUFFICES ASSUME Init PROVE Board!Init
    OBVIOUS
  <2>1. \A t \in Tasks : task[t].status \in {"open", "backlog"} /\ task[t].autonomy = "inherit"
    BY DEF Init, NewTask
  <2> QED
    BY <2>1 DEF Board!Init
<1>2. Init => AloneInvariant
  BY DEF Init, AloneInvariant, Held, Idle, NoRequest
<1>3. [Daemon \/ Crash]_vars => [Next]_vars
  BY DEF Next
<1>4. Init => TypeOK /\ BudgetInvariant
  BY Initially
<1>5. TypeOK /\ BudgetInvariant /\ AloneInvariant /\ [Daemon \/ Crash]_vars
        => (TypeOK /\ BudgetInvariant /\ AloneInvariant)' /\ [Board!Next]_(Board!bvars)
  BY <1>3, TypeStep, BudgetStep, HeldStep, BoardStep
<1> QED
  BY <1>1, <1>2, <1>4, <1>5, PTL DEF AloneSpec, BoardSpec, Board!Spec
=============================================================================
