--------------------------- MODULE ConveyorProofs ---------------------------
(***************************************************************************)
(* The conveyor's type correctness and its budget of attempts, for any     *)
(* number of cards, sessions and clients and any value of the ceilings.    *)
(***************************************************************************)
EXTENDS ConveyorSafety, TLAPS

-----------------------------------------------------------------------------
(* Rows *)

\* The stages the queue and the gate know are stages of the table.
LEMMA Stages ==
    /\ \A status \in DueStatuses :
         /\ DUE_STAGES[status].role \in Roles
         /\ NEXT_STAGE[status] \in CONVEYOR_MAY_SET
    /\ CONVEYOR_MAY_SET \subseteq Statuses
    /\ DueStatuses \subseteq Statuses
BY DEF DueStatuses, DUE_STAGES, NEXT_STAGE, Roles, Statuses, CONVEYOR_MAY_SET

\* Every write of a card's row leaves a row of the table.
LEMMA RowTypes ==
    ASSUME NEW row \in TaskRows, NEW status \in Statuses, NEW carries \in BOOLEAN
    PROVE  /\ SetStatus(row, status) \in TaskRows
           /\ CountBounce(row) \in TaskRows
           /\ RefuseForQuota(row) \in TaskRows
           /\ Progressed(row) \in TaskRows
           /\ Unparked(row) \in TaskRows
           /\ Hear(row, carries) \in TaskRows
<1>0. "in_progress" \in Statuses
  BY DEF Statuses, DueStatuses
<1>a. row.bounces + 1 \in Nat /\ row.refusals + 1 \in Nat
  BY DEF TaskRows
<1>b. (IF row.attempts > 0 THEN row.attempts - 1 ELSE 0) \in Nat
  BY DEF TaskRows
<1>1. SetStatus(row, status) \in TaskRows
  BY DEF SetStatus, EnterStage, TaskRows
<1>2. CountBounce(row) \in TaskRows
  BY <1>0, <1>a DEF CountBounce, TaskRows
<1>3. RefuseForQuota(row) \in TaskRows
  BY <1>a, <1>b DEF RefuseForQuota, TaskRows
<1>4. Progressed(row) \in TaskRows
  BY <1>0 DEF Progressed, TaskRows
<1>5. Unparked(row) \in TaskRows
  BY DEF Unparked, TaskRows
<1>6. Hear(row, carries) \in TaskRows
  BY <1>4 DEF Hear, TaskRows, Findings
<1> QED
  BY <1>1, <1>2, <1>3, <1>4, <1>5, <1>6

\* The rows of a run, a session and a request that hold nothing.
LEMMA EmptyRows ==
    Idle \in RunRows /\ Free \in SessionRows /\ NoRequest \in RequestRows
BY DEF Idle, RunRows, DueStatuses, Free, SessionRows, Roles, NoRequest, RequestRows

\* Every write of a conversation leaves a conversation.
LEMMA SessionTypes ==
    ASSUME NEW row \in SessionRows
    PROVE  /\ Asked(row) \in SessionRows
           /\ Answered(row) \in SessionRows
           /\ [Answered(row) EXCEPT !.state = "closing"] \in SessionRows
           /\ [row EXCEPT !.state = "closing"] \in SessionRows
           /\ [row EXCEPT !.others = @ + 1] \in SessionRows
           /\ [row EXCEPT !.inFlight = TRUE, !.others = @ + 1] \in SessionRows
           /\ row.givenUp > 0
                => [row EXCEPT !.inFlight = FALSE, !.givenUp = @ - 1] \in SessionRows
           /\ row.others > 0
                => [row EXCEPT !.inFlight = FALSE, !.others = @ - 1] \in SessionRows
<1>1. row.givenUp + 1 \in Nat /\ row.others + 1 \in Nat
  BY DEF SessionRows
<1>2. row.givenUp > 0 => row.givenUp - 1 \in Nat
  BY DEF SessionRows
<1>3. row.others > 0 => row.others - 1 \in Nat
  BY DEF SessionRows
<1> QED
  BY <1>1, <1>2, <1>3 DEF Asked, Answered, SessionRows

\* So does opening one.
LEMMA NewSessionType ==
    ASSUME NEW t \in Tasks \cup {None}, NEW role \in Roles
    PROVE  NewSession(t, role) \in SessionRows
BY DEF NewSession, Free, SessionRows

\* Closing a conversation, or no conversation, is a write of the table.
LEMMA CloseType ==
    ASSUME session \in [Sessions -> SessionRows], NEW s, Close(s)
    PROVE  session' \in [Sessions -> SessionRows]
BY SessionTypes DEF Close

\* The rows a step starts from.
LEMMA StateTypes ==
    ASSUME TypeOK
    PROVE  /\ \A t \in Tasks : task[t] \in TaskRows /\ run[t] \in RunRows /\ Role(t) \in Roles
           /\ \A s \in Sessions : session[s] \in SessionRows
           /\ \A c \in Clients : request[c] \in RequestRows
BY Stages DEF TypeOK, Role, RunRows

\* A run that ends, or goes on to another step, is a run.
LEMMA RunTypes ==
    ASSUME NEW row \in RunRows
    PROVE  /\ [row EXCEPT !.pc = "turn"] \in RunRows
           /\ [row EXCEPT !.pc = "judging"] \in RunRows
           /\ [row EXCEPT !.pc = "returning"] \in RunRows
           /\ [row EXCEPT !.pc = "publishing"] \in RunRows
           /\ [row EXCEPT !.pc = "blocking"] \in RunRows
           /\ [row EXCEPT !.pc = "blocking", !.charged = FALSE] \in RunRows
           /\ [row EXCEPT !.pc = "reason"] \in RunRows
           /\ [row EXCEPT !.charged = FALSE] \in RunRows
           /\ [row EXCEPT !.sess = None] \in RunRows
BY DEF RunRows

\* A turn that ran may clear the wait of its card.
LEMMA ClearPauseType ==
    ASSUME TypeOK, NEW t \in Tasks
    PROVE  ClearPause(t) \in [Tasks -> TaskRows]
<1>1. [task[t] EXCEPT !.paused = FALSE, !.refusals = 0] \in TaskRows
  BY StateTypes DEF TaskRows
<1> QED
  BY <1>1 DEF ClearPause, TypeOK

\* After an attempt that did not pass, every run is still a run.
LEMMA AfterUnfinishedType ==
    ASSUME TypeOK, NEW t \in Tasks
    PROVE  AfterUnfinished(t) \in [Tasks -> RunRows]
<1>1. [run[t] EXCEPT !.pc = "blocking"] \in RunRows
  BY StateTypes, RunTypes
<1> QED
  BY <1>1, EmptyRows DEF AfterUnfinished, TypeOK

\* The finding a run takes with it, and the role that reads it, are of the table.
LEMMA HandOverType ==
    ASSUME TypeOK, NEW t \in Tasks
    PROVE  HandOver(t) \in Findings /\ Carries(t) \in BOOLEAN
<1>1. task[t].finding \in Findings
  BY StateTypes DEF TaskRows
<1> QED
  BY <1>1 DEF HandOver, Carries, Findings

-----------------------------------------------------------------------------
(* Types *)

\* Every step keeps the types.
LEMMA TypeStep == TypeOK /\ BudgetInvariant /\ [Next]_vars => TypeOK'
<1> SUFFICES ASSUME TypeOK, BudgetInvariant, [Next]_vars PROVE TypeOK'
  OBVIOUS
<1>1. ASSUME Tick PROVE TypeOK'
  <2>1. ASSUME NEW t \in Tasks, Candidate(t) PROVE Started(t) \in RunRows
    <3>1. (task[t].refusals > 0) \in BOOLEAN /\ (mode = "assistido") \in BOOLEAN
      OBVIOUS
    <3>2. task[t].status \in DueStatuses
      BY <2>1 DEF Candidate
    <3> QED
      BY <3>1, <3>2 DEF Started, Idle, RunRows
  <2> QED
    BY <1>1, <2>1 DEF Tick, IsHead, Candidates, TypeOK
<1>2. ASSUME NEW t \in Tasks, PrepareFails(t) PROVE TypeOK'
  <2>1. task[t].attempts + 1 \in Nat
    BY StateTypes DEF TaskRows
  <2>2. [task[t] EXCEPT !.attempts = @ + 1] \in TaskRows
    BY <2>1, StateTypes DEF TaskRows
  <2>3. [run[t] EXCEPT !.pc = "blocking"] \in RunRows
    BY StateTypes, RunTypes
  <2> QED
    BY <1>2, <2>2, <2>3, EmptyRows DEF PrepareFails, TypeOK
<1>3. ASSUME NEW t \in Tasks, NoLongerDue(t) PROVE TypeOK'
  BY <1>3, EmptyRows DEF NoLongerDue, TypeOK
<1>4. ASSUME NEW t \in Tasks, Park(t) PROVE TypeOK'
  <2>1. [task[t] EXCEPT !.prepared = Role(t), !.carries = Carries(t),
                        !.finding = HandOver(t)] \in TaskRows
    BY StateTypes, HandOverType DEF TaskRows
  <2> QED
    BY <1>4, <2>1, EmptyRows DEF Park, TypeOK
<1>5. ASSUME NEW t \in Tasks, Charge(t) PROVE TypeOK'
  <2> DEFINE attempt == task[t].attempts + 1
  <2>1. attempt \in Nat
    BY StateTypes DEF TaskRows
  <2>2. [task[t] EXCEPT !.attempts = attempt, !.finding = HandOver(t)] \in TaskRows
    BY <2>1, StateTypes, HandOverType DEF TaskRows
  <2>3. Alive(t, Role(t)) \in Sessions \cup {None}
    BY StateTypes DEF Alive, TypeOK
  <2>4. ASSUME NEW pc \in {"opening", "prompting", "blocking"},
               NEW s \in Sessions \cup {None}
        PROVE  [run[t] EXCEPT !.pc = pc, !.attempt = attempt, !.charged = TRUE,
                              !.carries = Carries(t), !.sess = s] \in RunRows
    BY <2>1, StateTypes, HandOverType DEF RunRows
  <2> HIDE DEF attempt
  <2>5. task' \in [Tasks -> TaskRows]
    BY <1>5, <2>2 DEF Charge, TypeOK, attempt
  <2>6. run' \in [Tasks -> RunRows]
    BY <1>5, <2>3, <2>4, ZenonT(30) DEF Charge, TypeOK, attempt
  <2> QED
    BY <1>5, <2>5, <2>6 DEF Charge, TypeOK
<1>6. ASSUME NEW t \in Tasks, Opened(t) PROVE TypeOK'
  <2>1. Role(t) \in Roles
    BY StateTypes
  <2>2. PICK s \in Sessions :
          /\ session' = [session EXCEPT ![s] = NewSession(t, Role(t))]
          /\ latest' = [latest EXCEPT ![t][Role(t)] = s]
          /\ run' = [run EXCEPT ![t].pc = "configuring", ![t].sess = s]
    BY <1>6 DEF Opened
  <2>3. session' \in [Sessions -> SessionRows]
    BY <2>1, <2>2, NewSessionType DEF TypeOK
  <2>4. [latest[t] EXCEPT ![Role(t)] = s] \in [Roles -> Sessions \cup {None}]
    BY <2>1 DEF TypeOK
  <2>5. [run[t] EXCEPT !.pc = "configuring", !.sess = s] \in RunRows
    BY StateTypes DEF RunRows
  <2> QED
    BY <1>6, <2>2, <2>3, <2>4, <2>5 DEF Opened, TypeOK
<1>7. ASSUME NEW t \in Tasks, Throws(t) PROVE TypeOK'
  BY <1>7, EmptyRows DEF Throws, TypeOK
<1>8. ASSUME NEW t \in Tasks, PromptDead(t) PROVE TypeOK'
  BY <1>8, EmptyRows DEF PromptDead, TypeOK
<1>9. ASSUME NEW t \in Tasks, PromptRefused(t) PROVE TypeOK'
  <2>1. session' \in [Sessions -> SessionRows]
    BY <1>9, SessionTypes DEF PromptRefused, TypeOK
  <2>2. [run[t] EXCEPT !.pc = "blocking"] \in RunRows
    BY StateTypes, RunTypes
  <2> QED
    BY <1>9, <2>1, <2>2 DEF PromptRefused, TypeOK
<1>10. ASSUME NEW t \in Tasks, PromptHeard(t) PROVE TypeOK'
  <2>1. session' \in [Sessions -> SessionRows]
    BY <1>10, SessionTypes DEF PromptHeard, TypeOK
  <2>2. Hear(task[t], run[t].carries) \in TaskRows
    <3>1. run[t].carries \in BOOLEAN
      BY StateTypes DEF RunRows
    <3> QED
      BY <3>1, StateTypes, RowTypes DEF Statuses
  <2>3. heard' \in [Tasks -> Nat]
    <3>1. heard[t] + 1 \in Nat
      BY DEF TypeOK
    <3> QED
      BY <1>10, <3>1 DEF PromptHeard, TypeOK
  <2>4. [run[t] EXCEPT !.pc = "turn"] \in RunRows
    BY StateTypes, RunTypes
  <2> QED
    BY <1>10, <2>1, <2>2, <2>3, <2>4 DEF PromptHeard, TypeOK
<1>11. ASSUME NEW t \in Tasks, TurnTimesOut(t) PROVE TypeOK'
  <2>1. ASSUME NEW s \in Sessions, NEW state \in {"closing", session[s].state}
        PROVE  [session[s] EXCEPT !.givenUp = @ + 1, !.state = state] \in SessionRows
    <3>1. session[s].givenUp + 1 \in Nat
      BY StateTypes DEF SessionRows
    <3> QED
      BY <3>1, StateTypes DEF SessionRows
  <2>2. session' \in [Sessions -> SessionRows]
    BY <1>11, <2>1 DEF TurnTimesOut, TypeOK
  <2> QED
    BY <1>11, <2>2, ClearPauseType, AfterUnfinishedType DEF TurnTimesOut, TypeOK
<1>12. ASSUME NEW t \in Tasks, JudgeUnfinished(t) PROVE TypeOK'
  <2>1. session' \in [Sessions -> SessionRows]
    BY <1>12, CloseType DEF JudgeUnfinished, TypeOK
  <2> QED
    BY <1>12, <2>1, AfterUnfinishedType DEF JudgeUnfinished, TypeOK
<1>13. ASSUME NEW t \in Tasks, JudgeFinding(t) PROVE TypeOK'
  <2>1. [task[t] EXCEPT !.finding = "reproduced"] \in TaskRows
    BY StateTypes DEF TaskRows, Findings
  <2>2. [run[t] EXCEPT !.pc = "returning"] \in RunRows
    BY StateTypes, RunTypes
  <2> QED
    BY <1>13, <2>1, <2>2 DEF JudgeFinding, TypeOK
<1>14. ASSUME NEW t \in Tasks, Bounce(t) PROVE TypeOK'
  <2>1. session' \in [Sessions -> SessionRows]
    BY <1>14, CloseType DEF Bounce, TypeOK
  <2>2. CountBounce(task[t]) \in TaskRows
    BY StateTypes, RowTypes DEF Statuses
  <2>3. [run[t] EXCEPT !.pc = "blocking", !.charged = FALSE] \in RunRows
    BY StateTypes, RunTypes
  <2>4. task' \in [Tasks -> TaskRows] /\ heard' \in [Tasks -> Nat]
    <3>1. CASE MayBounce(task[t])
      <4>1. task' = [task EXCEPT ![t] = CountBounce(@)] /\ heard' = [heard EXCEPT ![t] = 0]
        BY <1>14, <3>1 DEF Bounce
      <4>2. task' \in [Tasks -> TaskRows]
        BY <2>2, <4>1 DEF TypeOK
      <4>3. heard' \in [Tasks -> Nat]
        BY <4>1 DEF TypeOK
      <4> QED
        BY <4>2, <4>3
    <3>2. CASE ~MayBounce(task[t])
      BY <1>14, <3>2 DEF Bounce, TypeOK
    <3> QED
      BY <3>1, <3>2
  <2>5. run' \in [Tasks -> RunRows]
    BY <1>14, <2>3, EmptyRows DEF Bounce, TypeOK
  <2> QED
    BY <1>14, <2>1, <2>4, <2>5 DEF Bounce, TypeOK
<1>15. ASSUME NEW t \in Tasks, JudgePass(t) PROVE TypeOK'
  <2>1. [run[t] EXCEPT !.pc = "publishing"] \in RunRows
    BY StateTypes, RunTypes
  <2> QED
    BY <1>15, <2>1 DEF JudgePass, TypeOK
<1>16. ASSUME NEW t \in Tasks, Advance(t) PROVE TypeOK'
  <2>1. session' \in [Sessions -> SessionRows]
    BY <1>16, CloseType DEF Advance, TypeOK
  <2>2. NEXT_STAGE[run[t].status] \in Statuses
    BY StateTypes, Stages DEF RunRows
  <2>3. SetStatus(task[t], NEXT_STAGE[run[t].status]) \in TaskRows
    BY <2>2, StateTypes, RowTypes
  <2>4. task' \in [Tasks -> TaskRows] /\ heard' \in [Tasks -> Nat]
    BY <1>16, <2>3 DEF Advance, TypeOK
  <2> QED
    BY <1>16, <2>1, <2>4, EmptyRows DEF Advance, TypeOK
<1>17. ASSUME NEW t \in Tasks, BlockOff(t) PROVE TypeOK'
  <2>1. [task[t] EXCEPT !.autonomy = "off"] \in TaskRows
    BY StateTypes DEF TaskRows
  <2>2. [run[t] EXCEPT !.pc = "reason"] \in RunRows
    BY StateTypes, RunTypes
  <2> QED
    BY <1>17, <2>1, <2>2 DEF BlockOff, TypeOK
<1>18. ASSUME NEW t \in Tasks, BlockReason(t) PROVE TypeOK'
  <2>1. [task[t] EXCEPT !.blocked = TRUE] \in TaskRows
    BY StateTypes DEF TaskRows
  <2> QED
    BY <1>18, <2>1, EmptyRows DEF BlockReason, TypeOK
<1>19. ASSUME NEW t \in Tasks, TurnEnds(t) PROVE TypeOK'
  <2>1. session' \in [Sessions -> SessionRows]
    BY <1>19, SessionTypes DEF TurnEnds, TypeOK
  <2>2. [run[t] EXCEPT !.pc = "judging"] \in RunRows
    BY StateTypes, RunTypes
  <2> QED
    BY <1>19, <2>1, <2>2, ClearPauseType DEF TurnEnds, TypeOK
<1>20. ASSUME NEW t \in Tasks, TurnFails(t) PROVE TypeOK'
  <2>1. session' \in [Sessions -> SessionRows]
    BY <1>20, SessionTypes DEF TurnFails, TypeOK
  <2> QED
    BY <1>20, <2>1, EmptyRows DEF TurnFails, TypeOK
<1>21. ASSUME NEW t \in Tasks, TurnOutOfQuota(t) PROVE TypeOK'
  <2>1. session' \in [Sessions -> SessionRows]
    BY <1>21, SessionTypes DEF TurnOutOfQuota, TypeOK
  <2>2. heard' \in [Tasks -> Nat]
    <3>1. run[t].charged => heard[t] - 1 \in Nat
      BY <1>21 DEF TurnOutOfQuota, BudgetInvariant, Budget, TypeOK
    <3> QED
      BY <1>21, <3>1 DEF TurnOutOfQuota, TypeOK
  <2>3. /\ RefuseForQuota(task[t]) \in TaskRows
        /\ [RefuseForQuota(task[t]) EXCEPT !.paused = TRUE] \in TaskRows
    <3>1. RefuseForQuota(task[t]) \in TaskRows
      BY StateTypes, RowTypes DEF Statuses
    <3> QED
      BY <3>1 DEF TaskRows
  <2>4. [run[t] EXCEPT !.pc = "blocking"] \in RunRows
    BY StateTypes, RunTypes
  <2>5. task' \in [Tasks -> TaskRows]
    BY <1>21, <2>3 DEF TurnOutOfQuota, TypeOK
  <2>6. run' \in [Tasks -> RunRows]
    BY <1>21, <2>4, EmptyRows DEF TurnOutOfQuota, TypeOK
  <2> QED
    BY <1>21, <2>1, <2>2, <2>5, <2>6 DEF TurnOutOfQuota, TypeOK
<1>22. ASSUME NEW t \in Tasks, PauseEnds(t) PROVE TypeOK'
  <2>1. [task[t] EXCEPT !.paused = FALSE] \in TaskRows
    BY StateTypes DEF TaskRows
  <2> QED
    BY <1>22, <2>1 DEF PauseEnds, TypeOK
<1>23. ASSUME NEW c \in Clients, SendOpened(c) PROVE TypeOK'
  <2> DEFINE t == request[c].task
             role == request[c].role
  <2>1. t \in Tasks \cup {None} /\ role \in Roles
    BY StateTypes DEF RequestRows
  <2>2. PICK s \in Sessions :
          /\ session' = [session EXCEPT ![s] = NewSession(t, role)]
          /\ latest' = [latest EXCEPT ![t][role] = s]
          /\ request' = [request EXCEPT ![c].pc = "configuring", ![c].sess = s]
    BY <1>23 DEF SendOpened
  <2>3. session' \in [Sessions -> SessionRows]
    BY <2>1, <2>2, NewSessionType DEF TypeOK
  <2>4. ASSUME t \in Tasks
        PROVE  [latest[t] EXCEPT ![role] = s] \in [Roles -> Sessions \cup {None}]
    BY <2>1, <2>4 DEF TypeOK
  <2>5. [request[c] EXCEPT !.pc = "configuring", !.sess = s] \in RequestRows
    BY StateTypes DEF RequestRows
  <2> HIDE DEF t, role
  <2>6. latest' \in [Tasks -> [Roles -> Sessions \cup {None}]]
    BY <2>2, <2>4 DEF TypeOK
  <2> QED
    BY <1>23, <2>2, <2>3, <2>5, <2>6 DEF SendOpened, TypeOK
<1>24. ASSUME NEW c \in Clients, SendFails(c) PROVE TypeOK'
  BY <1>24, EmptyRows DEF SendFails, TypeOK
<1>25. ASSUME NEW c \in Clients, SendRefused(c) PROVE TypeOK'
  <2>1. session' \in [Sessions -> SessionRows]
    BY <1>25, SessionTypes DEF SendRefused, TypeOK
  <2>2. \A t \in Tasks : Unparked(task[t]) \in TaskRows
    BY StateTypes, RowTypes DEF Statuses
  <2> QED
    BY <1>25, <2>1, <2>2, EmptyRows DEF SendRefused, TypeOK
<1>26. ASSUME NEW c \in Clients, SendHeard(c) PROVE TypeOK'
  <2>1. session' \in [Sessions -> SessionRows]
    BY <1>26, SessionTypes DEF SendHeard, TypeOK
  <2>2. \A t \in Tasks : Hear(Unparked(task[t]), request[c].carries) \in TaskRows
    <3>1. request[c].carries \in BOOLEAN
      BY StateTypes DEF RequestRows
    <3>2. \A t \in Tasks : Unparked(task[t]) \in TaskRows
      BY StateTypes, RowTypes DEF Statuses
    <3> QED
      BY <3>1, <3>2, RowTypes DEF Statuses
  <2>3. [request[c] EXCEPT !.pc = "turn"] \in RequestRows
    BY StateTypes DEF RequestRows
  <2> QED
    BY <1>26, <2>1, <2>2, <2>3 DEF SendHeard, TypeOK
<1>27. ASSUME NEW c \in Clients, SendEnds(c) PROVE TypeOK'
  <2>1. session' \in [Sessions -> SessionRows]
    BY <1>27, SessionTypes DEF SendEnds, TypeOK
  <2> QED
    BY <1>27, <2>1, EmptyRows DEF SendEnds, TypeOK
<1>28. ASSUME NEW c \in Clients, SendTimesOut(c) PROVE TypeOK'
  <2>1. session' \in [Sessions -> SessionRows]
    BY <1>28, SessionTypes DEF SendTimesOut, TypeOK
  <2> QED
    BY <1>28, <2>1, EmptyRows DEF SendTimesOut, TypeOK
<1>29. ASSUME NEW s \in Sessions, GivenUpTurnEnds(s) PROVE TypeOK'
  <2>1. [session[s] EXCEPT !.inFlight = FALSE, !.givenUp = @ - 1] \in SessionRows
    BY <1>29, StateTypes, SessionTypes DEF GivenUpTurnEnds
  <2> QED
    BY <1>29, <2>1 DEF GivenUpTurnEnds, TypeOK
<1>30. ASSUME NEW s \in Sessions, OtherTurnEnds(s) PROVE TypeOK'
  <2>1. [session[s] EXCEPT !.inFlight = FALSE, !.others = @ - 1] \in SessionRows
    BY <1>30, StateTypes, SessionTypes DEF OtherTurnEnds
  <2> QED
    BY <1>30, <2>1 DEF OtherTurnEnds, TypeOK
<1>31. ASSUME NEW s \in Sessions, SessionExits(s) PROVE TypeOK'
  <2>1. session' \in [Sessions -> SessionRows]
    BY <1>31, EmptyRows DEF SessionExits, TypeOK
  <2>2. latest' \in [Tasks -> [Roles -> Sessions \cup {None}]]
    BY <1>31 DEF SessionExits, TypeOK
  <2>3. run' \in [Tasks -> RunRows]
    BY <1>31, StateTypes, RunTypes, EmptyRows DEF SessionExits
  <2>4. \A c \in Clients : [request[c] EXCEPT !.sess = None] \in RequestRows
    BY StateTypes DEF RequestRows
  <2>5. request' \in [Clients -> RequestRows]
    BY <1>31, <2>4, StateTypes, EmptyRows DEF SessionExits
  <2> QED
    BY <1>31, <2>1, <2>2, <2>3, <2>5 DEF SessionExits, TypeOK
<1>32. ASSUME Crash PROVE TypeOK'
  BY <1>32, EmptyRows DEF Crash, TypeOK
<1>33. ASSUME NEW t \in Tasks, NEW row \in TaskRows, Write(t, row)
       PROVE  /\ task' \in [Tasks -> TaskRows]
              /\ run' \in [Tasks -> RunRows]
              /\ heard' \in [Tasks -> Nat]
  <2>1. [run[t] EXCEPT !.charged = FALSE] \in RunRows
    BY StateTypes, RunTypes
  <2>2. task' \in [Tasks -> TaskRows]
    BY <1>33 DEF Write, TypeOK
  <2>3. CASE row.status = task[t].status
    BY <1>33, <2>2, <2>3 DEF Write, TypeOK
  <2>4. CASE row.status # task[t].status
    <3>1. run' = [run EXCEPT ![t] = [@ EXCEPT !.charged = FALSE]] /\ heard' = [heard EXCEPT ![t] = 0]
      BY <1>33, <2>4 DEF Write
    <3>2. run' \in [Tasks -> RunRows]
      BY <2>1, <3>1 DEF TypeOK
    <3>3. heard' \in [Tasks -> Nat]
      BY <3>1 DEF TypeOK
    <3> QED
      BY <2>2, <3>2, <3>3
  <2> QED
    BY <2>3, <2>4
<1>34. ASSUME NEW t \in Tasks, NEW status \in Statuses, Move(t, status) PROVE TypeOK'
  <2>1. SetStatus(task[t], status) \in TaskRows
    BY StateTypes, RowTypes
  <2>2. [SetStatus(task[t], status) EXCEPT !.autonomy = "off"] \in TaskRows
    BY <2>1 DEF TaskRows
  <2> QED
    BY <1>33, <1>34, <2>1, <2>2 DEF Move, TypeOK
<1>35. ASSUME NEW t \in Tasks, NEW status \in Statuses, PersonSetsStatus(t, status)
       PROVE  TypeOK'
  <2>1. SetStatus(task[t], status) \in TaskRows
    BY StateTypes, RowTypes
  <2> QED
    BY <1>33, <1>35, <2>1 DEF PersonSetsStatus, TypeOK
<1>36. ASSUME NEW t \in Tasks, AgentSaysReview(t) PROVE TypeOK'
  <2>1. SetStatus(task[t], "review") \in TaskRows
    BY StateTypes, RowTypes DEF Statuses, DueStatuses
  <2> QED
    BY <1>33, <1>36, <2>1 DEF AgentSaysReview, TypeOK
<1>37. ASSUME NEW t \in Tasks, NEW autonomy \in {"inherit", "off"}, SetAutonomy(t, autonomy)
       PROVE  TypeOK'
  <2>1. [task[t] EXCEPT !.autonomy = autonomy] \in TaskRows
    BY StateTypes DEF TaskRows
  <2> QED
    BY <1>37, <2>1 DEF SetAutonomy, TypeOK
<1>38. ASSUME NEW new \in Modes, SetMode(new) PROVE TypeOK'
  BY <1>38 DEF SetMode, TypeOK
<1>39. ASSUME NEW c \in Clients, NEW t \in Tasks, Send(c, t) PROVE TypeOK'
  <2>1. task[t].prepared \in Roles /\ task[t].carries \in BOOLEAN
    BY <1>39, StateTypes DEF Send, TaskRows
  <2>2. Alive(t, task[t].prepared) \in Sessions \cup {None}
    BY <2>1 DEF Alive, TypeOK
  <2> QED
    BY <1>39, <2>1, <2>2 DEF Send, RequestRows, TypeOK
<1>40. ASSUME NEW s \in Sessions, Chat(s) PROVE TypeOK'
  <2>1. session' \in [Sessions -> SessionRows]
    <3>1. [session[s] EXCEPT !.inFlight = TRUE, !.others = @ + 1] \in SessionRows
      BY StateTypes, SessionTypes
    <3> QED
      BY <1>40, <3>1 DEF Chat, TypeOK
  <2>2. \A t \in Tasks : Progressed(task[t]) \in TaskRows
    BY StateTypes, RowTypes DEF Statuses
  <2> QED
    BY <1>40, <2>1, <2>2 DEF Chat, TypeOK
<1>41. CASE UNCHANGED vars
  BY <1>41 DEF vars, TypeOK
<1> QED
  BY <1>1, <1>2, <1>3, <1>4, <1>5, <1>6, <1>7, <1>8, <1>9, <1>10, <1>11, <1>12,
     <1>13, <1>14, <1>15, <1>16, <1>17, <1>18, <1>19, <1>20, <1>21, <1>22, <1>23,
     <1>24, <1>25, <1>26, <1>27, <1>28, <1>29, <1>30, <1>31, <1>32, <1>34, <1>35,
     <1>36, <1>37, <1>38, <1>39, <1>40, <1>41
     DEF Next, Daemon, RunStep, TurnAnswer, SendStep, Person

-----------------------------------------------------------------------------
(* The budget of attempts *)

\* The first message of a turn and a cleared prompt leave the attempts alone.
LEMMA KeepsAttempts ==
    ASSUME NEW row \in TaskRows, NEW carries
    PROVE  /\ Hear(row, carries).attempts = row.attempts
           /\ Progressed(row).attempts = row.attempts
           /\ Unparked(row).attempts = row.attempts
           /\ Hear(Unparked(row), carries).attempts = row.attempts
BY DEF Hear, Progressed, Unparked, TaskRows

\* Every step keeps the budget of every card.
LEMMA BudgetStep == TypeOK /\ BudgetInvariant /\ [Next]_vars => BudgetInvariant'
<1> SUFFICES ASSUME TypeOK, BudgetInvariant, [Next]_vars, NEW u \in Tasks
             PROVE  Budget(u)'
  BY DEF BudgetInvariant
<1>1. TypeOK'
  BY TypeStep
<1>2. /\ heard[u] \in Nat /\ task[u].attempts \in Nat /\ heard'[u] \in Nat
      /\ task'[u].attempts \in Nat /\ MAX_ATTEMPTS \in Nat
  BY <1>1, ConveyorAssumption DEF TypeOK, TaskRows
<1>3. Budget(u)
  BY DEF BudgetInvariant
\* A run that does not come nearer to the prompt, on a card that loses no attempt.
<1>4. ASSUME heard'[u] = heard[u], task'[u].attempts >= task[u].attempts,
             \/ run'[u].pc \notin Asking \cup {"turn"}
             \/ run'[u].pc = run[u].pc /\ run'[u].charged = run[u].charged
      PROVE  Budget(u)'
  BY <1>2, <1>3, <1>4 DEF Budget
\* A stage that is charged with nothing.
<1>5. ASSUME heard'[u] = 0, ~run'[u].charged \/ run'[u].pc \notin Asking \cup {"turn"}
      PROVE  Budget(u)'
  BY <1>2, <1>5 DEF Budget, Asking
<1>6. ASSUME Tick PROVE Budget(u)'
  <2>1. run'[u] = run[u] \/ run'[u].pc = "preparing"
    BY <1>6, ZenonT(30) DEF Tick, Started, Idle
  <2> QED
    BY <1>2, <1>4, <1>6, <2>1 DEF Tick, Asking
<1>7. ASSUME NEW t \in Tasks, PrepareFails(t) PROVE Budget(u)'
  <2>1. task'[u].attempts >= task[u].attempts
    BY <1>2, <1>7 DEF PrepareFails, TypeOK, TaskRows
  <2>2. run'[u] = run[u] \/ run'[u].pc \in {"blocking", "idle"}
    BY <1>7 DEF PrepareFails, TypeOK, RunRows, Idle
  <2> QED
    BY <1>4, <1>7, <2>1, <2>2 DEF PrepareFails, Asking
<1>8. ASSUME NEW t \in Tasks,
             \/ NoLongerDue(t) \/ Throws(t) \/ PromptDead(t) \/ TurnFails(t)
             \/ JudgeUnfinished(t) \/ JudgePass(t)
      PROVE  Budget(u)'
  <2>1. run'[u] = run[u] \/ run'[u].pc \in {"idle", "blocking", "publishing"}
    BY <1>8 DEF NoLongerDue, Throws, PromptDead, TurnFails, JudgeUnfinished, JudgePass,
                AfterUnfinished, TypeOK, RunRows, Idle
  <2>2. UNCHANGED <<task, heard>>
    BY <1>8 DEF NoLongerDue, Throws, PromptDead, TurnFails, JudgeUnfinished, JudgePass
  <2> QED
    BY <1>2, <1>4, <2>1, <2>2 DEF Asking
<1>9. ASSUME NEW t \in Tasks,
             \/ Park(t) \/ PromptRefused(t) \/ TurnTimesOut(t) \/ JudgeFinding(t)
             \/ BlockOff(t) \/ BlockReason(t) \/ TurnEnds(t)
      PROVE  Budget(u)'
  <2>1. run'[u] = run[u] \/ run'[u].pc \in {"idle", "blocking", "returning", "reason", "judging"}
    BY <1>9 DEF Park, PromptRefused, TurnTimesOut, JudgeFinding, BlockOff, BlockReason,
                TurnEnds, AfterUnfinished, TypeOK, RunRows, Idle
  <2>2. task'[u].attempts = task[u].attempts /\ heard' = heard
    BY <1>9 DEF Park, PromptRefused, TurnTimesOut, JudgeFinding, BlockOff, BlockReason,
                TurnEnds, ClearPause, TypeOK, TaskRows
  <2> QED
    BY <1>2, <1>4, <2>1, <2>2 DEF Asking
<1>10. ASSUME NEW t \in Tasks, Charge(t) PROVE Budget(u)'
  <2> DEFINE attempt == task[t].attempts + 1
  <2>1. heard' = heard
    BY <1>10 DEF Charge
  <2>2. CASE u # t
    <3>1. task'[u] = task[u] /\ run'[u] = run[u]
      BY <1>10, <2>2 DEF Charge, TypeOK
    <3> QED
      BY <1>2, <1>4, <2>1, <3>1
  <2>3. CASE u = t
    <3>1. task'[t].attempts = attempt
      BY <1>10 DEF Charge, TypeOK, TaskRows
    <3>2. run'[t].charged = TRUE
      BY <1>10 DEF Charge, TypeOK, RunRows
    <3>3. run'[t].pc \in Asking => attempt <= MAX_ATTEMPTS
      BY <1>2, <1>10, <2>3 DEF Charge, TypeOK, RunRows, PastCeiling, Asking
    <3>4. run'[t].pc \in Asking \cup {"blocking"}
      BY <1>10 DEF Charge, TypeOK, RunRows, Asking
    <3> QED
      BY <1>2, <1>3, <2>1, <2>3, <3>1, <3>2, <3>3, <3>4 DEF Budget, Asking
  <2> QED
    BY <2>2, <2>3
<1>11. ASSUME NEW t \in Tasks, Opened(t) PROVE Budget(u)'
  <2>1. UNCHANGED <<task, heard>>
    BY <1>11 DEF Opened
  <2>2. CASE u # t
    <3>1. run'[u] = run[u]
      BY <1>11, <2>2 DEF Opened, TypeOK
    <3> QED
      BY <1>2, <1>4, <2>1, <3>1
  <2>3. CASE u = t
    <3>1. /\ run[t].pc = "opening" /\ run'[t].pc = "configuring"
          /\ run'[t].charged = run[t].charged
      BY <1>11 DEF Opened, TypeOK, RunRows
    <3> QED
      BY <1>3, <2>1, <2>3, <3>1 DEF Budget, Asking
  <2> QED
    BY <2>2, <2>3
<1>12. ASSUME NEW t \in Tasks, PromptHeard(t) PROVE Budget(u)'
  <2>1. task'[u].attempts = task[u].attempts
    BY <1>12, StateTypes, KeepsAttempts DEF PromptHeard, TypeOK
  <2>2. CASE u # t
    <3>1. run'[u] = run[u] /\ heard'[u] = heard[u]
      BY <1>12, <2>2 DEF PromptHeard, TypeOK
    <3> QED
      BY <1>2, <1>4, <2>1, <3>1
  <2>3. CASE u = t
    <3>1. /\ run[t].pc \in Asking /\ run'[t].pc = "turn"
          /\ run'[t].charged = run[t].charged
          /\ heard'[t] = IF run[t].charged THEN heard[t] + 1 ELSE heard[t]
      BY <1>12 DEF PromptHeard, Ready, Asking, TypeOK, RunRows
    <3> QED
      BY <1>2, <1>3, <2>1, <2>3, <3>1 DEF Budget, Asking
  <2> QED
    BY <2>2, <2>3
<1>13. ASSUME NEW t \in Tasks, TurnOutOfQuota(t) PROVE Budget(u)'
  <2>1. CASE u # t
    <3>1. task'[u] = task[u] /\ run'[u] = run[u] /\ heard'[u] = heard[u]
      BY <1>13, <2>1 DEF TurnOutOfQuota, TypeOK
    <3> QED
      BY <1>2, <1>4, <3>1
  <2>2. CASE u = t
    <3>1. task'[t].attempts = IF task[t].attempts > 0 THEN task[t].attempts - 1 ELSE 0
      <4>1. \/ task'[t] = RefuseForQuota(task[t])
            \/ task'[t] = [RefuseForQuota(task[t]) EXCEPT !.paused = TRUE]
        BY <1>13 DEF TurnOutOfQuota, TypeOK
      <4>2. RefuseForQuota(task[t]).attempts
              = IF task[t].attempts > 0 THEN task[t].attempts - 1 ELSE 0
        BY StateTypes DEF RefuseForQuota, TaskRows
      <4>3. RefuseForQuota(task[t]) \in TaskRows
        BY StateTypes, RowTypes DEF Statuses
      <4> QED
        BY <4>1, <4>2, <4>3 DEF TaskRows
    <3>2. run'[t].pc \in {"idle", "blocking"}
      BY <1>13 DEF TurnOutOfQuota, TypeOK, RunRows, Idle
    <3>3. heard'[t] = IF run[t].charged THEN heard[t] - 1 ELSE heard[t]
      BY <1>13 DEF TurnOutOfQuota, TypeOK
    <3>4. run[t].pc = "turn"
      BY <1>13 DEF TurnOutOfQuota
    <3> QED
      BY <1>2, <1>3, <2>2, <3>1, <3>2, <3>3, <3>4 DEF Budget, Asking
  <2> QED
    BY <2>1, <2>2
<1>14. ASSUME NEW t \in Tasks, Bounce(t) PROVE Budget(u)'
  <2>1. CASE u # t
    <3>1. task'[u] = task[u] /\ run'[u] = run[u] /\ heard'[u] = heard[u]
      BY <1>14, <2>1 DEF Bounce, TypeOK
    <3> QED
      BY <1>2, <1>4, <3>1
  <2>2. CASE u = t
    <3>1. run'[t].pc \in {"idle", "blocking"}
      <4>1. \/ run'[t] = Idle
            \/ run'[t] = [run[t] EXCEPT !.pc = "blocking", !.charged = FALSE]
        BY <1>14 DEF Bounce, TypeOK
      <4>2. [run[t] EXCEPT !.pc = "blocking", !.charged = FALSE].pc = "blocking"
        BY StateTypes DEF RunRows
      <4>3. CASE run'[t] = Idle
        BY <4>3 DEF Idle
      <4>4. CASE run'[t] = [run[t] EXCEPT !.pc = "blocking", !.charged = FALSE]
        BY <4>2, <4>4, Zenon
      <4> QED
        BY <4>1, <4>3, <4>4
    <3>2. heard'[t] = 0 \/ (heard'[t] = heard[t] /\ task'[t] = task[t])
      BY <1>14 DEF Bounce, TypeOK
    <3> QED
      BY <1>2, <1>4, <1>5, <2>2, <3>1, <3>2 DEF Asking
  <2> QED
    BY <2>1, <2>2
<1>15. ASSUME NEW t \in Tasks, Advance(t) PROVE Budget(u)'
  <2>1. run'[u] = run[u] \/ run'[u].pc = "idle"
    BY <1>15 DEF Advance, TypeOK, Idle
  <2>2. CASE u # t
    <3>1. task'[u] = task[u] /\ run'[u] = run[u] /\ heard'[u] = heard[u]
      BY <1>15, <2>2 DEF Advance, TypeOK
    <3> QED
      BY <1>2, <1>4, <3>1
  <2>3. CASE u = t
    <3>1. heard'[t] = 0 \/ (heard'[t] = heard[t] /\ task'[t] = task[t])
      BY <1>15 DEF Advance, SetStatus, TypeOK
    <3>2. run'[t].pc = "idle"
      BY <1>15 DEF Advance, TypeOK, Idle
    <3> QED
      BY <1>2, <1>4, <1>5, <2>3, <3>1, <3>2 DEF Asking
  <2> QED
    BY <2>2, <2>3
<1>16. ASSUME NEW t \in Tasks, PauseEnds(t) PROVE Budget(u)'
  <2>1. task'[u].attempts = task[u].attempts
    BY <1>16 DEF PauseEnds, TypeOK, TaskRows
  <2> QED
    BY <1>2, <1>4, <1>16, <2>1 DEF PauseEnds
<1>17. ASSUME NEW c \in Clients, SendStep(c) PROVE Budget(u)'
  <2>1. task'[u].attempts = task[u].attempts
    <3>1. CASE SendRefused(c)
      BY <3>1, StateTypes, KeepsAttempts DEF SendRefused, TypeOK
    <3>2. CASE SendHeard(c)
      BY <3>2, StateTypes, KeepsAttempts DEF SendHeard, TypeOK
    <3>3. CASE UNCHANGED task
      BY <3>3
    <3> QED
      BY <1>17, <3>1, <3>2, <3>3
         DEF SendStep, SendOpened, SendFails, SendEnds, SendTimesOut
  <2>2. UNCHANGED <<run, heard>>
    BY <1>17 DEF SendStep, SendOpened, SendFails, SendRefused, SendHeard, SendEnds,
                 SendTimesOut
  <2> QED
    BY <1>2, <1>4, <2>1, <2>2
<1>18. ASSUME NEW s \in Sessions, GivenUpTurnEnds(s) \/ OtherTurnEnds(s) PROVE Budget(u)'
  BY <1>2, <1>4, <1>18 DEF GivenUpTurnEnds, OtherTurnEnds
<1>19. ASSUME NEW s \in Sessions, SessionExits(s) PROVE Budget(u)'
  <2>1. \/ run'[u].pc = "idle"
        \/ run'[u].pc = run[u].pc /\ run'[u].charged = run[u].charged
    BY <1>19, StateTypes DEF SessionExits, RunRows, Idle
  <2> QED
    BY <1>2, <1>4, <1>19, <2>1 DEF SessionExits, Asking
<1>20. ASSUME Crash PROVE Budget(u)'
  <2>1. run'[u].pc = "idle"
    BY <1>20 DEF Crash, Idle
  <2> QED
    BY <1>2, <1>4, <1>20, <2>1 DEF Crash, Asking
<1>21. ASSUME NEW t \in Tasks, NEW row, row.status = task[t].status =>
                row.attempts = task[t].attempts, Write(t, row)
       PROVE  Budget(u)'
  <2>1. CASE u # t
    <3>1. task'[u] = task[u] /\ run'[u] = run[u] /\ heard'[u] = heard[u]
      BY <1>21, <2>1 DEF Write, TypeOK
    <3> QED
      BY <1>2, <1>4, <3>1
  <2>2. CASE u = t /\ row.status = task[t].status
    <3>1. /\ task'[t].attempts = task[t].attempts
          /\ UNCHANGED <<run, heard>>
      BY <1>21, <2>2 DEF Write, TypeOK
    <3> QED
      BY <1>2, <1>4, <2>2, <3>1
  <2>3. CASE u = t /\ row.status # task[t].status
    <3>1. heard'[t] = 0 /\ ~run'[t].charged
      BY <1>21, <2>3 DEF Write, TypeOK, RunRows
    <3> QED
      BY <1>5, <2>3, <3>1
  <2> QED
    BY <2>1, <2>2, <2>3
\* A change of column that is not one writes nothing.
<1>22. ASSUME NEW t \in Tasks, NEW status \in Statuses
       PROVE  LET row == SetStatus(task[t], status)
              IN  row.status = task[t].status => row.attempts = task[t].attempts
  BY StateTypes DEF SetStatus, EnterStage, TaskRows
<1>23. ASSUME NEW t \in Tasks, NEW status \in Statuses, Move(t, status)
       PROVE  Budget(u)'
  <2> DEFINE row == SetStatus(task[t], status)
             hands == [row EXCEPT !.autonomy = "off"]
  <2>1. hands.status = row.status /\ hands.attempts = row.attempts
    BY StateTypes, RowTypes DEF TaskRows
  <2>2. Write(t, row) \/ Write(t, hands)
    BY <1>23 DEF Move
  <2> HIDE DEF row, hands
  <2>3. row.status = task[t].status => row.attempts = task[t].attempts
    BY <1>22 DEF row
  <2> QED
    BY <1>21, <2>1, <2>2, <2>3
<1>24. ASSUME NEW t \in Tasks, NEW status \in Statuses, PersonSetsStatus(t, status)
       PROVE  Budget(u)'
  BY <1>21, <1>22, <1>24 DEF PersonSetsStatus
<1>25. ASSUME NEW t \in Tasks, AgentSaysReview(t) PROVE Budget(u)'
  <2>1. "review" \in Statuses
    BY DEF Statuses, DueStatuses
  <2> QED
    BY <1>21, <1>22, <1>25, <2>1 DEF AgentSaysReview
<1>26. ASSUME NEW t \in Tasks, NEW autonomy, SetAutonomy(t, autonomy) PROVE Budget(u)'
  <2>1. task'[u].attempts = task[u].attempts
    BY <1>26 DEF SetAutonomy, TypeOK, TaskRows
  <2> QED
    BY <1>2, <1>4, <1>26, <2>1 DEF SetAutonomy
<1>27. ASSUME NEW new, SetMode(new) PROVE Budget(u)'
  BY <1>2, <1>4, <1>27 DEF SetMode
<1>28. ASSUME NEW c \in Clients, NEW t \in Tasks, Send(c, t) PROVE Budget(u)'
  BY <1>2, <1>4, <1>28 DEF Send
<1>29. ASSUME NEW s \in Sessions, Chat(s) PROVE Budget(u)'
  <2>1. task'[u].attempts = task[u].attempts
    BY <1>29, StateTypes, KeepsAttempts DEF Chat, TypeOK
  <2> QED
    BY <1>2, <1>4, <1>29, <2>1 DEF Chat
<1>30. CASE UNCHANGED vars
  BY <1>2, <1>4, <1>30 DEF vars
<1> QED
  BY <1>6, <1>7, <1>8, <1>9, <1>10, <1>11, <1>12, <1>13, <1>14, <1>15, <1>16, <1>17,
     <1>18, <1>19, <1>20, <1>23, <1>24, <1>25, <1>26, <1>27, <1>28, <1>29, <1>30
     DEF Next, Daemon, RunStep, TurnAnswer, Person

-----------------------------------------------------------------------------
(* Theorems *)

\* The initial states have their types, and no agent has heard anything.
LEMMA Initially == Init => TypeOK /\ BudgetInvariant
<1> SUFFICES ASSUME Init PROVE TypeOK /\ BudgetInvariant
  OBVIOUS
<1>1. NewTask("open") \in TaskRows /\ NewTask("backlog") \in TaskRows
  BY DEF NewTask, TaskRows, Statuses, DueStatuses, Findings
<1>2. TypeOK
  BY <1>1, EmptyRows DEF Init, TypeOK
<1>3. BudgetInvariant
  <2> SUFFICES ASSUME NEW t \in Tasks PROVE Budget(t)
    BY DEF BudgetInvariant
  <2>1. heard[t] = 0 /\ run[t].pc = "idle"
    BY DEF Init, Idle
  <2>2. task[t].attempts \in Nat /\ MAX_ATTEMPTS \in Nat
    BY <1>2, ConveyorAssumption DEF TypeOK, TaskRows
  <2> QED
    BY <2>1, <2>2 DEF Budget, Asking
<1> QED
  BY <1>2, <1>3

\* Every variable keeps its type in every reachable state.  What a turn out of
\* quota gives back is what the budget says was taken: the two are one invariant.
THEOREM Types == Spec => []TypeOK
<1>1. Init => TypeOK /\ BudgetInvariant
  BY Initially
<1>2. TypeOK /\ BudgetInvariant /\ [Next]_vars => (TypeOK /\ BudgetInvariant)'
  BY TypeStep, BudgetStep
<1> QED
  BY <1>1, <1>2, PTL DEF Spec

\* Of the turns charged to the stage of a card, never more are heard by an agent
\* than its row counts, and never more than MAX_ATTEMPTS, whatever crashes, dies,
\* is refused or is dragged in between (conveyor.ts, 469-476 and 538-567).
THEOREM AttemptsBounded == Spec => []HeardWithinAttempts
<1>1. Init => TypeOK /\ BudgetInvariant
  BY Initially
<1>2. TypeOK /\ BudgetInvariant /\ [Next]_vars => (TypeOK /\ BudgetInvariant)'
  BY TypeStep, BudgetStep
<1>3. BudgetInvariant => HeardWithinAttempts
  BY DEF BudgetInvariant, Budget, HeardWithinAttempts
<1> QED
  BY <1>1, <1>2, <1>3, PTL DEF Spec
=============================================================================
