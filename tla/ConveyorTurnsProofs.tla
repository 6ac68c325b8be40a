------------------------ MODULE ConveyorTurnsProofs ------------------------
(***************************************************************************)
(* The turns of the conveyor, the prompts it parks and the returns it      *)
(* counts, for any number of cards, sessions and clients.                  *)
(*                                                                         *)
(* One conversation per card and role is proved of the conveyor while      *)
(* nobody clicks on a parked prompt: a click and a run that both find none *)
(* alive open one each.  One turn per card and the ceiling of the          *)
(* workspace are proved while nobody types in a conversation either: of    *)
(* two prompts on one session, the first to end turns `promptInFlight` off *)
(* and the daemon forgets the other.  Parked prompts and returns are       *)
(* proved of the conveyor with everything people do.                       *)
(***************************************************************************)
EXTENDS ConveyorBeltProofs, MCConveyor, FiniteSetTheorems

-----------------------------------------------------------------------------
(* What a step does to the conversations *)

\* The same conversation: of the same card and role, alive if it was.
Kept(s) ==
    /\ session'[s].task = session[s].task
    /\ session'[s].role = session[s].role
    /\ session'[s].state = "free" <=> session[s].state = "free"

\* With the same turns of others.
Owned(s) == Kept(s) /\ session'[s].others = session[s].others

\* What the daemon believes of it, and how many turns it gave up, are the same too.
Still(s) ==
    /\ Owned(s)
    /\ session'[s].givenUp = session[s].givenUp
    /\ session'[s].inFlight = session[s].inFlight

\* What an answer leaves of a conversation, closed or not.
LEMMA AnsweredRows ==
    ASSUME NEW row \in SessionRows, NEW after,
           after = Answered(row) \/ after = [Answered(row) EXCEPT !.state = "closing"]
    PROVE  /\ after.task = row.task /\ after.role = row.role
           /\ after.others = row.others /\ after.givenUp = row.givenUp
           /\ after.state \in {row.state, "closing"} /\ ~after.inFlight
BY DEF Answered, SessionRows

\* The steps of a run that leave every conversation alone, but for closing its own.
ClosingRun(t) ==
    \/ PrepareFails(t) \/ NoLongerDue(t) \/ Park(t) \/ Charge(t) \/ Throws(t) \/ PromptDead(t)
    \/ JudgeUnfinished(t) \/ JudgeFinding(t) \/ Bounce(t) \/ JudgePass(t) \/ Advance(t)
    \/ BlockOff(t) \/ BlockReason(t) \/ PauseEnds(t)

LEMMA ClosingRuns ==
    ASSUME TypeOK, NEW t \in Tasks, ClosingRun(t),
           run[t].sess # None => Live(run[t].sess), NEW s \in Sessions
    PROVE  /\ Still(s)
           /\ s # run[t].sess => session'[s] = session[s]
           /\ latest' = latest /\ request' = request
<1>1. latest' = latest /\ request' = request
  BY DEF ClosingRun, PrepareFails, NoLongerDue, Park, Charge, Throws, PromptDead, JudgeUnfinished,
         JudgeFinding, Bounce, JudgePass, Advance, BlockOff, BlockReason, PauseEnds
<1>2. session' = session \/ Close(run[t].sess)
  BY DEF ClosingRun, PrepareFails, NoLongerDue, Park, Charge, Throws, PromptDead, JudgeUnfinished,
         JudgeFinding, Bounce, JudgePass, Advance, BlockOff, BlockReason, PauseEnds
<1>3. session[s] \in SessionRows
  BY StateTypes
<1>4. \/ session'[s] = session[s]
      \/ s = run[t].sess /\ session'[s] = [session[s] EXCEPT !.state = "closing"]
  BY <1>2 DEF Close, TypeOK
<1>5. CASE session'[s] = session[s]
  BY <1>1, <1>5 DEF Still, Owned, Kept
<1>6. CASE s = run[t].sess /\ session'[s] = [session[s] EXCEPT !.state = "closing"]
  <2>1. Live(s)
    BY <1>6, ConveyorAssumption
  <2> DEFINE after == [session[s] EXCEPT !.state = "closing"]
  <2>2. /\ after.task = session[s].task /\ after.role = session[s].role
        /\ after.others = session[s].others /\ after.givenUp = session[s].givenUp
        /\ after.inFlight = session[s].inFlight /\ after.state = "closing"
    BY <1>3 DEF SessionRows
  <2> HIDE DEF after
  <2> QED
    BY <1>1, <1>6, <2>1, <2>2 DEF Still, Owned, Kept, Live, after
<1> QED
  BY <1>4, <1>5, <1>6

\* The steps of a run that ask, or are answered.
AnsweredRun(t) == PromptRefused(t) \/ TurnEnds(t) \/ TurnFails(t) \/ TurnOutOfQuota(t)

LEMMA AnsweredRuns ==
    ASSUME TypeOK, NEW t \in Tasks, AnsweredRun(t),
           run[t].sess \in Sessions, Live(run[t].sess), NEW s \in Sessions
    PROVE  /\ Owned(s) /\ session'[s].givenUp = session[s].givenUp
           /\ s # run[t].sess => session'[s] = session[s]
           /\ s = run[t].sess => ~session'[s].inFlight
           /\ latest' = latest /\ request' = request
<1>1. session[s] \in SessionRows
  BY StateTypes
<1>2. \/ session' = [session EXCEPT ![run[t].sess] = Answered(session[run[t].sess])]
      \/ session' = [session EXCEPT ![run[t].sess] =
                       [Answered(session[run[t].sess]) EXCEPT !.state = "closing"]]
  BY DEF AnsweredRun, PromptRefused, TurnEnds, TurnFails, TurnOutOfQuota
<1>3. IF s = run[t].sess
      THEN session'[s] \in {Answered(session[s]),
                            [Answered(session[s]) EXCEPT !.state = "closing"]}
      ELSE session'[s] = session[s]
  BY <1>2 DEF TypeOK
<1>4. latest' = latest /\ request' = request
  BY DEF AnsweredRun, PromptRefused, TurnEnds, TurnFails, TurnOutOfQuota
<1>5. CASE s = run[t].sess
  <2> DEFINE after == session'[s]
  <2>1. \/ after = Answered(session[s])
        \/ after = [Answered(session[s]) EXCEPT !.state = "closing"]
    BY <1>3, <1>5
  <2>2. /\ after.task = session[s].task /\ after.role = session[s].role
        /\ after.others = session[s].others /\ after.givenUp = session[s].givenUp
        /\ after.state \in {session[s].state, "closing"} /\ ~after.inFlight
    BY <1>1, <2>1, AnsweredRows
  <2> HIDE DEF after
  <2> QED
    BY <1>4, <1>5, <2>2 DEF Owned, Kept, Live, after
<1>6. CASE s # run[t].sess
  BY <1>3, <1>4, <1>6 DEF Owned, Kept
<1> QED
  BY <1>5, <1>6

LEMMA HeardRuns ==
    ASSUME TypeOK, NEW t \in Tasks, PromptHeard(t), Live(run[t].sess), NEW s \in Sessions
    PROVE  /\ Owned(s) /\ session'[s].givenUp = session[s].givenUp
           /\ s # run[t].sess => session'[s] = session[s]
           /\ s = run[t].sess => session'[s].inFlight
           /\ latest' = latest /\ request' = request
<1>1. session[s] \in SessionRows /\ run[t].sess \in Sessions
  BY StateTypes DEF PromptHeard, RunRows
<1>2. session'[s] = IF s = run[t].sess THEN Asked(session[s]) ELSE session[s]
  BY <1>1 DEF PromptHeard, TypeOK
<1>3. /\ Asked(session[s]).task = session[s].task /\ Asked(session[s]).role = session[s].role
      /\ Asked(session[s]).others = session[s].others
      /\ Asked(session[s]).givenUp = session[s].givenUp
      /\ Asked(session[s]).state = session[s].state /\ Asked(session[s]).inFlight
  BY <1>1 DEF Asked, SessionRows
<1> QED
  BY <1>2, <1>3 DEF PromptHeard, Owned, Kept

\* A turn that runs into its ceiling is given up: it is still in flight.
LEMMA TimedOutRuns ==
    ASSUME TypeOK, NEW t \in Tasks, TurnTimesOut(t), run[t].sess \in Sessions,
           Live(run[t].sess), NEW s \in Sessions
    PROVE  /\ Owned(s) /\ session'[s].inFlight = session[s].inFlight
           /\ s # run[t].sess => session'[s] = session[s]
           /\ s = run[t].sess => session'[s].givenUp = session[s].givenUp + 1
           /\ latest' = latest /\ request' = request
<1>1. session[s] \in SessionRows
  BY StateTypes
<1>2. PICK state \in {"closing", session[run[t].sess].state} :
        session' = [session EXCEPT ![run[t].sess].givenUp = @ + 1, ![run[t].sess].state = state]
  BY DEF TurnTimesOut
<1>3. IF s = run[t].sess
      THEN session'[s] = [session[s] EXCEPT !.givenUp = @ + 1, !.state = state]
      ELSE session'[s] = session[s]
  BY <1>2 DEF TypeOK
<1> DEFINE after == [session[s] EXCEPT !.givenUp = @ + 1, !.state = state]
<1>4. /\ after.task = session[s].task /\ after.role = session[s].role
      /\ after.others = session[s].others /\ after.givenUp = session[s].givenUp + 1
      /\ after.state = state /\ after.inFlight = session[s].inFlight
  BY <1>1 DEF SessionRows
<1> HIDE DEF after
<1>5. latest' = latest /\ request' = request
  BY DEF TurnTimesOut
<1>6. CASE s = run[t].sess
  BY <1>2, <1>3, <1>4, <1>5, <1>6 DEF Owned, Kept, Live, after
<1>7. CASE s # run[t].sess
  BY <1>3, <1>5, <1>7 DEF Owned, Kept
<1> QED
  BY <1>6, <1>7

-----------------------------------------------------------------------------
(* One conversation per card and role *)

\* A run talks to a live conversation of its card, opens one only where there
\* is none, and its turn is on one.
Holds(t) ==
    /\ run[t].sess # None => Live(run[t].sess) /\ session[run[t].sess].task = t
    /\ run[t].pc = "opening" => latest[t][Role(t)] = None
    /\ run[t].pc = "turn" => run[t].sess # None

\* Nobody has clicked, and the newest conversation of a card and role is the
\* only one.
Conversations ==
    /\ \A c \in Clients : request[c].pc = "idle"
    /\ \A s \in Sessions : Live(s) =>
          session[s].task \in Tasks /\ latest[session[s].task][session[s].role] = s
    /\ \A t \in Tasks, r \in Roles : latest[t][r] # None =>
          /\ Live(latest[t][r])
          /\ session[latest[t][r]].task = t
    /\ \A t \in Tasks : Holds(t)

\* A request that was not made goes no further.
LEMMA NoSend == Conversations => \A c \in Clients : ~SendStep(c)
BY DEF Conversations, SendStep, SendOpened, SendFails, SendRefused, SendHeard, SendReady,
       SendEnds, SendTimesOut

\* What a run has, or is given, is there.
LEMMA HeldSessions ==
    ASSUME TypeOK, Conversations, NEW t \in Tasks
    PROVE  /\ run[t].sess \in Sessions \cup {None}
           /\ run[t].sess # None =>
                run[t].sess \in Sessions /\ Live(run[t].sess) /\ session[run[t].sess].task = t
BY StateTypes DEF Conversations, Holds, RunRows

\* Steps that open and end no conversation.
LEMMA KeptStep ==
    ASSUME TypeOK, Conversations, \A s \in Sessions : Kept(s), latest' = latest, request' = request,
           \A t \in Tasks :
              /\ \/ run'[t].sess \in {run[t].sess, None}
                 \/ \E r \in Roles : run'[t].sess = latest[t][r]
              /\ run'[t].pc = "opening" => latest[t][Role(t)'] = None
              /\ run'[t].pc = "turn" => run'[t].sess # None
    PROVE  Conversations'
<1>1. ASSUME NEW s \in Sessions
      PROVE  /\ Live(s)' <=> Live(s)
             /\ session'[s].task = session[s].task /\ session'[s].role = session[s].role
  BY DEF Kept, Live
<1>2. \A t \in Tasks, r \in Roles : latest[t][r] \in Sessions \cup {None}
  BY DEF TypeOK
<1>3. \A s \in Sessions : Live(s)' =>
        session'[s].task \in Tasks /\ latest'[session'[s].task][session'[s].role] = s
  BY <1>1 DEF Conversations
<1>4. \A t \in Tasks, r \in Roles : latest'[t][r] # None =>
        session'[latest'[t][r]].state # "free" /\ session'[latest'[t][r]].task = t
  <2> SUFFICES ASSUME NEW t \in Tasks, NEW r \in Roles, latest[t][r] # None
               PROVE  session'[latest[t][r]].state # "free" /\ session'[latest[t][r]].task = t
    OBVIOUS
  <2>1. /\ latest[t][r] \in Sessions /\ Live(latest[t][r])
        /\ session[latest[t][r]].task = t
    BY <1>2 DEF Conversations
  <2> QED
    BY <1>1, <2>1 DEF Live
<1>5. ASSUME NEW t \in Tasks PROVE Holds(t)'
  <2>1. run[t].sess # None =>
          run[t].sess \in Sessions /\ Live(run[t].sess) /\ session[run[t].sess].task = t
    BY HeldSessions
  <2>2. \A r \in Roles : latest[t][r] # None =>
          latest[t][r] \in Sessions /\ Live(latest[t][r]) /\ session[latest[t][r]].task = t
    BY <1>2 DEF Conversations
  <2>3. run'[t].sess # None =>
          /\ run'[t].sess \in Sessions /\ Live(run'[t].sess)
          /\ session[run'[t].sess].task = t
    BY <2>1, <2>2
  <2>4. run'[t].sess # None => session'[run'[t].sess].state # "free" /\ session'[run'[t].sess].task = t
    BY <1>1, <2>3 DEF Live
  <2> QED
    BY <2>4 DEF Holds, Live
<1>6. \A c \in Clients : request'[c].pc = "idle"
  BY DEF Conversations
<1> QED
  BY <1>3, <1>4, <1>5, <1>6 DEF Conversations, Live

\* A run that is somewhere else, with the conversation it had or none.
LEMMA KeptRun ==
    ASSUME TypeOK, Conversations, \A s \in Sessions : Kept(s), latest' = latest, request' = request,
           \A t \in Tasks :
              \/ run'[t] = run[t]
              \/ /\ run'[t].sess \in {run[t].sess, None} /\ run'[t].pc # "opening"
                 /\ run'[t].pc = "turn" => run'[t].sess # None
    PROVE  Conversations'
<1>1. ASSUME NEW t \in Tasks
      PROVE  /\ run'[t].sess \in {run[t].sess, None}
             /\ run'[t].pc = "opening" => latest[t][Role(t)'] = None
             /\ run'[t].pc = "turn" => run'[t].sess # None
  BY DEF Conversations, Holds, Role
<1> QED
  BY <1>1, KeptStep

\* The conversation a run has after a step of it that opens none.
LEMMA RunKeeps ==
    ASSUME TypeOK, NEW t \in Tasks, RunStep(t) \/ TurnAnswer(t) \/ PauseEnds(t),
           ~Opened(t), ~Charge(t)
    PROVE  run'[t].sess \in {run[t].sess, None}
<1>1. /\ [run[t] EXCEPT !.pc = "blocking"].sess = run[t].sess
      /\ [run[t] EXCEPT !.pc = "blocking", !.charged = FALSE].sess = run[t].sess
  BY StateTypes DEF RunRows
<1>2. Idle.sess = None
  BY DEF Idle
<1>3. CASE \/ PrepareFails(t) \/ TurnTimesOut(t) \/ JudgeUnfinished(t)
           \/ TurnOutOfQuota(t) \/ Bounce(t)
  <2>1. \/ run'[t] = Idle
        \/ run'[t] = [run[t] EXCEPT !.pc = "blocking"]
        \/ run'[t] = [run[t] EXCEPT !.pc = "blocking", !.charged = FALSE]
    BY <1>3 DEF PrepareFails, TurnTimesOut, JudgeUnfinished, TurnOutOfQuota, Bounce,
                AfterUnfinished, TypeOK
  <2> QED
    BY <1>1, <1>2, <2>1
<1>4. CASE \/ NoLongerDue(t) \/ Park(t) \/ Throws(t) \/ PromptDead(t)
           \/ TurnFails(t) \/ Advance(t) \/ BlockReason(t)
  <2>1. run'[t] = Idle
    BY <1>4 DEF NoLongerDue, Park, Throws, PromptDead, TurnFails, Advance, BlockReason, TypeOK
  <2> QED
    BY <1>2, <2>1
<1>5. CASE PromptRefused(t) \/ PromptHeard(t) \/ TurnEnds(t)
  BY <1>5 DEF PromptRefused, PromptHeard, TurnEnds, TypeOK, RunRows
<1>6. CASE JudgeFinding(t) \/ JudgePass(t) \/ BlockOff(t) \/ PauseEnds(t)
  BY <1>6 DEF JudgeFinding, JudgePass, BlockOff, PauseEnds, TypeOK, RunRows
<1> QED
  BY <1>3, <1>4, <1>5, <1>6 DEF RunStep, TurnAnswer

\* The steps of runs keep the conversations apart: an attempt goes on in the one
\* that is alive, and opens one only if there is none.
LEMMA ConversationsRun ==
    ASSUME TypeOK, Conversations, NEW t \in Tasks, RunStep(t) \/ TurnAnswer(t) \/ PauseEnds(t)
    PROVE  Conversations'
<1>1. /\ run[t].sess \in Sessions \cup {None}
      /\ run[t].sess # None =>
           run[t].sess \in Sessions /\ Live(run[t].sess) /\ session[run[t].sess].task = t
  BY HeldSessions
<1>2. \A u \in Tasks \ {t} : run'[u] = run[u]
  BY OtherCards
<1>3. CASE ~Opened(t) /\ ~Charge(t)
  <2>1. run'[t].sess \in {run[t].sess, None}
    BY <1>3, RunKeeps
  <2>2. run'[t] = run[t] \/ run'[t].pc # "opening"
    BY <1>3, RunGoes DEF RunStep, TurnAnswer, PauseEnds
  <2>3. PauseEnds(t) \/ (run'[t].pc = "turn" => run'[t].sess # None)
    <3>1. PromptHeard(t) => run[t].sess # None /\ run'[t].sess = run[t].sess
      BY DEF PromptHeard, TypeOK, RunRows
    <3> QED
      BY <1>3, <3>1, RunGoes DEF RunStep, TurnAnswer
  <2>4. (\A s \in Sessions : Kept(s)) /\ latest' = latest /\ request' = request
    <3>1. CASE ClosingRun(t)
      <4>1. latest' = latest /\ request' = request
        BY <3>1 DEF ClosingRun, PrepareFails, NoLongerDue, Park, Charge, Throws, PromptDead,
                    JudgeUnfinished, JudgeFinding, Bounce, JudgePass, Advance, BlockOff,
                    BlockReason, PauseEnds
      <4> QED
        BY <1>1, <3>1, <4>1, ClosingRuns DEF Still, Owned
    <3>2. CASE AnsweredRun(t)
      <4>1. run[t].sess \in Sessions
        BY <1>1, <3>2 DEF AnsweredRun, PromptRefused, TurnEnds, TurnFails, TurnOutOfQuota,
                          Conversations, Holds
      <4>2. latest' = latest /\ request' = request
        BY <3>2 DEF AnsweredRun, PromptRefused, TurnEnds, TurnFails, TurnOutOfQuota
      <4> QED
        BY <1>1, <3>2, <4>1, <4>2, ConveyorAssumption, AnsweredRuns DEF Owned
    <3>3. CASE PromptHeard(t)
      <4>1. Live(run[t].sess) /\ latest' = latest /\ request' = request
        BY <1>1, <3>3 DEF PromptHeard
      <4> QED
        BY <3>3, <4>1, HeardRuns DEF Owned
    <3>4. CASE TurnTimesOut(t)
      <4>1. run[t].sess \in Sessions /\ Live(run[t].sess) /\ latest' = latest /\ request' = request
        BY <1>1, <3>4 DEF TurnTimesOut, Conversations, Holds
      <4> QED
        BY <3>4, <4>1, TimedOutRuns DEF Owned
    <3> QED
      BY <1>3, <3>1, <3>2, <3>3, <3>4 DEF RunStep, TurnAnswer, ClosingRun, AnsweredRun
  <2>5. PauseEnds(t) => run'[t] = run[t]
    BY DEF PauseEnds
  <2> QED
    BY <1>2, <2>1, <2>2, <2>3, <2>4, <2>5, KeptRun
<1>4. CASE Charge(t)
  <2>1. (\A s \in Sessions : Kept(s)) /\ latest' = latest /\ request' = request
    <3>1. latest' = latest /\ request' = request
      BY <1>4 DEF Charge
    <3> QED
      BY <1>1, <1>4, <3>1, ClosingRuns DEF Still, Owned, ClosingRun
  <2> DEFINE alive == Alive(t, Role(t))
  <2>2. Role(t) \in Roles /\ alive = latest[t][Role(t)]
    BY StateTypes DEF Alive
  <2>3. /\ run'[t].status = run[t].status
        /\ run'[t].pc \in {"blocking", "prompting", "opening"}
        /\ run'[t].sess \in {alive, None}
        /\ run'[t].pc = "opening" => alive = None
    <3>1. \E pc \in {"blocking", "prompting", "opening"} :
            /\ run'[t] = [run[t] EXCEPT !.pc = pc, !.attempt = task[t].attempts + 1,
                                        !.charged = TRUE, !.carries = Carries(t),
                                        !.sess = IF pc = "prompting" THEN alive ELSE None]
            /\ pc = "opening" => alive = None
      BY <1>4 DEF Charge, TypeOK
    <3> HIDE DEF alive
    <3> QED
      BY <3>1, StateTypes DEF RunRows
  <2>4. Role(t)' = Role(t)
    BY <2>3 DEF Role
  <2> HIDE DEF alive
  <2>5. ASSUME NEW u \in Tasks
        PROVE  /\ \/ run'[u].sess \in {run[u].sess, None}
                  \/ \E r \in Roles : run'[u].sess = latest[u][r]
               /\ run'[u].pc = "opening" => latest[u][Role(u)'] = None
               /\ run'[u].pc = "turn" => run'[u].sess # None
    <3>1. CASE u = t
      BY <2>2, <2>3, <2>4, <3>1
    <3>2. CASE u # t
      BY <1>2, <3>2 DEF Role, Conversations, Holds
    <3> QED
      BY <3>1, <3>2
  <2> QED
    BY <2>1, <2>5, KeptStep
<1>5. CASE Opened(t)
  <2>1. PICK s \in Sessions :
          /\ ~Live(s)
          /\ session' = [session EXCEPT ![s] = NewSession(t, Role(t))]
          /\ latest' = [latest EXCEPT ![t][Role(t)] = s]
          /\ run' = [run EXCEPT ![t].pc = "configuring", ![t].sess = s]
    BY <1>5 DEF Opened
  <2>2. Role(t) \in Roles /\ latest[t][Role(t)] = None /\ request' = request
    BY <1>5, StateTypes DEF Opened, Conversations, Holds
  <2>3. /\ session'[s].task = t /\ session'[s].role = Role(t) /\ session'[s].state = "running"
        /\ \A u \in Sessions \ {s} : session'[u] = session[u]
    BY <2>1 DEF NewSession, Free, TypeOK
  <2>4. /\ latest'[t][Role(t)] = s
        /\ \A u \in Tasks, r \in Roles : u # t \/ r # Role(t) => latest'[u][r] = latest[u][r]
    BY <2>1, <2>2 DEF TypeOK
  <2>5. /\ run'[t].pc = "configuring" /\ run'[t].sess = s
        /\ \A u \in Tasks \ {t} : run'[u] = run[u]
    BY <2>1 DEF TypeOK, RunRows
  <2>6. \A u \in Tasks, r \in Roles : latest[u][r] \in Sessions \cup {None}
    BY DEF TypeOK
  <2>7. ASSUME NEW u \in Sessions, Live(u)'
        PROVE  session'[u].task \in Tasks /\ latest'[session'[u].task][session'[u].role] = u
    <3>1. CASE u = s
      BY <2>3, <2>4, <3>1
    <3>2. CASE u # s
      <4>1. session'[u] = session[u] /\ Live(u)
        BY <2>3, <2>7, <3>2 DEF Live
      <4>2. /\ session[u].task \in Tasks /\ session[u].role \in Roles
            /\ latest[session[u].task][session[u].role] = u
        BY <4>1, StateTypes DEF Conversations, SessionRows
      <4>3. u # None
        BY ConveyorAssumption
      <4> QED
        BY <2>2, <2>4, <4>1, <4>2, <4>3
    <3> QED
      BY <3>1, <3>2
  <2>8. ASSUME NEW u \in Tasks, NEW r \in Roles, latest'[u][r] # None
        PROVE  session'[latest'[u][r]].state # "free" /\ session'[latest'[u][r]].task = u
    <3>1. CASE u = t /\ r = Role(t)
      BY <2>3, <2>4, <3>1 DEF Live
    <3>2. CASE u # t \/ r # Role(t)
      <4>1. latest'[u][r] = latest[u][r] /\ Live(latest[u][r]) /\ session[latest[u][r]].task = u
        BY <2>4, <2>8, <3>2 DEF Conversations
      <4>2. latest[u][r] \in Sessions \ {s}
        BY <2>1, <2>6, <2>8, <4>1
      <4>3. latest'[u][r] = latest[u][r] /\ session'[latest[u][r]] = session[latest[u][r]]
        BY <2>3, <4>1, <4>2
      <4> QED
        BY <4>1, <4>3 DEF Live
    <3> QED
      BY <3>1, <3>2
  <2>9. ASSUME NEW u \in Tasks PROVE Holds(u)'
    <3>1. CASE u = t
      BY <2>3, <2>5, <3>1, ConveyorAssumption DEF Holds, Live
    <3>2. CASE u # t
      <4>1. Holds(u) /\ run'[u] = run[u] /\ Role(u)' = Role(u) /\ Role(u) \in Roles
        BY <2>5, <3>2, StateTypes DEF Conversations, Role
      <4>2. latest'[u][Role(u)] = latest[u][Role(u)]
        BY <2>4, <3>2, <4>1
      <4>3. run[u].sess # None => run[u].sess \in Sessions \ {s}
        BY <2>1, <4>1, HeldSessions
      <4> QED
        BY <2>3, <4>1, <4>2, <4>3 DEF Holds, Live
    <3> QED
      BY <3>1, <3>2
  <2>10. \A c \in Clients : request'[c].pc = "idle"
    BY <2>2 DEF Conversations
  <2> QED
    BY <2>7, <2>8, <2>9, <2>10 DEF Conversations, Live
<1> QED
  BY <1>3, <1>4, <1>5

\* A conversation that ends is free again, and nobody holds it.
LEMMA ConversationsExit ==
    ASSUME TypeOK, Conversations, NEW s \in Sessions, SessionExits(s)
    PROVE  Conversations'
<1>1. session'[s] = Free /\ \A u \in Sessions \ {s} : session'[u] = session[u]
  BY DEF SessionExits, TypeOK
<1>2. Free.state = "free" /\ s # None
  BY ConveyorAssumption DEF Free
<1>3. \A t \in Tasks, r \in Roles :
        latest'[t][r] = IF latest[t][r] = s THEN None ELSE latest[t][r]
  BY DEF SessionExits
<1>4. ASSUME NEW u \in Sessions, Live(u)'
      PROVE  session'[u].task \in Tasks /\ latest'[session'[u].task][session'[u].role] = u
  <2>1. u # s
    BY <1>1, <1>2, <1>4 DEF Live
  <2>2. Live(u) /\ session'[u] = session[u]
    BY <1>1, <1>4, <2>1 DEF Live
  <2>3. /\ session[u].task \in Tasks /\ session[u].role \in Roles
        /\ latest[session[u].task][session[u].role] = u
    BY <2>2, StateTypes DEF Conversations, SessionRows
  <2> QED
    BY <1>3, <2>1, <2>2, <2>3
<1>5. ASSUME NEW t \in Tasks, NEW r \in Roles, latest'[t][r] # None
      PROVE  session'[latest'[t][r]].state # "free" /\ session'[latest'[t][r]].task = t
  <2>1. latest'[t][r] = latest[t][r] /\ latest[t][r] # s /\ latest[t][r] # None
    BY <1>3, <1>5
  <2>2. latest[t][r] \in Sessions \ {s}
    BY <2>1 DEF TypeOK
  <2>3. session'[latest[t][r]] = session[latest[t][r]]
    BY <1>1, <2>2
  <2>4. session[latest[t][r]].state # "free" /\ session[latest[t][r]].task = t
    BY <2>1 DEF Conversations, Live
  <2> QED
    BY <2>1, <2>3, <2>4
<1>6. ASSUME NEW t \in Tasks PROVE Holds(t)'
  <2>1. CASE run'[t] = run[t] /\ run[t].sess # s
    <3>1. Role(t)' = Role(t) /\ Role(t) \in Roles
      BY <2>1, StateTypes DEF Role
    <3>2. run[t].sess # None =>
            /\ run[t].sess \in Sessions \ {s} /\ session[run[t].sess].state # "free"
            /\ session[run[t].sess].task = t
      BY <2>1, HeldSessions DEF Live
    <3>3. run[t].sess # None => session'[run[t].sess] = session[run[t].sess]
      BY <1>1, <3>2
    <3>4. run[t].pc = "opening" => latest'[t][Role(t)] = None
      BY <1>3, <3>1 DEF Conversations, Holds
    <3>5. run[t].pc = "turn" => run[t].sess # None
      BY DEF Conversations, Holds
    <3> QED
      BY <2>1, <3>1, <3>2, <3>3, <3>4, <3>5 DEF Holds, Live
  <2>2. CASE run'[t] = Idle
    BY <2>2 DEF Idle, Holds
  <2>3. CASE run'[t] = [run[t] EXCEPT !.sess = None] /\ run[t].pc # "turn"
    <3>1. /\ run'[t].sess = None /\ run'[t].pc = run[t].pc /\ run'[t].status = run[t].status
      BY <2>3, StateTypes DEF RunRows
    <3>2. Role(t)' = Role(t) /\ Role(t) \in Roles
      BY <3>1, StateTypes DEF Role
    <3> QED
      BY <1>3, <2>3, <3>1, <3>2 DEF Holds, Conversations
  <2> QED
    BY <2>1, <2>2, <2>3 DEF SessionExits
<1>7. ASSUME NEW c \in Clients PROVE request'[c].pc = "idle"
  <2>1. \/ request'[c] = request[c] \/ request'[c] = NoRequest
        \/ request'[c] = [request[c] EXCEPT !.sess = None]
    BY DEF SessionExits
  <2>2. request[c] \in RequestRows /\ request[c].pc = "idle"
    BY StateTypes DEF Conversations
  <2> QED
    BY <2>1, <2>2 DEF RequestRows, NoRequest
<1> QED
  BY <1>4, <1>5, <1>6, <1>7 DEF Conversations, Live

\* A turn that nobody waits for ends, and a person types.
LEMMA TurnsOfNobody ==
    ASSUME TypeOK, NEW s \in Sessions, GivenUpTurnEnds(s) \/ OtherTurnEnds(s) \/ Chat(s),
           NEW u \in Sessions
    PROVE  /\ Kept(u)
           /\ u # s => session'[u] = session[u]
           /\ UNCHANGED <<latest, run, request>>
<1>1. session[u] \in SessionRows
  BY StateTypes
<1>2. UNCHANGED <<latest, run, request>>
  BY DEF GivenUpTurnEnds, OtherTurnEnds, Chat
<1>3. \/ session' = [session EXCEPT ![s].inFlight = FALSE, ![s].givenUp = @ - 1]
      \/ session' = [session EXCEPT ![s].inFlight = FALSE, ![s].others = @ - 1]
      \/ session' = [session EXCEPT ![s].inFlight = TRUE, ![s].others = @ + 1]
  BY DEF GivenUpTurnEnds, OtherTurnEnds, Chat
<1>4. CASE u # s
  BY <1>2, <1>3, <1>4 DEF TypeOK, Kept
<1>5. CASE u = s
  <2>1. \/ session'[u] = [session[u] EXCEPT !.inFlight = FALSE, !.givenUp = @ - 1]
        \/ session'[u] = [session[u] EXCEPT !.inFlight = FALSE, !.others = @ - 1]
        \/ session'[u] = [session[u] EXCEPT !.inFlight = TRUE, !.others = @ + 1]
    BY <1>3, <1>5 DEF TypeOK
  <2>2. /\ session'[u].task = session[u].task /\ session'[u].role = session[u].role
        /\ session'[u].state = session[u].state
    BY <1>1, <2>1 DEF SessionRows
  <2> QED
    BY <1>2, <1>5, <2>2 DEF Kept
<1> QED
  BY <1>4, <1>5

\* People at the board, and agents that post, leave conversations and runs alone.
LEMMA BoardWrites ==
    ASSUME TypeOK, NEW t \in Tasks,
           \/ \E status \in Statuses : Move(t, status) \/ PersonSetsStatus(t, status)
           \/ \E autonomy \in {"inherit", "off"} : SetAutonomy(t, autonomy)
           \/ AgentSaysReview(t),
           NEW u \in Tasks
    PROVE  /\ UNCHANGED <<session, latest, request>>
           /\ run'[u].pc = run[u].pc /\ run'[u].sess = run[u].sess
           /\ run'[u].status = run[u].status
<1>1. UNCHANGED <<session, latest, request>>
  BY DEF Move, PersonSetsStatus, SetAutonomy, AgentSaysReview
<1>2. run'[u] = run[u] \/ run'[u] = [run[u] EXCEPT !.charged = FALSE]
  <2>1. ASSUME NEW row, Write(t, row)
        PROVE  run'[u] = run[u] \/ run'[u] = [run[u] EXCEPT !.charged = FALSE]
    BY <2>1, ZenonT(30) DEF Write, TypeOK
  <2> QED
    BY <2>1 DEF Move, PersonSetsStatus, SetAutonomy, AgentSaysReview
<1> QED
  BY <1>1, <1>2, StateTypes DEF RunRows

\* The queue takes cards whose runs are idle.
LEMMA TickRuns ==
    ASSUME TypeOK, Tick, NEW t \in Tasks
    PROVE  /\ run'[t] = run[t] \/ (run'[t].pc = "preparing" /\ run'[t].sess = None)
           /\ UNCHANGED <<session, latest, request>>
<1>1. run'[t] = run[t] \/ run'[t] = Started(t)
  BY DEF Tick
<1>2. Started(t).pc = "preparing" /\ Started(t).sess = None
  BY DEF Started, Idle
<1> QED
  BY <1>1, <1>2 DEF Tick

\* Every step but a click.
LEMMA ConversationsNext ==
    TypeOK /\ Conversations /\ [Next /\ ~Clicked]_vars => Conversations'
<1> SUFFICES ASSUME TypeOK, Conversations, [Next /\ ~Clicked]_vars PROVE Conversations'
  OBVIOUS
<1>0. ASSUME NEW s \in Sessions, session'[s] = session[s] PROVE Kept(s)
  BY <1>0 DEF Kept
<1>1. CASE Tick
  <2>1. UNCHANGED <<session, latest, request>>
    BY <1>1 DEF Tick
  <2>2. \A t \in Tasks : run'[t] = run[t] \/ (run'[t].pc = "preparing" /\ run'[t].sess = None)
    BY <1>1, TickRuns
  <2> QED
    BY <1>0, <2>1, <2>2, KeptRun
<1>2. ASSUME NEW t \in Tasks, RunStep(t) \/ TurnAnswer(t) \/ PauseEnds(t) PROVE Conversations'
  BY <1>2, ConversationsRun
<1>3. ASSUME NEW s \in Sessions, GivenUpTurnEnds(s) \/ OtherTurnEnds(s) \/ Chat(s)
      PROVE  Conversations'
  <2>1. UNCHANGED <<latest, run, request>>
    BY <1>3 DEF GivenUpTurnEnds, OtherTurnEnds, Chat
  <2> QED
    BY <1>3, <2>1, TurnsOfNobody, KeptRun
<1>4. ASSUME NEW s \in Sessions, SessionExits(s) PROVE Conversations'
  BY <1>4, ConversationsExit
<1>5. ASSUME NEW t \in Tasks,
             \/ \E status \in Statuses : Move(t, status) \/ PersonSetsStatus(t, status)
             \/ \E autonomy \in {"inherit", "off"} : SetAutonomy(t, autonomy)
             \/ AgentSaysReview(t)
      PROVE  Conversations'
  <2>1. UNCHANGED <<session, latest, request>>
    BY <1>5 DEF Move, PersonSetsStatus, SetAutonomy, AgentSaysReview
  <2>2. ASSUME NEW u \in Tasks
        PROVE  /\ run'[u].sess = run[u].sess
               /\ run'[u].pc = "opening" => latest[u][Role(u)'] = None
               /\ run'[u].pc = "turn" => run'[u].sess # None
    <3>1. run'[u].pc = run[u].pc /\ run'[u].sess = run[u].sess /\ run'[u].status = run[u].status
      BY <1>5, BoardWrites
    <3> QED
      BY <3>1 DEF Conversations, Holds, Role
  <2> QED
    BY <1>0, <2>1, <2>2, KeptStep
<1>6. CASE Crash
  <2>1. Free.state = "free" /\ Idle.sess = None /\ Idle.pc = "idle" /\ NoRequest.pc = "idle"
    BY DEF Free, Idle, NoRequest
  <2> QED
    BY <1>6, <2>1 DEF Crash, Conversations, Holds, Live
<1>7. CASE UNCHANGED <<session, latest, run, request>>
  BY <1>0, <1>7, KeptRun
<1> QED
  BY <1>1, <1>2, <1>3, <1>4, <1>5, <1>6, <1>7, NoSend
     DEF Next, Daemon, Person, SetMode, Clicked, vars

LEMMA ConversationsInit == Init => Conversations
BY DEF Init, Conversations, Holds, Live, Free, Idle, NoRequest

\* A second attempt goes on in the conversation that is alive, and a card and
\* role never have two, for any number of cards and sessions and whatever dies,
\* fails, is given up or is typed in between, as long as nobody clicks on a
\* parked prompt (conveyor-ports.ts, openSession).
THEOREM OneToTalkTo == UnclickedSpec => []OneConversation
<1>1. Conversations => OneConversation
  BY DEF Conversations, OneConversation
<1>2. TypeOK /\ BudgetInvariant /\ Conversations /\ [Next /\ ~Clicked]_vars
        => (TypeOK /\ BudgetInvariant /\ Conversations)'
  <2>1. [Next /\ ~Clicked]_vars => [Next]_vars
    OBVIOUS
  <2> QED
    BY <2>1, TypeStep, BudgetStep, ConversationsNext
<1> QED
  BY <1>1, <1>2, Initially, ConversationsInit, PTL DEF UnclickedSpec

-----------------------------------------------------------------------------
(* One turn at a time *)

\* With people out of the conversations, the turns that are not a run's are the
\* ones the conveyor gave up.  Such a turn is alone on its card: it is still in
\* flight, so the card is not taken again before it ends.
Undisturbed ==
    /\ \A s \in Sessions :
          /\ session[s].others = 0
          /\ session[s].givenUp # 0 =>
                /\ Live(s) /\ session[s].givenUp = 1 /\ session[s].inFlight
                /\ run[session[s].task].pc \notin Asking \cup {"turn"}
    /\ \A s, u \in Sessions :
          session[s].givenUp # 0 /\ session[u].givenUp # 0 /\ session[s].task = session[u].task
            => s = u
    /\ \A t \in Tasks : run[t].pc = "turn" => session[run[t].sess].inFlight

\* A conversation whose given up turn, if there is one, was there before.
NoNewTurn(s) ==
    /\ session'[s].others = 0
    /\ session'[s].givenUp # 0 =>
          Kept(s) /\ session'[s].givenUp = session[s].givenUp
            /\ session'[s].inFlight = session[s].inFlight

\* Steps that give no turn up, and prompt only where none is in flight.
LEMMA UndisturbedStep ==
    ASSUME TypeOK, Conversations, Undisturbed, \A s \in Sessions : NoNewTurn(s),
           \A t \in Tasks :
              /\ run'[t].pc \in Asking \cup {"turn"} =>
                    run[t].pc \in Asking \cup {"turn"} \/ LiveTurns(t) = {}
              /\ run'[t].pc = "turn" => session'[run'[t].sess].inFlight
    PROVE  Undisturbed'
<1>1. ASSUME NEW s \in Sessions, session'[s].givenUp # 0
      PROVE  /\ session[s].givenUp # 0 /\ session'[s].task = session[s].task
             /\ session'[s].state # "free" /\ session'[s].givenUp = 1 /\ session'[s].inFlight
             /\ run'[session'[s].task].pc \notin Asking \cup {"turn"}
  <2>1. /\ Kept(s) /\ session[s].givenUp # 0
        /\ session'[s].givenUp = session[s].givenUp
        /\ session'[s].inFlight = session[s].inFlight
    BY <1>1 DEF NoNewTurn
  <2>2. /\ Live(s) /\ session[s].givenUp = 1 /\ session[s].inFlight
        /\ run[session[s].task].pc \notin Asking \cup {"turn"}
    BY <2>1 DEF Undisturbed
  <2>3. session[s].task \in Tasks /\ LiveTurns(session[s].task) # {}
    BY <2>2 DEF Conversations, LiveTurns
  <2> QED
    BY <2>1, <2>2, <2>3 DEF Kept, Live
<1>2. \A s \in Sessions : session'[s].others = 0
  BY DEF NoNewTurn
<1>3. \A s, u \in Sessions :
        session'[s].givenUp # 0 /\ session'[u].givenUp # 0 /\ session'[s].task = session'[u].task
          => s = u
  BY <1>1 DEF Undisturbed
<1> QED
  BY <1>1, <1>2, <1>3 DEF Undisturbed, Live

\* The prompts of a run whose steps give no turn up.
LEMMA UndisturbedRun ==
    ASSUME TypeOK, Conversations, Undisturbed, NEW t \in Tasks,
           RunStep(t) \/ TurnAnswer(t) \/ PauseEnds(t)
    PROVE  Undisturbed'
<1> DEFINE own == run[t].sess
<1>1. /\ own \in Sessions \cup {None}
      /\ own # None => own \in Sessions /\ Live(own) /\ session[own].task = t
  BY HeldSessions
<1>2. \A u \in Tasks \ {t} : run'[u] = run[u]
  BY OtherCards
<1>3. \A s \in Sessions : session[s].others = 0
  BY DEF Undisturbed
\* Another run's turn is on a conversation of its own.
<1>4. ASSUME NEW u \in Tasks \ {t}, run[u].pc = "turn",
             \A s \in Sessions : s # own => session'[s] = session[s]
      PROVE  session'[run'[u].sess].inFlight
  <2>1. /\ run[u].sess \in Sessions /\ session[run[u].sess].task = u
        /\ session[run[u].sess].inFlight
    BY <1>4, HeldSessions DEF Conversations, Holds, Undisturbed
  <2>2. run[u].sess # own
    BY <1>1, <2>1, ConveyorAssumption
  <2> QED
    BY <1>2, <1>4, <2>1, <2>2
<1>5. Asking = {"opening", "configuring", "prompting"}
  BY DEF Asking
<1>6. CASE ClosingRun(t)
  <2>1. ASSUME NEW s \in Sessions
        PROVE  NoNewTurn(s) /\ (s # own => session'[s] = session[s])
                 /\ session'[s].inFlight = session[s].inFlight
    BY <1>1, <1>3, <1>6, ClosingRuns DEF Still, Owned, NoNewTurn
  <2>2. \/ run'[t].pc \notin Asking \cup {"turn"}
        \/ PauseEnds(t) \/ Charge(t)
    BY <1>5, <1>6, RunGoes DEF ClosingRun
  <2>3. PauseEnds(t) => run' = run
    BY DEF PauseEnds
  <2>4. Charge(t) => LiveTurns(t) = {} /\ run'[t].pc # "turn"
    BY RunGoes DEF Charge, StillDue, Candidate
  <2>5. ASSUME NEW u \in Tasks
        PROVE  /\ run'[u].pc \in Asking \cup {"turn"} =>
                     run[u].pc \in Asking \cup {"turn"} \/ LiveTurns(u) = {}
               /\ run'[u].pc = "turn" => session'[run'[u].sess].inFlight
    <3>1. CASE u # t
      BY <1>2, <1>4, <2>1, <3>1
    <3>2. CASE u = t
      <4>1. run'[t].pc \in Asking \cup {"turn"} =>
                run[t].pc \in Asking \cup {"turn"} \/ LiveTurns(t) = {}
        BY <2>2, <2>3, <2>4
      <4>2. run'[t].pc = "turn" => run' = run /\ own \in Sessions /\ session[own].inFlight
        <5>1. run'[t].pc = "turn" => run' = run
          BY <2>2, <2>3, <2>4
        <5> QED
          BY <1>1, <5>1 DEF Conversations, Holds, Undisturbed
      <4> QED
        BY <2>1, <3>2, <4>1, <4>2
    <3> QED
      BY <3>1, <3>2
  <2> QED
    BY <2>1, <2>5, UndisturbedStep
<1> HIDE DEF own
<1>7. ASSUME run[t].pc \in Asking \cup {"turn"}, own # None
      PROVE  own \in Sessions /\ session[own].givenUp = 0
  BY <1>1, <1>7 DEF Undisturbed
<1>8. CASE AnsweredRun(t)
  <2>1. run[t].pc \in Asking \cup {"turn"} /\ run'[t].pc \notin Asking \cup {"turn"}
    BY <1>5, <1>8, RunGoes
       DEF AnsweredRun, PromptRefused, Ready, TurnEnds, TurnFails, TurnOutOfQuota
  <2>2. own # None
    BY <1>8 DEF AnsweredRun, PromptRefused, own, TurnEnds, TurnFails, TurnOutOfQuota,
                Conversations, Holds
  <2>3. own \in Sessions /\ Live(own) /\ session[own].givenUp = 0
    BY <1>1, <1>7, <2>1, <2>2
  <2>4. ASSUME NEW s \in Sessions
        PROVE  NoNewTurn(s) /\ (s # own => session'[s] = session[s])
    <3>1. /\ Owned(s) /\ session'[s].givenUp = session[s].givenUp
          /\ s # own => session'[s] = session[s]
      BY <1>8, <2>3, AnsweredRuns DEF own
    <3> QED
      BY <1>3, <2>3, <3>1 DEF NoNewTurn, Owned
  <2> QED
    BY <1>2, <1>4, <2>1, <2>4, UndisturbedStep
<1>9. CASE PromptHeard(t)
  <2>1. /\ own \in Sessions /\ Live(own) /\ session[own].givenUp = 0
        /\ run[t].pc \in Asking \cup {"turn"}
    BY <1>1, <1>5, <1>7, <1>9 DEF PromptHeard, Ready, own
  <2>2. ASSUME NEW s \in Sessions
        PROVE  /\ NoNewTurn(s) /\ (s # own => session'[s] = session[s])
               /\ s = own => session'[s].inFlight
    <3>1. /\ Owned(s) /\ session'[s].givenUp = session[s].givenUp
          /\ s # own => session'[s] = session[s]
          /\ s = own => session'[s].inFlight
      BY <1>9, <2>1, HeardRuns DEF own
    <3> QED
      BY <1>3, <2>1, <3>1 DEF NoNewTurn, Owned
  <2>3. run'[t].sess = own
    BY <1>9 DEF PromptHeard, own, TypeOK, RunRows
  <2> QED
    BY <1>2, <1>4, <2>1, <2>2, <2>3, UndisturbedStep
<1>10. CASE Opened(t)
  <2>1. PICK s \in Sessions :
          /\ ~Live(s)
          /\ session' = [session EXCEPT ![s] = NewSession(t, Role(t))]
    BY <1>10 DEF Opened
  <2>2. session'[s].others = 0 /\ session'[s].givenUp = 0
    BY <2>1 DEF TypeOK, NewSession, Free
  <2>3. \A u \in Sessions : u # s => session'[u] = session[u]
    BY <2>1 DEF TypeOK
  <2>4. \A u \in Sessions : NoNewTurn(u)
    BY <1>3, <2>2, <2>3 DEF NoNewTurn, Kept
  <2>5. ASSUME NEW u \in Tasks, run'[u].pc = "turn" PROVE session'[run'[u].sess].inFlight
    <3>1. u # t
      BY <1>10, <2>5, RunGoes
    <3>2. run'[u] = run[u] /\ run[u].pc = "turn"
      BY <1>2, <2>5, <3>1
    <3>3. run[u].sess \in Sessions /\ Live(run[u].sess) /\ session[run[u].sess].inFlight
      BY <3>2, HeldSessions DEF Conversations, Holds, Undisturbed
    <3> QED
      BY <2>1, <2>3, <3>2, <3>3
  <2>6. run[t].pc \in Asking
    BY <1>5, <1>10 DEF Opened
  <2> QED
    BY <1>2, <2>4, <2>5, <2>6, UndisturbedStep
<1>11. CASE TurnTimesOut(t)
  <2>1. own \in Sessions /\ Live(own) /\ session[own].inFlight /\ session[own].givenUp = 0
    <3>1. run[t].pc = "turn"
      BY <1>11 DEF TurnTimesOut
    <3>2. own # None /\ session[own].inFlight
      BY <3>1 DEF Conversations, Holds, Undisturbed, own
    <3> QED
      BY <1>1, <1>7, <3>1, <3>2
  <2>2. session[own].task = t
    BY <1>1, <2>1, ConveyorAssumption
  <2>3. run'[t].pc \notin Asking \cup {"turn"}
    BY <1>5, <1>11, RunGoes
  <2>4. ASSUME NEW s \in Sessions
        PROVE  /\ Owned(s) /\ session'[s].inFlight = session[s].inFlight
               /\ s # own => session'[s] = session[s]
               /\ s = own => session'[s].givenUp = session[s].givenUp + 1
    BY <1>11, <2>1, TimedOutRuns DEF own
  \* No turn of this card had been given up before.
  <2>5. \A s \in Sessions : session[s].givenUp # 0 => session[s].task \in Tasks \ {t}
    <3>1. run[t].pc = "turn"
      BY <1>11 DEF TurnTimesOut
    <3> QED
      BY <3>1 DEF Undisturbed, Conversations
  <2>6. ASSUME NEW s \in Sessions
        PROVE  /\ session'[s].others = 0
               /\ session'[s].givenUp # 0 =>
                     /\ session'[s].state # "free" /\ session'[s].givenUp = 1
                     /\ session'[s].inFlight
                     /\ run'[session'[s].task].pc \notin Asking \cup {"turn"}
    <3>1. CASE s = own
      BY <1>3, <2>1, <2>2, <2>3, <2>4, <3>1 DEF Owned, Kept, Live
    <3>2. CASE s # own
      <4>1. session'[s] = session[s]
        BY <2>4, <3>2
      <4> QED
        BY <1>2, <1>3, <2>5, <4>1 DEF Undisturbed, Live
    <3> QED
      BY <3>1, <3>2
  <2>7. ASSUME NEW s \in Sessions, NEW u \in Sessions,
               session'[s].givenUp # 0, session'[u].givenUp # 0,
               session'[s].task = session'[u].task
        PROVE  s = u
    <3>1. session'[own].task = t
      BY <2>1, <2>2, <2>4 DEF Owned, Kept
    <3> QED
      BY <2>4, <2>5, <2>7, <3>1 DEF Undisturbed
  <2>8. ASSUME NEW u \in Tasks, run'[u].pc = "turn" PROVE session'[run'[u].sess].inFlight
    BY <1>2, <1>4, <2>3, <2>4, <2>8
  <2> QED
    BY <2>6, <2>7, <2>8 DEF Undisturbed, Live
<1> QED
  BY <1>6, <1>8, <1>9, <1>10, <1>11 DEF RunStep, TurnAnswer, ClosingRun, AnsweredRun

\* A turn that was given up ends: none is left on its conversation.
LEMMA UndisturbedEnds ==
    ASSUME TypeOK, Conversations, Undisturbed, NEW s \in Sessions, GivenUpTurnEnds(s)
    PROVE  Undisturbed'
<1>1. /\ session[s].givenUp = 1 /\ session[s].others = 0
      /\ run[session[s].task].pc # "turn"
  BY DEF GivenUpTurnEnds, Undisturbed
<1>2. /\ session' = [session EXCEPT ![s].inFlight = FALSE, ![s].givenUp = @ - 1]
      /\ run' = run
  BY DEF GivenUpTurnEnds
<1>3. session'[s].givenUp = 0 /\ session'[s].others = 0
  <2>1. session[s] \in SessionRows /\ session'[s] = [session[s] EXCEPT !.inFlight = FALSE, !.givenUp = @ - 1]
    BY <1>2, StateTypes DEF TypeOK
  <2> QED
    BY <1>1, <2>1 DEF SessionRows
<1>4. \A u \in Sessions \ {s} : session'[u] = session[u]
  BY <1>2 DEF TypeOK
<1>5. \A u \in Sessions : NoNewTurn(u)
  BY <1>3, <1>4 DEF NoNewTurn, Kept, Undisturbed
<1>6. ASSUME NEW t \in Tasks, run'[t].pc = "turn" PROVE session'[run'[t].sess].inFlight
  <2>1. /\ run[t].sess \in Sessions /\ session[run[t].sess].task = t
        /\ session[run[t].sess].inFlight
    BY <1>2, <1>6, HeldSessions DEF Conversations, Holds, Undisturbed
  <2>2. run[t].sess # s
    BY <1>1, <1>2, <1>6, <2>1
  <2> QED
    BY <1>2, <1>4, <2>1, <2>2
<1> QED
  BY <1>2, <1>5, <1>6, UndisturbedStep

\* The process of a session ends, and its turns with it.
LEMMA UndisturbedExit ==
    ASSUME TypeOK, Conversations, Undisturbed, NEW s \in Sessions, SessionExits(s)
    PROVE  Undisturbed'
<1>1. session'[s] = Free /\ \A u \in Sessions \ {s} : session'[u] = session[u]
  BY DEF SessionExits, TypeOK
<1>2. Free.givenUp = 0 /\ Free.others = 0
  BY DEF Free
<1>3. \A u \in Sessions : NoNewTurn(u)
  BY <1>1, <1>2 DEF NoNewTurn, Kept, Undisturbed
<1>4. ASSUME NEW t \in Tasks
      PROVE  /\ run'[t].pc \in {run[t].pc, "idle"}
             /\ run'[t].pc = "turn" => session'[run'[t].sess].inFlight
  <2>1. CASE run'[t] = run[t] /\ run[t].sess # s
    <3>1. run[t].pc = "turn" => run[t].sess \in Sessions /\ session[run[t].sess].inFlight
      BY HeldSessions DEF Conversations, Holds, Undisturbed
    <3> QED
      BY <1>1, <2>1, <3>1
  <2>2. CASE run'[t] = Idle
    BY <2>2 DEF Idle
  <2>3. CASE run'[t] = [run[t] EXCEPT !.sess = None] /\ run[t].pc # "turn"
    BY <2>3, StateTypes DEF RunRows
  <2> QED
    BY <2>1, <2>2, <2>3 DEF SessionExits
<1> QED
  BY <1>3, <1>4, UndisturbedStep DEF Asking

\* Every step but a click and a person who types.
LEMMA UndisturbedNext ==
    TypeOK /\ Conversations /\ Undisturbed /\ [Next /\ ~Clicked /\ ~Typed]_vars => Undisturbed'
<1> SUFFICES ASSUME TypeOK, Conversations, Undisturbed, [Next /\ ~Clicked /\ ~Typed]_vars
             PROVE  Undisturbed'
  OBVIOUS
\* A run that is where it was, and conversations that are what they were.
<1>1. ASSUME session' = session,
             \A t \in Tasks :
                /\ run'[t].pc \in {run[t].pc, "idle", "preparing"}
                /\ run'[t].pc = "turn" => run'[t].sess = run[t].sess
      PROVE  Undisturbed'
  <2>1. \A s \in Sessions : NoNewTurn(s)
    BY <1>1 DEF NoNewTurn, Kept, Undisturbed
  <2> QED
    BY <1>1, <2>1, UndisturbedStep DEF Undisturbed, Asking
<1>2. CASE Tick
  <2>1. session' = session
    BY <1>2 DEF Tick
  <2> QED
    BY <1>1, <1>2, <2>1, TickRuns
<1>3. ASSUME NEW t \in Tasks, RunStep(t) \/ TurnAnswer(t) \/ PauseEnds(t) PROVE Undisturbed'
  BY <1>3, UndisturbedRun
<1>4. ASSUME NEW s \in Sessions, GivenUpTurnEnds(s) \/ OtherTurnEnds(s) \/ SessionExits(s)
      PROVE  Undisturbed'
  <2>1. ~OtherTurnEnds(s)
    BY DEF OtherTurnEnds, Undisturbed
  <2> QED
    BY <1>4, <2>1, UndisturbedEnds, UndisturbedExit
<1>5. ASSUME NEW t \in Tasks,
             \/ \E status \in Statuses : Move(t, status) \/ PersonSetsStatus(t, status)
             \/ \E autonomy \in {"inherit", "off"} : SetAutonomy(t, autonomy)
             \/ AgentSaysReview(t)
      PROVE  Undisturbed'
  <2>1. session' = session
    BY <1>5 DEF Move, PersonSetsStatus, SetAutonomy, AgentSaysReview
  <2>2. \A u \in Tasks : run'[u].pc = run[u].pc /\ run'[u].sess = run[u].sess
    BY <1>5, BoardWrites
  <2> QED
    BY <1>1, <2>1, <2>2
<1>6. CASE Crash
  BY <1>6 DEF Crash, Undisturbed, Free, Idle, Live
<1>7. CASE UNCHANGED <<session, latest, run, request>>
  BY <1>1, <1>7
<1> QED
  BY <1>2, <1>3, <1>4, <1>5, <1>6, <1>7, NoSend
     DEF Next, Daemon, Person, SetMode, Clicked, Typed, vars

LEMMA UndisturbedInit == Init => Undisturbed
BY DEF Init, Undisturbed, Free, Idle

\* The runs whose turn is on a conversation: the one of its card, at most.
LEMMA Waiting ==
    ASSUME TypeOK, Conversations, NEW s \in Sessions
    PROVE  /\ Cardinality(WaitingRuns(s)) \in {0, 1}
           /\ WaitingRuns(s) # {} => run[session[s].task].pc = "turn"
           /\ Cardinality(WaitingRuns(s)) > 0 =>
                session[s].task \in Tasks /\ run[session[s].task].sess = s
                  /\ run[session[s].task].pc = "turn"
<1>1. ASSUME NEW t \in WaitingRuns(s)
      PROVE  t \in Tasks /\ t = session[s].task /\ run[t].pc = "turn" /\ run[t].sess = s
  BY HeldSessions, ConveyorAssumption DEF WaitingRuns
<1>2. CASE WaitingRuns(s) = {}
  BY <1>2, FS_EmptySet
<1>3. CASE WaitingRuns(s) # {}
  <2>1. WaitingRuns(s) = {session[s].task}
    BY <1>1, <1>3
  <2>2. Cardinality(WaitingRuns(s)) = 1
    BY <2>1, FS_Singleton
  <2> QED
    BY <1>1, <1>3, <2>2
<1> QED
  BY <1>2, <1>3

\* What the invariant says of the turns that are running.
LEMMA OneTurn ==
    TypeOK /\ Conversations /\ Undisturbed => OneTurnAtATime
<1> SUFFICES ASSUME TypeOK, Conversations, Undisturbed PROVE OneTurnAtATime
  OBVIOUS
<1>1. \A s \in Sessions : session[s].givenUp \in Nat
  BY StateTypes DEF SessionRows
<1>2. ASSUME NEW s \in Sessions, session[s].givenUp # 0
      PROVE  Cardinality(WaitingRuns(s)) = 0 /\ session[s].givenUp = 1
  BY <1>2, Waiting DEF Undisturbed
<1>3. ASSUME NEW s \in Sessions PROVE Turns(s) <= 1
  BY <1>1, <1>2, Waiting DEF Turns
<1>4. ASSUME NEW s \in Sessions, NEW u \in Sessions,
             session[s].task = session[u].task, Turns(s) > 0, Turns(u) > 0
      PROVE  s = u
  <2>1. CASE session[s].givenUp # 0 /\ session[u].givenUp # 0
    BY <1>4, <2>1 DEF Undisturbed
  <2>2. ASSUME NEW v \in Sessions, NEW w \in Sessions, session[v].givenUp # 0,
               session[v].task = session[w].task
        PROVE  ~Cardinality(WaitingRuns(w)) > 0
    BY <2>2, Waiting DEF Undisturbed
  <2>3. \A v \in {s, u} : session[v].givenUp # 0 \/ Cardinality(WaitingRuns(v)) > 0
    BY <1>1, <1>4, Waiting DEF Turns
  <2>4. CASE session[s].givenUp = 0 \/ session[u].givenUp = 0
    <3>1. Cardinality(WaitingRuns(s)) > 0 /\ Cardinality(WaitingRuns(u)) > 0
      BY <1>4, <2>2, <2>3, <2>4
    <3> QED
      BY <1>4, <3>1, Waiting
  <2> QED
    BY <2>1, <2>4
<1> QED
  BY <1>3, <1>4 DEF OneTurnAtATime

\* No card has two turns of the conveyor in flight, for any number of cards,
\* attempts that run into the ceiling of the turn, and agents that take their time
\* to obey the cancel, as long as nobody else prompts the conveyor's agents
\* (conveyor.ts, tick and runOne; a card with a live turn is no candidate).
THEOREM OneTurnEach == UndisturbedSpec => []OneTurnAtATime
<1>1. TypeOK /\ BudgetInvariant /\ Conversations /\ Undisturbed /\ [Next /\ ~Clicked /\ ~Typed]_vars
        => (TypeOK /\ BudgetInvariant /\ Conversations /\ Undisturbed)'
  <2>1. [Next /\ ~Clicked /\ ~Typed]_vars => [Next]_vars /\ [Next /\ ~Clicked]_vars
    OBVIOUS
  <2> QED
    BY <2>1, TypeStep, BudgetStep, ConversationsNext, UndisturbedNext
<1> QED
  BY <1>1, Initially, ConversationsInit, UndisturbedInit, OneTurn, PTL DEF UndisturbedSpec

-----------------------------------------------------------------------------
(* The ceiling of the workspace *)

\* The conversations with a turn that was given up, and the runs that have a turn
\* in flight or may still ask for one.
GivenUp == {s \in Sessions : session[s].givenUp # 0}
Resting == {"idle", "blocking", "reason"}
Busy == {t \in Tasks : run[t].pc \notin Resting}

\* A pass takes no more cards than there is room for beside the turns in flight,
\* and a run that gives its turn up is over.
WithinCeiling == Cardinality(GivenUp) + Cardinality(Busy) <= MaxParallel

LEMMA Finite ==
    /\ IsFiniteSet(GivenUp) /\ Cardinality(GivenUp) \in Nat
    /\ IsFiniteSet(Busy) /\ Cardinality(Busy) \in Nat
BY ConveyorAssumption, FS_Subset, FS_CardinalityType DEF GivenUp, Busy

LEMMA FewerBusy ==
    ASSUME WithinCeiling, GivenUp' \subseteq GivenUp, Busy' \subseteq Busy
    PROVE  WithinCeiling'
<1>1. /\ Cardinality(GivenUp') \in Nat /\ Cardinality(GivenUp') <= Cardinality(GivenUp)
      /\ Cardinality(Busy') \in Nat /\ Cardinality(Busy') <= Cardinality(Busy)
  BY Finite, FS_Subset, FS_CardinalityType
<1> QED
  BY <1>1, Finite, ConveyorAssumption DEF WithinCeiling

\* The pass counts the turns that were given up among those in flight.
LEMMA CeilingTick ==
    ASSUME TypeOK, Undisturbed, WithinCeiling, Tick
    PROVE  WithinCeiling'
<1>1. PICK taking \in SUBSET Tasks :
        /\ taking # {} /\ IsHead(taking)
        /\ run' = [t \in Tasks |-> IF t \in taking THEN Started(t) ELSE run[t]]
  BY DEF Tick
<1> DEFINE InFlight == {s \in Sessions : Live(s) /\ session[s].inFlight}
<1>2. /\ IsFiniteSet(taking) /\ Cardinality(taking) \in Nat /\ Cardinality(taking) # 0
      /\ IsFiniteSet(Candidates) /\ Cardinality(Candidates) \in Nat
      /\ IsFiniteSet(InFlight) /\ Cardinality(InFlight) \in Nat
  BY <1>1, ConveyorAssumption, FS_Subset, FS_CardinalityType, FS_EmptySet DEF Candidates
<1>3. GivenUp \subseteq InFlight
  BY DEF GivenUp, Undisturbed
<1>4. Cardinality(GivenUp) <= Cardinality(InFlight)
  BY <1>2, <1>3, FS_Subset
<1>5. Slots = IF Cardinality(InFlight) >= MaxParallel THEN 0
              ELSE MaxParallel - Cardinality(InFlight)
  BY DEF Slots
<1>6. Cardinality(taking) <= Slots /\ Slots \in Int
  <2>1. Cardinality(taking) =
          IF Cardinality(Candidates) < Slots THEN Cardinality(Candidates) ELSE Slots
    BY <1>1 DEF IsHead
  <2>2. Slots \in Int
    BY <1>2, <1>5, ConveyorAssumption
  <2> QED
    BY <1>2, <2>1, <2>2
<1>7. Busy' \subseteq taking
  BY <1>1 DEF Busy, Tick, Resting
<1>8. Cardinality(Busy') \in Nat /\ Cardinality(Busy') <= Cardinality(taking)
  BY <1>2, <1>7, FS_Subset, FS_CardinalityType
<1>9. GivenUp' = GivenUp
  BY DEF Tick, GivenUp
<1> HIDE DEF InFlight
<1> QED
  BY <1>2, <1>4, <1>5, <1>6, <1>8, <1>9, Finite, ConveyorAssumption DEF WithinCeiling

\* A run that asks, or is answered, was in the pass already.
LEMMA BusyRuns ==
    ASSUME TypeOK, NEW t \in Tasks, RunStep(t) \/ TurnAnswer(t) \/ PauseEnds(t)
    PROVE  Busy' \subseteq Busy
<1>1. \A u \in Tasks \ {t} : run'[u] = run[u]
  BY OtherCards
<1>2. run[t].pc \notin Resting \/ run'[t].pc \in Resting
  <2>1. CASE BlockOff(t) \/ BlockReason(t)
    BY <2>1, RunGoes DEF Resting
  <2>2. CASE PauseEnds(t)
    BY <2>2 DEF PauseEnds
  <2>3. CASE ~BlockOff(t) /\ ~BlockReason(t) /\ ~PauseEnds(t)
    BY <2>3 DEF RunStep, TurnAnswer, Resting, PrepareFails, NoLongerDue, Park, Charge, Opened,
                Throws, PromptDead, PromptRefused, PromptHeard, Ready, TurnTimesOut,
                JudgeUnfinished, JudgeFinding, Bounce, JudgePass, Advance, TurnEnds,
                TurnFails, TurnOutOfQuota
  <2> QED
    BY <2>1, <2>2, <2>3
<1> QED
  BY <1>1, <1>2 DEF Busy

LEMMA CeilingRun ==
    ASSUME TypeOK, Conversations, WithinCeiling, NEW t \in Tasks,
           RunStep(t) \/ TurnAnswer(t) \/ PauseEnds(t)
    PROVE  WithinCeiling'
<1>1. Busy' \subseteq Busy
  BY BusyRuns
<1>2. ASSUME \A s \in Sessions : session'[s].givenUp # 0 => session[s].givenUp # 0
      PROVE  WithinCeiling'
  BY <1>1, <1>2, FewerBusy DEF GivenUp
<1>3. /\ run[t].sess \in Sessions \cup {None}
      /\ run[t].sess # None => run[t].sess \in Sessions /\ Live(run[t].sess)
  BY HeldSessions
<1>4. CASE ClosingRun(t)
  BY <1>2, <1>3, <1>4, ClosingRuns DEF Still
<1>5. CASE AnsweredRun(t) \/ PromptHeard(t)
  <2>1. run[t].sess # None
    BY <1>5 DEF AnsweredRun, PromptHeard, PromptRefused, TurnEnds, TurnFails, TurnOutOfQuota,
                Conversations, Holds
  <2> QED
    BY <1>2, <1>3, <1>5, <2>1, AnsweredRuns, HeardRuns
<1>6. CASE Opened(t)
  BY <1>2, <1>6 DEF Opened, TypeOK, NewSession, Free
<1>7. CASE TurnTimesOut(t)
  <2> DEFINE own == run[t].sess
  <2>1. run[t].pc = "turn" /\ own \in Sessions /\ Live(own)
    BY <1>3, <1>7 DEF TurnTimesOut, Conversations, Holds
  <2>2. GivenUp' \subseteq GivenUp \cup {own}
    BY <1>7, <2>1, TimedOutRuns DEF GivenUp
  <2>3. t \in Busy /\ Busy' \subseteq Busy \ {t}
    <3>1. run'[t].pc \in Resting
      BY <1>7, RunGoes DEF Resting
    <3> QED
      BY <1>1, <2>1, <3>1 DEF Busy, Resting
  <2> HIDE DEF own
  <2>4. /\ Cardinality(GivenUp') \in Nat
        /\ Cardinality(GivenUp') <= Cardinality(GivenUp) + 1
    <3>1. /\ IsFiniteSet(GivenUp \cup {own})
          /\ Cardinality(GivenUp \cup {own}) <= Cardinality(GivenUp) + 1
          /\ Cardinality(GivenUp \cup {own}) \in Nat
      <4>1. /\ IsFiniteSet(GivenUp \cup {own})
            /\ Cardinality(GivenUp \cup {own}) =
                 IF own \in GivenUp THEN Cardinality(GivenUp) ELSE Cardinality(GivenUp) + 1
        BY Finite, FS_AddElement, Zenon
      <4> QED
        BY <4>1, Finite
    <3>2. /\ Cardinality(GivenUp') \in Nat
          /\ Cardinality(GivenUp') <= Cardinality(GivenUp \cup {own})
      BY <2>2, <3>1, FS_Subset, FS_CardinalityType
    <3> QED
      BY <3>1, <3>2, Finite
  <2>5. Cardinality(Busy') \in Nat /\ Cardinality(Busy') <= Cardinality(Busy) - 1
    <3>1. IsFiniteSet(Busy \ {t}) /\ Cardinality(Busy \ {t}) = Cardinality(Busy) - 1
      BY <2>3, Finite, FS_RemoveElement
    <3> QED
      BY <2>3, <3>1, FS_Subset, FS_CardinalityType
  <2> QED
    BY <2>4, <2>5, Finite, ConveyorAssumption DEF WithinCeiling
<1> QED
  BY <1>4, <1>5, <1>6, <1>7 DEF RunStep, TurnAnswer, ClosingRun, AnsweredRun

\* No other step gives a turn up, or puts a run back in the pass.
LEMMA CeilingNext ==
    TypeOK /\ Conversations /\ Undisturbed /\ WithinCeiling /\ [Next /\ ~Clicked /\ ~Typed]_vars
        => WithinCeiling'
<1> SUFFICES ASSUME TypeOK, Conversations, Undisturbed, WithinCeiling,
                    [Next /\ ~Clicked /\ ~Typed]_vars
             PROVE  WithinCeiling'
  OBVIOUS
<1>1. ASSUME \A s \in Sessions : session'[s].givenUp # 0 => session[s].givenUp # 0,
             \A t \in Tasks : run'[t].pc \in {run[t].pc, "idle"}
      PROVE  WithinCeiling'
  BY <1>1, FewerBusy DEF GivenUp, Busy, Resting
<1>2. CASE Tick
  BY <1>2, CeilingTick
<1>3. ASSUME NEW t \in Tasks, RunStep(t) \/ TurnAnswer(t) \/ PauseEnds(t) PROVE WithinCeiling'
  BY <1>3, CeilingRun
<1>4. ASSUME NEW s \in Sessions, GivenUpTurnEnds(s) \/ OtherTurnEnds(s) PROVE WithinCeiling'
  <2>1. ~OtherTurnEnds(s)
    BY DEF OtherTurnEnds, Undisturbed
  <2>2. /\ session' = [session EXCEPT ![s].inFlight = FALSE, ![s].givenUp = @ - 1]
        /\ session[s].givenUp # 0 /\ run' = run
    BY <1>4, <2>1, StateTypes DEF GivenUpTurnEnds, SessionRows
  <2>3. \A u \in Sessions : session'[u].givenUp # 0 => session[u].givenUp # 0
    BY <2>2 DEF TypeOK
  <2> QED
    BY <1>1, <2>2, <2>3
<1>5. ASSUME NEW s \in Sessions, SessionExits(s) PROVE WithinCeiling'
  <2>1. \A u \in Sessions : session'[u].givenUp # 0 => session[u].givenUp # 0
    BY <1>5 DEF SessionExits, TypeOK, Free
  <2>2. ASSUME NEW t \in Tasks PROVE run'[t].pc \in {run[t].pc, "idle"}
    <3>1. run'[t] \in {run[t], Idle, [run[t] EXCEPT !.sess = None]}
      BY <1>5 DEF SessionExits
    <3> QED
      BY <3>1, StateTypes DEF Idle, RunRows
  <2> QED
    BY <1>1, <2>1, <2>2
<1>6. ASSUME NEW t \in Tasks,
             \/ \E status \in Statuses : Move(t, status) \/ PersonSetsStatus(t, status)
             \/ \E autonomy \in {"inherit", "off"} : SetAutonomy(t, autonomy)
             \/ AgentSaysReview(t)
      PROVE  WithinCeiling'
  <2>1. session' = session
    BY <1>6 DEF Move, PersonSetsStatus, SetAutonomy, AgentSaysReview
  <2> QED
    BY <1>1, <1>6, <2>1, BoardWrites
<1>7. CASE Crash
  BY <1>1, <1>7 DEF Crash, Free, Idle
<1>8. CASE UNCHANGED <<session, latest, run, request>>
  BY <1>1, <1>8
<1> QED
  BY <1>2, <1>3, <1>4, <1>5, <1>6, <1>7, <1>8, NoSend
     DEF Next, Daemon, Person, SetMode, Clicked, Typed, vars

LEMMA CeilingInit == Init => WithinCeiling
<1> SUFFICES ASSUME Init PROVE WithinCeiling
  OBVIOUS
<1>1. GivenUp = {} /\ Busy = {}
  BY DEF Init, GivenUp, Busy, Resting, Free, Idle
<1> QED
  BY <1>1, FS_EmptySet, ConveyorAssumption DEF WithinCeiling

\* Every turn that is running is one of those.
LEMMA CeilingOfTurns ==
    TypeOK /\ Conversations /\ WithinCeiling => CeilingHolds
<1> SUFFICES ASSUME TypeOK, Conversations, WithinCeiling PROVE CeilingHolds
  OBVIOUS
<1> DEFINE Talking == {s \in Sessions : Cardinality(WaitingRuns(s)) > 0}
           Running == {s \in Sessions : Live(s) /\ Turns(s) > 0}
<1>1. /\ IsFiniteSet(Talking) /\ Cardinality(Talking) \in Nat
      /\ IsFiniteSet(Running) /\ Cardinality(Running) \in Nat
  BY ConveyorAssumption, FS_Subset, FS_CardinalityType
<1>2. Cardinality(Talking) <= Cardinality(Busy)
  <2> DEFINE card == [s \in Talking |-> session[s].task]
  <2>1. ASSUME NEW s \in Talking
        PROVE  card[s] \in Busy /\ run[card[s]].sess = s
    BY Waiting DEF Busy, Resting
  <2>2. card \in [Talking -> Busy]
    BY <2>1
  <2>3. ~\E s, u \in Talking : s # u /\ card[s] = card[u]
    BY <2>1
  <2> HIDE DEF card
  <2>4. ~(Cardinality(Busy) < Cardinality(Talking))
    BY <1>1, <2>2, <2>3, Finite, FS_PigeonHole
  <2> QED
    BY <1>1, <2>4, Finite
<1>3. Running \subseteq GivenUp \cup Talking
  <2> SUFFICES ASSUME NEW s \in Sessions, Turns(s) > 0
               PROVE  session[s].givenUp # 0 \/ Cardinality(WaitingRuns(s)) > 0
    BY DEF GivenUp
  <2>1. session[s].givenUp \in Nat /\ Cardinality(WaitingRuns(s)) \in {0, 1}
    BY StateTypes, Waiting DEF SessionRows
  <2> QED
    BY <2>1 DEF Turns
<1>4. /\ IsFiniteSet(GivenUp \cup Talking)
      /\ Cardinality(GivenUp \cup Talking) \in Nat
      /\ Cardinality(GivenUp \cup Talking) <= Cardinality(GivenUp) + Cardinality(Talking)
  <2> HIDE DEF Talking
  <2>1. /\ IsFiniteSet(GivenUp \cup Talking)
        /\ Cardinality(GivenUp \cup Talking)
             = Cardinality(GivenUp) + Cardinality(Talking) - Cardinality(GivenUp \cap Talking)
    BY <1>1, Finite, FS_Union
  <2>2. Cardinality(GivenUp \cap Talking) \in Nat /\ Cardinality(GivenUp \cup Talking) \in Nat
    BY <2>1, Finite, FS_Intersection, FS_CardinalityType
  <2> QED
    BY <1>1, <2>1, <2>2, Finite
<1>5. Cardinality(Running) <= Cardinality(GivenUp \cup Talking)
  BY <1>3, <1>4, FS_Subset
<1>6. CeilingHolds <=> Cardinality(Running) <= MaxParallel
  BY DEF CeilingHolds
<1> HIDE DEF Talking, Running
<1> QED
  BY <1>1, <1>2, <1>4, <1>5, <1>6, Finite, ConveyorAssumption DEF WithinCeiling

\* No more turns of the conveyor are in flight than the workspace allows, those
\* it gave up and whose agents have not obeyed included: the pass reads them off
\* the sessions, not off its own list (conveyor.ts, tick), as long as nobody else
\* prompts the conveyor's agents.
THEOREM Ceiling == UndisturbedSpec => []CeilingHolds
<1> DEFINE Inv == TypeOK /\ BudgetInvariant /\ Conversations /\ Undisturbed /\ WithinCeiling
<1>1. Inv /\ [Next /\ ~Clicked /\ ~Typed]_vars => Inv'
  <2>1. [Next /\ ~Clicked /\ ~Typed]_vars => [Next]_vars /\ [Next /\ ~Clicked]_vars
    OBVIOUS
  <2> QED
    BY <2>1, TypeStep, BudgetStep, ConversationsNext, UndisturbedNext, CeilingNext
<1>2. Init => Inv
  BY Initially, ConversationsInit, UndisturbedInit, CeilingInit
<1>3. Inv => CeilingHolds
  BY CeilingOfTurns
<1> HIDE DEF Inv
<1> QED
  BY <1>1, <1>2, <1>3, PTL DEF UndisturbedSpec

-----------------------------------------------------------------------------
(* What a step does to what is parked on a card, and to its returns *)

\* What each write of a row does to them.
LEMMA RowParked ==
    ASSUME NEW row \in TaskRows, NEW carries, NEW status
    PROVE  /\ Unparked(row).prepared = "none" /\ Unparked(row).bounces = row.bounces
           /\ Hear(row, carries).prepared = row.prepared
           /\ Hear(row, carries).bounces = row.bounces
           /\ Progressed(row).prepared = row.prepared
           /\ Progressed(row).bounces = row.bounces
           /\ RefuseForQuota(row).prepared = row.prepared
           /\ RefuseForQuota(row).bounces = row.bounces
           /\ SetStatus(row, status).bounces = row.bounces
           /\ SetStatus(row, status) = row \/ SetStatus(row, status).prepared = "none"
           /\ CountBounce(row).prepared = row.prepared
           /\ CountBounce(row).bounces = row.bounces + 1
BY DEF Unparked, Hear, Progressed, RefuseForQuota, SetStatus, EnterStage, CountBounce,
       TaskRows

\* A card with the same returns, and the prompt that was parked on it where it was -
\* or none, or on a card that the first message of a turn took out of `open`.
Undisplaced(t) ==
    /\ task'[t].bounces = task[t].bounces
    /\ \/ task'[t].prepared = "none"
       \/ /\ task'[t].prepared = task[t].prepared
          /\ \/ task'[t].status = task[t].status
             \/ task[t].status = "open" /\ task'[t].status = "in_progress"

\* The steps of a run that neither park nor return its card.
LEMMA UndisplacedRun ==
    ASSUME TypeOK, NEW t \in Tasks, RunStep(t) \/ TurnAnswer(t) \/ PauseEnds(t),
           ~Park(t), ~Bounce(t), NEW u \in Tasks
    PROVE  Undisplaced(u)
<1>1. CASE u # t
  BY <1>1, OtherCards DEF Undisplaced
<1>2. CASE u = t /\ QuietRun(t)
  <2>1. task'[t].status = task[t].status
    BY <1>2, QuietRuns DEF Same
  <2>2. task'[t].prepared = task[t].prepared /\ task'[t].bounces = task[t].bounces
    <3>1. CASE TurnOutOfQuota(t)
      <4> DEFINE row == RefuseForQuota(task[t])
      <4>1. task'[t] = row \/ task'[t] = [row EXCEPT !.paused = TRUE]
        BY <3>1, ZenonT(30) DEF TurnOutOfQuota, TypeOK
      <4>2. row \in TaskRows /\ row.prepared = task[t].prepared /\ row.bounces = task[t].bounces
        BY StateTypes, RowTypes, RowParked DEF Statuses
      <4> HIDE DEF row
      <4> QED
        BY <4>1, <4>2 DEF TaskRows
    <3>2. CASE UNCHANGED task
      BY <3>2
    <3>3. CASE TurnEnds(t) \/ TurnTimesOut(t)
      <4>1. task'[t] = task[t] \/ task'[t] = [task[t] EXCEPT !.paused = FALSE, !.refusals = 0]
        BY <3>3, ZenonT(30) DEF TurnEnds, TurnTimesOut, ClearPause, TypeOK
      <4> QED
        BY <4>1, StateTypes DEF TaskRows
    <3>4. CASE PrepareFails(t)
      BY <3>4 DEF PrepareFails, TypeOK, TaskRows
    <3>5. CASE Charge(t)
      BY <3>5 DEF Charge, TypeOK, TaskRows
    <3>6. CASE JudgeFinding(t)
      BY <3>6 DEF JudgeFinding, TypeOK, TaskRows
    <3>7. CASE PauseEnds(t)
      BY <3>7 DEF PauseEnds, TypeOK, TaskRows
    <3> QED
      BY <1>2, <3>1, <3>2, <3>3, <3>4, <3>5, <3>6, <3>7
         DEF QuietRun, NoLongerDue, Opened, Throws, PromptDead, PromptRefused,
             JudgeUnfinished, JudgePass, TurnFails
  <2> QED
    BY <1>2, <2>1, <2>2 DEF Undisplaced
<1>3. CASE u = t /\ PromptHeard(t)
  <2>1. task'[t] = Hear(task[t], run[t].carries)
    BY <1>3, MovingSteps DEF TypeOK
  <2>2. /\ task'[t].bounces = task[t].bounces /\ task'[t].prepared = task[t].prepared
        /\ task'[t].status = IF task[t].status = "open" THEN "in_progress" ELSE task[t].status
    BY <1>3, <2>1, StateTypes, RowParked, HeardColumns
  <2> QED
    BY <1>3, <2>2 DEF Undisplaced
<1>4. CASE u = t /\ Advance(t)
  <2> DEFINE row == SetStatus(task[t], NEXT_STAGE[run[t].status])
  <2>1. task'[t] = task[t] \/ task'[t] = row
    BY <1>4, MovingSteps DEF TypeOK
  <2>2. row = task[t] \/ row.prepared = "none"
    BY StateTypes, RowParked
  <2>3. row.bounces = task[t].bounces
    BY StateTypes, RowParked
  <2> HIDE DEF row
  <2> QED
    BY <1>4, <2>1, <2>2, <2>3 DEF Undisplaced
<1>5. CASE u = t /\ (BlockOff(t) \/ BlockReason(t))
  <2>1. task'[t] = [task[t] EXCEPT !.autonomy = "off"] \/ task'[t] = [task[t] EXCEPT !.blocked = TRUE]
    BY <1>5, MovingSteps DEF TypeOK
  <2> QED
    BY <1>5, <2>1, StateTypes DEF Undisplaced, TaskRows
<1> QED
  BY <1>1, <1>2, <1>3, <1>4, <1>5 DEF RunStep, TurnAnswer, QuietRun

\* Nothing else parks or returns a card.
LEMMA UndisplacedNext ==
    ASSUME TypeOK, [Next]_vars, NEW u \in Tasks, ~Park(u), ~Bounce(u)
    PROVE  Undisplaced(u)
<1>1. ASSUME NEW t \in Tasks, RunStep(t) \/ TurnAnswer(t) \/ PauseEnds(t) PROVE Undisplaced(u)
  <2>1. CASE u = t
    BY <1>1, <2>1, UndisplacedRun
  <2>2. CASE u # t
    BY <1>1, <2>2, OtherCards DEF Undisplaced
  <2> QED
    BY <2>1, <2>2
<1>2. ASSUME NEW c \in Clients, SendStep(c) PROVE Undisplaced(u)
  <2>1. task[u] \in TaskRows /\ Unparked(task[u]) \in TaskRows
    BY StateTypes, RowTypes DEF Statuses
  <2>2. \/ task'[u] = task[u] \/ task'[u] = Unparked(task[u])
        \/ task'[u] = Hear(Unparked(task[u]), request[c].carries)
    BY <1>2 DEF SendStep, SendOpened, SendFails, SendRefused, SendHeard, SendEnds,
                SendTimesOut, TypeOK
  <2>3. /\ Unparked(task[u]).prepared = "none" /\ Unparked(task[u]).bounces = task[u].bounces
        /\ Hear(Unparked(task[u]), request[c].carries).prepared = "none"
        /\ Hear(Unparked(task[u]), request[c].carries).bounces = task[u].bounces
    BY <2>1, RowParked
  <2> QED
    BY <2>2, <2>3 DEF Undisplaced
<1>3. ASSUME NEW s \in Sessions, Chat(s) PROVE Undisplaced(u)
  <2>1. task'[u] = task[u] \/ task'[u] = Progressed(task[u])
    BY <1>3 DEF Chat, TypeOK
  <2>2. /\ Progressed(task[u]).prepared = task[u].prepared
        /\ Progressed(task[u]).bounces = task[u].bounces
        /\ Progressed(task[u]).status
             = IF task[u].status = "open" THEN "in_progress" ELSE task[u].status
    BY StateTypes, RowParked, RowColumns
  <2> QED
    BY <2>1, <2>2 DEF Undisplaced
<1>4. ASSUME NEW t \in Tasks, NEW status \in Statuses,
             Move(t, status) \/ PersonSetsStatus(t, status) \/ AgentSaysReview(t)
      PROVE  Undisplaced(u)
  <2>1. PICK to \in Statuses : \/ Write(t, SetStatus(task[t], to))
                               \/ Write(t, [SetStatus(task[t], to) EXCEPT !.autonomy = "off"])
    BY <1>4 DEF Move, PersonSetsStatus, AgentSaysReview, Statuses, DueStatuses
  <2> DEFINE row == SetStatus(task[t], to)
  <2>2. /\ row \in TaskRows /\ row.bounces = task[t].bounces
        /\ row = task[t] \/ row.prepared = "none"
    <3>1. task[t] \in TaskRows
      BY StateTypes
    <3>2. row \in TaskRows
      BY <3>1, RowTypes
    <3>3. row.bounces = task[t].bounces /\ (row = task[t] \/ row.prepared = "none")
      BY <3>1, RowParked
    <3> QED
      BY <3>2, <3>3
  <2>3. task'[u] = task[u] \/ (u = t /\ task'[u] \in {row, [row EXCEPT !.autonomy = "off"]})
    BY <2>1, Writes
  <2> HIDE DEF row
  <2> QED
    BY <2>2, <2>3 DEF Undisplaced, TaskRows
<1>5. ASSUME NEW t \in Tasks, NEW autonomy, SetAutonomy(t, autonomy) PROVE Undisplaced(u)
  BY <1>5 DEF SetAutonomy, TypeOK, TaskRows, Undisplaced
<1>6. CASE UNCHANGED task
  BY <1>6 DEF Undisplaced
<1>7. "review" \in Statuses
  BY DEF Statuses, DueStatuses
<1> QED
  BY <1>1, <1>2, <1>3, <1>4, <1>5, <1>6, <1>7
     DEF Next, Daemon, Person, Tick, GivenUpTurnEnds, OtherTurnEnds, SessionExits, Crash,
         SetMode, Send, vars

\* A return adds one, and leaves what is parked where it was.
LEMMA Returns ==
    ASSUME TypeOK, NEW t \in Tasks, Bounce(t)
    PROVE  \/ task'[t] = task[t]
           \/ /\ task'[t].bounces = task[t].bounces + 1
              /\ task'[t].prepared = task[t].prepared
              /\ task'[t].status = "in_progress"
<1>1. task'[t] = task[t] \/ task'[t] = CountBounce(task[t])
  BY MovingSteps DEF TypeOK
<1> QED
  BY <1>1, StateTypes, RowParked, RowColumns

-----------------------------------------------------------------------------
(* What is parked on a card *)

\* The parked prompt is of the stage the card is in - or the reviewer has returned
\* the card since it was parked.
ParkedOrReturned ==
    \A t \in Tasks : task[t].prepared # "none" =>
        /\ task[t].status \in DueStatuses
        /\ \/ DUE_STAGES[task[t].status].role = task[t].prepared
           \/ /\ task[t].status = "in_progress" /\ task[t].prepared = "revisor"
              /\ task[t].bounces > 0

\* The reviewer returns a card with at most a reviewer's prompt on it: the run
\* began when the card was in review.
Preliminary == {"idle", "preparing", "blocking", "reason"}

ReviewerReturns ==
    \A t \in Tasks :
        /\ run[t].pc \notin Preliminary /\ Role(t) = "revisor"
             => task[t].prepared \in {"none", "revisor"}
        /\ run[t].pc = "returning" => Role(t) = "revisor"

\* How a run gets past its preparation.
LEMMA PastPreparation ==
    ASSUME TypeOK, [Next]_vars, NEW u \in Tasks, run'[u].pc \notin Preliminary
    PROVE  /\ Role(u)' = Role(u)
           /\ run[u].pc \notin Preliminary \/ Charge(u)
           /\ run'[u].pc = "returning" => run[u].pc = "returning" \/ Role(u) = "revisor"
<1> USE DEF Preliminary
<1>1. ASSUME run'[u].pc = run[u].pc, run'[u].status = run[u].status
      PROVE  /\ Role(u)' = Role(u) /\ run[u].pc \notin Preliminary
             /\ run'[u].pc = "returning" => run[u].pc = "returning"
  BY <1>1 DEF Role
<1>2. ASSUME RunStep(u) \/ TurnAnswer(u) \/ PauseEnds(u)
      PROVE  /\ Role(u)' = Role(u)
             /\ run[u].pc \notin Preliminary \/ Charge(u)
             /\ run'[u].pc = "returning" => run[u].pc = "returning" \/ Role(u) = "revisor"
  <2>1. run'[u].status = run[u].status
    BY <1>2, RunComes
  <2>2. run[u].pc \notin Preliminary \/ Charge(u)
    <3>1. CASE PauseEnds(u)
      BY <3>1, RunGoes
    <3>2. CASE ~PauseEnds(u)
      BY <1>2, <3>2, RunGoes
         DEF RunStep, TurnAnswer, Opened, PromptRefused, PromptHeard, Ready, TurnEnds,
             JudgeFinding, JudgePass
    <3> QED
      BY <3>1, <3>2
  <2>3. run'[u].pc = "returning" => run[u].pc = "returning" \/ Role(u) = "revisor"
    BY <1>2, RunGoes DEF RunStep, TurnAnswer, JudgeFinding
  <2> QED
    BY <2>1, <2>2, <2>3 DEF Role
<1>3. ASSUME NEW t \in Tasks, RunStep(t) \/ TurnAnswer(t) \/ PauseEnds(t), t # u
      PROVE  run'[u] = run[u]
  BY <1>3, OtherCards
<1>4. ASSUME NEW c \in Clients, SendStep(c) PROVE run' = run
  BY <1>4, SendSteps
<1>5. CASE Tick
  BY <1>1, <1>5, TickRuns
<1>6. ASSUME NEW s \in Sessions, SessionExits(s)
      PROVE  run'[u].pc = run[u].pc /\ run'[u].status = run[u].status
  <2>1. run'[u] \in {run[u], [run[u] EXCEPT !.sess = None]}
    BY <1>6 DEF SessionExits, Idle
  <2> QED
    BY <2>1, StateTypes DEF RunRows
<1>7. ASSUME NEW t \in Tasks,
             \/ \E status \in Statuses : Move(t, status) \/ PersonSetsStatus(t, status)
             \/ \E autonomy \in {"inherit", "off"} : SetAutonomy(t, autonomy)
             \/ AgentSaysReview(t)
      PROVE  run'[u].pc = run[u].pc /\ run'[u].status = run[u].status
  BY <1>7, BoardWrites
<1>8. ~Crash
  BY DEF Crash, Idle
<1>9. CASE UNCHANGED run
  BY <1>1, <1>9
<1> QED
  BY <1>1, <1>2, <1>3, <1>4, <1>5, <1>6, <1>7, <1>8, <1>9
     DEF Next, Daemon, Person, GivenUpTurnEnds, OtherTurnEnds, SetMode, Send, Chat, vars

\* Where a card is, with what is parked on it.
LEMMA ParkedStep ==
    TypeOK /\ ParkedOrReturned /\ ReviewerReturns /\ [Next]_vars => (ParkedOrReturned /\ ReviewerReturns)'
<1> SUFFICES ASSUME TypeOK, ParkedOrReturned, ReviewerReturns, [Next]_vars, NEW u \in Tasks
             PROVE  /\ task'[u].prepared # "none" =>
                         /\ task'[u].status \in DueStatuses
                         /\ \/ DUE_STAGES[task'[u].status].role = task'[u].prepared
                            \/ /\ task'[u].status = "in_progress"
                               /\ task'[u].prepared = "revisor" /\ task'[u].bounces > 0
                    /\ run'[u].pc \notin Preliminary /\ Role(u)' = "revisor"
                         => task'[u].prepared \in {"none", "revisor"}
                    /\ run'[u].pc = "returning" => Role(u)' = "revisor"
  BY DEF ParkedOrReturned, ReviewerReturns, Role
<1>1. run'[u].pc = "returning" => Role(u)' = "revisor"
  BY PastPreparation DEF ReviewerReturns, Preliminary
<1>2. /\ DUE_STAGES["open"].role = "implementador"
      /\ DUE_STAGES["in_progress"].role = "implementador"
      /\ DUE_STAGES["review"].role = "revisor" /\ DUE_STAGES["testing"].role = "testador"
  BY DEF DUE_STAGES, DueStatuses
<1>3. task[u].bounces \in Nat /\ "in_progress" \in DueStatuses
  BY StateTypes DEF TaskRows, DueStatuses
<1>4. CASE Park(u)
  <2>1. run'[u].pc = "idle"
    BY <1>4, RunGoes
  <2>2. task'[u].prepared = Role(u) /\ task'[u].status = task[u].status
    BY <1>4 DEF Park, TypeOK, TaskRows
  <2>3. task[u].status \in DueStatuses /\ DUE_STAGES[task[u].status].role = Role(u)
    BY <1>4 DEF Park, StillDue, Candidate
  <2> QED
    BY <1>1, <2>1, <2>2, <2>3 DEF Preliminary
<1>5. CASE Bounce(u)
  <2>1. run'[u].pc \in {"idle", "blocking"}
    BY <1>5, RunGoes
  <2>2. task[u].prepared \in {"none", "revisor"}
    BY <1>5, RunComes DEF ReviewerReturns, Preliminary
  <2>3. task'[u] = task[u] \/ (/\ task'[u].bounces = task[u].bounces + 1
                               /\ task'[u].prepared = task[u].prepared
                               /\ task'[u].status = "in_progress")
    BY <1>5, Returns
  <2>4. CASE task'[u] = task[u]
    BY <1>1, <2>1, <2>4 DEF ParkedOrReturned, Preliminary
  <2>5. CASE task'[u].bounces = task[u].bounces + 1
    BY <1>1, <1>3, <2>1, <2>2, <2>3, <2>5 DEF ParkedOrReturned, Preliminary
  <2> QED
    BY <2>3, <2>4, <2>5
<1>6. CASE ~Park(u) /\ ~Bounce(u)
  <2>1. Undisplaced(u)
    BY <1>6, UndisplacedNext
  <2>2. task'[u].prepared # "none" =>
          /\ task'[u].status \in DueStatuses
          /\ \/ DUE_STAGES[task'[u].status].role = task'[u].prepared
             \/ /\ task'[u].status = "in_progress"
                /\ task'[u].prepared = "revisor" /\ task'[u].bounces > 0
    BY <1>2, <1>3, <2>1 DEF Undisplaced, ParkedOrReturned
  <2>3. ASSUME run'[u].pc \notin Preliminary, Role(u)' = "revisor"
        PROVE  task'[u].prepared \in {"none", "revisor"}
    <3>1. Role(u) = "revisor" /\ (run[u].pc \notin Preliminary \/ Charge(u))
      BY <2>3, PastPreparation
    <3>2. Charge(u) => task[u].prepared \in {"none", "revisor"}
      <4>1. Charge(u) => task[u].status \in DueStatuses /\ DUE_STAGES[task[u].status].role = Role(u)
        BY DEF Charge, StillDue, Candidate
      <4> QED
        BY <3>1, <4>1 DEF ParkedOrReturned
    <3> QED
      BY <2>1, <3>1, <3>2 DEF Undisplaced, ReviewerReturns
  <2> QED
    BY <1>1, <2>2, <2>3
<1> QED
  BY <1>4, <1>5, <1>6

LEMMA ParkedInit == Init => ParkedOrReturned /\ ReviewerReturns
BY DEF Init, ParkedOrReturned, ReviewerReturns, NewTask, Idle, Preliminary

\* The prompt parked on a card is of the stage the card is in, whatever moves it,
\* returns it or crashes - but for one case: a reviewer's prompt that was parked when
\* the workspace was assisted is still there after the reviewer of an autonomous
\* turn returns the card, because the return writes the column without entering
\* the stage (repositories/task.ts, bounce).
THEOREM ParkedWhereItWas == Spec => []ParkedOrReturned
<1>1. TypeOK /\ BudgetInvariant /\ ParkedOrReturned /\ ReviewerReturns /\ [Next]_vars
        => (TypeOK /\ BudgetInvariant /\ ParkedOrReturned /\ ReviewerReturns)'
  BY TypeStep, BudgetStep, ParkedStep
<1> QED
  BY <1>1, Initially, ParkedInit, PTL DEF Spec

\* In a workspace that stays assisted no run gets past its preparation.
OnlyPrepares ==
    /\ mode = "assistido"
    /\ \A t \in Tasks :
         /\ run[t].pc \in Preliminary
         /\ run[t].pc = "preparing" => run[t].assisted
         /\ task[t].bounces = 0

LEMMA OnlyPreparesStep ==
    TypeOK /\ OnlyPrepares /\ [Next /\ UNCHANGED mode]_vars => OnlyPrepares'
<1> SUFFICES ASSUME TypeOK, OnlyPrepares, [Next]_vars, mode' = mode, NEW u \in Tasks
             PROVE  /\ run'[u].pc \in Preliminary
                    /\ run'[u].pc = "preparing" => run'[u].assisted
                    /\ task'[u].bounces = 0
  BY DEF OnlyPrepares, vars
<1>1. ~Bounce(u)
  BY RunComes DEF OnlyPrepares, Preliminary
<1>2. ~Charge(u)
  BY DEF Charge, OnlyPrepares
<1>3. run'[u].pc \in Preliminary
  BY <1>2, PastPreparation DEF OnlyPrepares
<1>4. task'[u].bounces = 0
  <2>1. Park(u) => task'[u].bounces = task[u].bounces
    BY DEF Park, TypeOK, TaskRows
  <2>2. ~Park(u) => task'[u].bounces = task[u].bounces
    BY <1>1, UndisplacedNext DEF Undisplaced
  <2> QED
    BY <2>1, <2>2 DEF OnlyPrepares
<1>5. ASSUME run'[u].pc = "preparing" PROVE run'[u].assisted
  <2>1. ASSUME run'[u].pc = run[u].pc, run'[u].assisted = run[u].assisted PROVE run'[u].assisted
    BY <1>5, <2>1 DEF OnlyPrepares
  <2>2. CASE Tick
    <3>1. run'[u] = run[u] \/ run'[u] = Started(u)
      BY <2>2 DEF Tick
    <3>2. Started(u).assisted
      BY DEF Started, Idle, OnlyPrepares
    <3> QED
      BY <2>1, <3>1, <3>2
  <2>3. ASSUME NEW t \in Tasks, RunStep(t) \/ TurnAnswer(t) \/ PauseEnds(t) PROVE run'[u] = run[u]
    <3>1. CASE u # t
      BY <2>3, <3>1, OtherCards
    <3>2. CASE u = t
      BY <1>5, <2>3, <3>2, RunGoes DEF RunStep, TurnAnswer, PauseEnds
    <3> QED
      BY <3>1, <3>2
  <2>4. ASSUME NEW s \in Sessions, SessionExits(s)
        PROVE  run'[u].pc = run[u].pc /\ run'[u].assisted = run[u].assisted
    <3>1. run'[u] \in {run[u], [run[u] EXCEPT !.sess = None]}
      BY <1>5, <2>4 DEF SessionExits, Idle
    <3> QED
      BY <3>1, StateTypes DEF RunRows
  <2>5. ~Crash
    BY <1>5 DEF Crash, Idle
  <2>6. ASSUME NEW t \in Tasks, NEW row, Write(t, row)
        PROVE  run'[u].pc = run[u].pc /\ run'[u].assisted = run[u].assisted
    <3>1. run'[u] = run[u] \/ run'[u] = [run[u] EXCEPT !.charged = FALSE]
      BY <2>6, ZenonT(30) DEF Write, TypeOK
    <3> QED
      BY <3>1, StateTypes DEF RunRows
  <2>7. ASSUME NEW t \in Tasks, NEW status \in Statuses,
               Move(t, status) \/ PersonSetsStatus(t, status) \/ AgentSaysReview(t)
        PROVE  run'[u].pc = run[u].pc /\ run'[u].assisted = run[u].assisted
    BY <2>6, <2>7 DEF Move, PersonSetsStatus, AgentSaysReview
  <2>8. ASSUME NEW c \in Clients, SendStep(c) PROVE run' = run
    BY <2>8, SendSteps
  <2>9. "review" \in Statuses
    BY DEF Statuses, DueStatuses
  <2> QED
    BY <2>1, <2>2, <2>3, <2>4, <2>5, <2>7, <2>8, <2>9
       DEF Next, Daemon, Person, GivenUpTurnEnds, OtherTurnEnds, SetAutonomy, SetMode, Send,
           Chat, vars
<1> QED
  BY <1>3, <1>4, <1>5

\* In a workspace that stays assisted the parked prompt is always of the stage the
\* card is in: nothing but a person, or an agent that posts, moves the card, and
\* both take the prompt off (repositories/task.ts, "O preparo e de uma etapa").
THEOREM ParkedForTheStage == AssistedSpec => []ParkedForItsStage
<1> DEFINE Inv == TypeOK /\ BudgetInvariant /\ ParkedOrReturned /\ ReviewerReturns /\ OnlyPrepares
<1>1. Init /\ mode = "assistido" => Inv
  <2>1. Init /\ mode = "assistido" => OnlyPrepares
    BY DEF Init, OnlyPrepares, Idle, NewTask, Preliminary
  <2> QED
    BY <2>1, Initially, ParkedInit
<1>2. Inv /\ [Next /\ UNCHANGED mode]_vars => Inv'
  <2>1. [Next /\ UNCHANGED mode]_vars => [Next]_vars
    OBVIOUS
  <2> QED
    BY <2>1, TypeStep, BudgetStep, ParkedStep, OnlyPreparesStep
<1>3. Inv => ParkedForItsStage
  BY DEF ParkedOrReturned, OnlyPrepares, ParkedForItsStage
<1> HIDE DEF Inv
<1> QED
  BY <1>1, <1>2, <1>3, PTL DEF AssistedSpec

-----------------------------------------------------------------------------
(* The ceiling of returns *)

\* A card that has used up its returns is about to stop, or has stopped.
Exhausted(t) == task[t].bounces = MAX_BOUNCES + 1 + Interventions

ReturnsLeft ==
    /\ left \in [touches: 0..Touches, crashes: 0..Crashes, reviews: Nat]
    /\ \A t \in Tasks : Exhausted(t) =>
          \/ run[t].pc = "blocking"
          \/ run[t].pc \in {"idle", "reason"} /\ task[t].autonomy = "off"

\* The daemon and the agents never turn a card on.
LEMMA OnlyPeopleTurnOn ==
    ASSUME TypeOK, Daemon \/ \E t \in Tasks : AgentSaysReview(t), NEW u \in Tasks
    PROVE  task'[u].autonomy \in {task[u].autonomy, "off"}
<1>1. ASSUME NEW t \in Tasks, QuietRun(t) PROVE task'[u].autonomy = task[u].autonomy
  BY <1>1, QuietRuns DEF Same
<1>2. ASSUME NEW t \in Tasks, PromptHeard(t) \/ Bounce(t) \/ Advance(t)
      PROVE  task'[u].autonomy = task[u].autonomy
  <2>1. \/ task'[u] = task[u]
        \/ task'[u] = Hear(task[u], run[u].carries)
        \/ task'[u] = CountBounce(task[u])
        \/ task'[u] = SetStatus(task[u], NEXT_STAGE[run[u].status])
    BY <1>2, MovingSteps DEF TypeOK
  <2> QED
    BY <2>1, StateTypes, RowColumns
<1>3. ASSUME NEW t \in Tasks, BlockOff(t) \/ BlockReason(t)
      PROVE  task'[u].autonomy \in {task[u].autonomy, "off"}
  <2>1. \/ task'[u] = task[u]
        \/ task'[u] = [task[u] EXCEPT !.autonomy = "off"]
        \/ task'[u] = [task[u] EXCEPT !.blocked = TRUE]
    <3>1. \/ task' = [task EXCEPT ![t] = [task[t] EXCEPT !.autonomy = "off"]]
          \/ task' = [task EXCEPT ![t] = [task[t] EXCEPT !.blocked = TRUE]]
      BY <1>3, MovingSteps
    <3> QED
      BY <3>1, Zenon DEF TypeOK
  <2> QED
    BY <2>1, StateTypes DEF TaskRows
<1>4. ASSUME NEW c \in Clients, SendStep(c) PROVE task'[u].autonomy = task[u].autonomy
  BY <1>4, SendSteps
<1>5. ASSUME NEW t \in Tasks, AgentSaysReview(t) PROVE task'[u].autonomy = task[u].autonomy
  <2>1. Write(t, SetStatus(task[t], "review"))
    BY <1>5 DEF AgentSaysReview
  <2>2. SetStatus(task[t], "review").autonomy = task[t].autonomy
    BY StateTypes, RowColumns
  <2>3. task'[u] = IF u = t THEN SetStatus(task[t], "review") ELSE task[u]
    BY <2>1, Writes
  <2> QED
    BY <2>2, <2>3
<1> QED
  BY <1>1, <1>2, <1>3, <1>4, <1>5
     DEF Daemon, RunStep, TurnAnswer, QuietRun, Tick, GivenUpTurnEnds, OtherTurnEnds,
         SessionExits

\* A card that has stopped stays where it stopped.
LEMMA StaysStopped ==
    ASSUME TypeOK, Daemon \/ \E t \in Tasks : AgentSaysReview(t), NEW u \in Tasks,
           run[u].pc \in {"idle", "reason"}, task[u].autonomy = "off"
    PROVE  run'[u].pc \in {"idle", "reason"}
<1>1. ASSUME NEW t \in Tasks, RunStep(t) \/ TurnAnswer(t) \/ PauseEnds(t)
      PROVE  run'[u].pc \in {"idle", "reason"}
  <2>1. CASE u # t
    BY <1>1, <2>1, OtherCards
  <2>2. CASE u = t
    <3>1. BlockReason(t) \/ PauseEnds(t)
      BY <1>1, <2>2, RunComes DEF RunStep, TurnAnswer, QuietRun, BlockOff
    <3> QED
      BY <2>2, <3>1, RunGoes
  <2> QED
    BY <2>1, <2>2
<1>2. CASE Tick
  <2>1. ~Candidate(u)
    BY DEF Candidate
  <2>2. run'[u] = run[u]
    BY <1>2, <2>1 DEF Tick, IsHead, Candidates
  <2> QED
    BY <2>2
<1>3. ASSUME NEW c \in Clients, SendStep(c) PROVE run' = run
  BY <1>3, SendSteps
<1>4. ASSUME NEW s \in Sessions, SessionExits(s) PROVE run'[u].pc \in {"idle", "reason"}
  <2>1. run'[u] \in {run[u], Idle, [run[u] EXCEPT !.sess = None]}
    BY <1>4 DEF SessionExits
  <2> QED
    BY <2>1, StateTypes DEF Idle, RunRows
<1>5. ASSUME NEW t \in Tasks, AgentSaysReview(t) PROVE run'[u].pc = run[u].pc
  BY <1>5, BoardWrites
<1> QED
  BY <1>1, <1>2, <1>3, <1>4, <1>5 DEF Daemon, GivenUpTurnEnds, OtherTurnEnds

\* Nothing but a crash comes between the decision to stop a card and its first write.
LEMMA BlocksNext ==
    ASSUME TypeOK, Daemon \/ \E t \in Tasks : AgentSaysReview(t), NEW u \in Tasks,
           run[u].pc = "blocking"
    PROVE  run'[u].pc = "blocking" \/ (run'[u].pc = "reason" /\ task'[u].autonomy = "off")
<1>1. ~Settled
  BY DEF Settled
<1>2. ASSUME NEW t \in Tasks, RunStep(t) \/ TurnAnswer(t) \/ PauseEnds(t), t # u
      PROVE  run'[u] = run[u]
  BY <1>2, OtherCards
<1>3. ASSUME RunStep(u) \/ TurnAnswer(u) \/ PauseEnds(u) PROVE BlockOff(u)
  <2>1. ~PauseEnds(u)
    BY <1>1 DEF PauseEnds
  <2>2. ~BlockReason(u)
    BY DEF BlockReason
  <2> QED
    BY <1>3, <2>1, <2>2, RunComes DEF RunStep, TurnAnswer, QuietRun
<1>4. BlockOff(u) => run'[u].pc = "reason" /\ task'[u].autonomy = "off"
  BY RunGoes DEF BlockOff, TypeOK, TaskRows
<1>5. ASSUME NEW c \in Clients, SendStep(c) PROVE run' = run
  BY <1>5, SendSteps
<1> QED
  BY <1>1, <1>2, <1>3, <1>4, <1>5
     DEF Daemon, Tick, GivenUpTurnEnds, OtherTurnEnds, SessionExits, AgentSaysReview

\* A bounded step is a step.
LEMMA MCStep == [MCNext]_mcvars => [Next]_vars
BY MCAssumption DEF MCNext, MCPerson, Next, Person, mcvars, vars

\* One intervention allows one return more.
LEMMA ReturnsStep ==
    TypeOK /\ ReturnsBounded /\ ReturnsLeft /\ [MCNext]_mcvars => (ReturnsBounded /\ ReturnsLeft)'
<1> SUFFICES ASSUME TypeOK, ReturnsBounded, ReturnsLeft, [MCNext]_mcvars
             PROVE  (ReturnsBounded /\ ReturnsLeft)'
  OBVIOUS
<1>1. /\ left' \in [touches: 0..Touches, crashes: 0..Crashes, reviews: Nat]
      /\ \/ Interventions' = Interventions + 1
         \/ /\ Interventions' = Interventions
            /\ Daemon \/ (\E t \in Tasks : AgentSaysReview(t)) \/ UNCHANGED vars
  <2>1. left \in [touches: 0..Touches, crashes: 0..Crashes, reviews: Nat]
    BY DEF ReturnsLeft
  <2>2. CASE Spend("touches")
    BY <2>1, <2>2, MCAssumption DEF Spend, Interventions
  <2>3. CASE Spend("crashes")
    BY <2>1, <2>3, MCAssumption DEF Spend, Interventions
  <2>4. ASSUME Spend("reviews")
        PROVE  /\ left' \in [touches: 0..Touches, crashes: 0..Crashes, reviews: Nat]
               /\ Interventions' = Interventions
    BY <2>1, <2>4 DEF Spend, Interventions
  <2>5. ASSUME left' = left
        PROVE  /\ left' \in [touches: 0..Touches, crashes: 0..Crashes, reviews: Nat]
               /\ Interventions' = Interventions
    BY <2>1, <2>5 DEF Interventions
  <2> QED
    BY <2>2, <2>3, <2>4, <2>5 DEF MCNext, mcvars
<1>2. Interventions \in Nat /\ MAX_BOUNCES \in Nat
  BY MCAssumption, ConveyorAssumption DEF ReturnsLeft, Interventions
<1>3. [Next]_vars
  BY MCStep
<1>4. ASSUME NEW u \in Tasks
      PROVE  /\ task'[u].bounces <= MAX_BOUNCES + 1 + Interventions'
             /\ task'[u].bounces = MAX_BOUNCES + 1 + Interventions' =>
                   \/ run'[u].pc = "blocking"
                   \/ run'[u].pc \in {"idle", "reason"} /\ task'[u].autonomy = "off"
  <2>1. /\ task[u].bounces \in Nat /\ task[u].bounces <= MAX_BOUNCES + 1 + Interventions
        /\ Bounce(u) => task[u].bounces # MAX_BOUNCES + 1 + Interventions
    BY StateTypes, RunComes DEF ReturnsBounded, ReturnsLeft, Exhausted, TaskRows
  <2>2. task'[u].bounces = task[u].bounces
          \/ (Bounce(u) /\ task'[u].bounces = task[u].bounces + 1)
    <3>1. Park(u) => task'[u].bounces = task[u].bounces
      BY DEF Park, TypeOK, TaskRows
    <3>2. Bounce(u) => task'[u].bounces \in {task[u].bounces, task[u].bounces + 1}
      BY Returns
    <3>3. ~Park(u) /\ ~Bounce(u) => task'[u].bounces = task[u].bounces
      BY <1>3, UndisplacedNext DEF Undisplaced
    <3> QED
      BY <3>1, <3>2, <3>3
  <2>3. CASE Interventions' = Interventions + 1
    BY <1>2, <2>1, <2>2, <2>3
  <2>4. CASE Interventions' = Interventions /\ task'[u].bounces = task[u].bounces + 1 /\ Bounce(u)
    <3>1. task'[u].bounces <= MAX_BOUNCES + 1 + Interventions'
      BY <1>2, <2>1, <2>4
    <3>2. task'[u].bounces = MAX_BOUNCES + 1 + Interventions' => run'[u].pc = "blocking"
      <4>1. task'[u].bounces = MAX_BOUNCES + 1 + Interventions' => TooManyReturns(task'[u])
        BY <1>2, <2>4 DEF TooManyReturns
      <4>2. MayBounce(task[u])
        BY <2>1, <2>4 DEF Bounce
      <4>3. TooManyReturns(task'[u]) =>
              run'[u] = [run[u] EXCEPT !.pc = "blocking", !.charged = FALSE]
        BY <2>4, <4>2 DEF Bounce, TypeOK
      <4> QED
        BY <4>1, <4>3, StateTypes DEF RunRows
    <3> QED
      BY <3>1, <3>2
  <2>5. CASE Interventions' = Interventions /\ task'[u].bounces = task[u].bounces
    <3> SUFFICES ASSUME Exhausted(u)
                 PROVE  \/ run'[u].pc = "blocking"
                        \/ run'[u].pc \in {"idle", "reason"} /\ task'[u].autonomy = "off"
      BY <2>1, <2>5 DEF Exhausted
    <3>1. \/ run[u].pc = "blocking"
          \/ run[u].pc \in {"idle", "reason"} /\ task[u].autonomy = "off"
      BY DEF ReturnsLeft
    <3>2. Daemon \/ (\E t \in Tasks : AgentSaysReview(t)) \/ UNCHANGED vars
      BY <1>1, <1>2, <2>5
    <3>3. CASE UNCHANGED vars
      BY <3>1, <3>3 DEF vars
    <3> QED
      BY <3>1, <3>2, <3>3, OnlyPeopleTurnOn, StaysStopped, BlocksNext
  <2> QED
    BY <1>1, <2>2, <2>3, <2>4, <2>5
<1> QED
  BY <1>1, <1>4 DEF ReturnsBounded, ReturnsLeft, Exhausted

LEMMA ReturnsInit == MCInit => ReturnsBounded /\ ReturnsLeft
<1> SUFFICES ASSUME MCInit PROVE ReturnsBounded /\ ReturnsLeft
  OBVIOUS
<1>1. left \in [touches: 0..Touches, crashes: 0..Crashes, reviews: Nat] /\ Interventions = 0
  BY MCAssumption DEF MCInit, Interventions
<1>2. \A t \in Tasks : task[t].bounces = 0
  BY DEF MCInit, Init, NewTask
<1> QED
  BY <1>1, <1>2, ConveyorAssumption DEF ReturnsBounded, ReturnsLeft, Exhausted

\* A card is returned at most MAX_BOUNCES + 1 times, and once more for every crash
\* and every intervention of a person, for any number of both: the last return
\* asks for the block, and a card that is blocked is not taken (conveyor.ts,
\* runOne after the gate of the reviewer).
THEOREM ReturnsCeiling == MCSpec => []ReturnsBounded
<1>1. TypeOK /\ BudgetInvariant /\ ReturnsBounded /\ ReturnsLeft /\ [MCNext]_mcvars
        => (TypeOK /\ BudgetInvariant /\ ReturnsBounded /\ ReturnsLeft)'
  BY MCStep, TypeStep, BudgetStep, ReturnsStep
<1>2. MCInit => Init
  BY DEF MCInit
<1> QED
  BY <1>1, <1>2, Initially, ReturnsInit, PTL DEF MCSpec
=============================================================================
