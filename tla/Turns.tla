-------------------------------- MODULE Turns --------------------------------
(***************************************************************************)
(* The turns of an agent's conversation (acp/AcpManager.ts): the prompts   *)
(* that wait for the budget, for the memory and for the agent, the exit of *)
(* the adapter and the closing of its pipe, whichever comes first, the     *)
(* permissions it asks for, the changes of its configuration, and the      *)
(* update that holds prompts (update/auto.ts, update/install.ts).          *)
(*                                                                         *)
(* Two prompts in one session are allowed.  A step lies between two waits; *)
(* the agent's answer and the code that continues after it are two steps,  *)
(* since the exit may come between them.  Of the transcript only the       *)
(* question and the closing of each turn are kept; tool calls, the replay  *)
(* of a loaded conversation and the values of a configuration are left out,*)
(* and so are the scripts that also hold an update back.                   *)
(***************************************************************************)
EXTENDS Naturals, Sequences

CONSTANTS Sessions, Turns, Requests, Changes, None

ASSUME NoneAssumption == None \notin Sessions

VARIABLES
  up,         \* sessions whose process has not exited
  piped,      \* sessions whose connection is open
  flag,       \* promptInFlight
  cored,      \* coreInjected
  turn,       \* each call of prompt
  request,    \* the permissions that wait for a person
  change,     \* the changes of configuration that wait for the agent
  door,       \* the prompts of the daemon: open, held by an update, or leaving
  cores,      \* history: blocks of memory given to each session
  overlapped, \* history: turns that shared their session with another
  midturn     \* history: turns under which a change asked for during them was made

vars == <<up, piped, flag, cored, turn, request, change, door, cores, overlapped, midturn>>

\* budget, memory: the waits before the question is asked.  asked: the race of
\* the answer and the exit.  grace: the pipe closed first, the exit has a while.
Waits == {"budget", "memory", "asked", "grace"}

\* told: what the transcript says of the turn; the question is still to be
\* written while it says nothing.  error: a refusal for quota included.
Turn == [pc : {"new", "over"} \cup Waits, of : Sessions \cup {None},
         failed : BOOLEAN,       \* the failure the exit put there
         reply : {"none", "answer", "error", "closed"},
         told : Seq({"message", "turn_end", "turn_failed"}),
         result : {"none", "refused", "ended", "failed"}]

NewTurn == [pc |-> "new", of |-> None, failed |-> FALSE, reply |-> "none",
            told |-> <<>>, result |-> "none"]

\* pendingPermissions: an answered or cancelled request leaves it.
Request == [of : Sessions \cup {None},
            late : BOOLEAN]      \* history: it came out of the pipe after the exit

NoRequest == [of |-> None, late |-> FALSE]

Pending(r) == request[r] # NoRequest

\* A call of setConfig between its request to the agent and the answer.
Change == [of : Sessions \cup {None},
           ahead : SUBSET Turns] \* history: the turns in flight when it was asked for

NoChange == [of |-> None, ahead |-> {}]

Init ==
  /\ up = Sessions /\ piped = Sessions
  /\ flag = {} /\ cored = {}
  /\ turn = [t \in Turns |-> NewTurn]
  /\ request = [r \in Requests |-> NoRequest]
  /\ change = [c \in Changes |-> NoChange]
  /\ door = "open"
  /\ cores = [s \in Sessions |-> 0]
  /\ overlapped = {} /\ midturn = {}

-----------------------------------------------------------------------------
(* prompt. *)

\* turnsInFlight: the exit takes out the turns it closes.
InFlight(s) == {t \in Turns : turn[t].of = s /\ turn[t].pc \in Waits /\ ~turn[t].failed}

Over(t, result) == [turn[t] EXCEPT !.pc = "over", !.result = result]

\* Mutant: the mark is set once the budget has answered.
Unmarked(s) == flag

Marked(s) == flag \cup {s}

\* A process that is gone refuses, and so does an update that holds the door.
Admits(s) == door = "open" /\ s \in up

Prompt(t, s) ==
  /\ turn[t].pc = "new"
  /\ Admits(s)
  /\ turn' = [turn EXCEPT ![t].pc = "budget", ![t].of = s]
  /\ flag' = Marked(s)
  /\ overlapped' = IF InFlight(s) = {} THEN overlapped ELSE overlapped \cup InFlight(s) \cup {t}
  /\ UNCHANGED <<up, piped, cored, request, change, door, cores, midturn>>

\* The question is written and sent; on a closed connection it is sent back.
Asked(t) == [turn[t] EXCEPT !.pc = "asked", !.told = <<"message">>,
                            !.reply = IF turn[t].of \in piped THEN "none" ELSE "closed"]

\* Mutant: a refusal for budget leaves the mark.
StaysMarked(t) == flag

Unmark(t) == flag \ {turn[t].of}

\* The budget has answered, or could not be read, which lets the turn pass.
BudgetAnswers(t, block) ==
  LET s == turn[t].of IN
  /\ turn[t].pc = "budget"
  /\ turn' = [turn EXCEPT ![t] =
       CASE @.failed -> Over(t, "failed")
         [] ~@.failed /\ block -> Over(t, "refused")
         [] ~@.failed /\ ~block /\ s \in cored -> Asked(t)
         [] OTHER -> [@ EXCEPT !.pc = "memory"]]
  /\ flag' = IF ~turn[t].failed /\ block THEN Unmark(t) ELSE flag
  /\ UNCHANGED <<up, piped, cored, request, change, door, cores, overlapped, midturn>>

\* Mutant: nothing says that the memory was given.
NotMarkedGiven(s) == cored

MarkedGiven(s) == cored \cup {s}

\* The memory has answered, perhaps with nothing to say.
MemoryAnswers(t, found) ==
  LET s == turn[t].of
      gives == found /\ ~turn[t].failed
  IN
  /\ turn[t].pc = "memory"
  /\ turn' = [turn EXCEPT ![t] = IF @.failed THEN Over(t, "failed") ELSE Asked(t)]
  /\ cored' = IF gives THEN MarkedGiven(s) ELSE cored
  /\ cores' = IF gives THEN [cores EXCEPT ![s] = @ + 1] ELSE cores
  /\ UNCHANGED <<up, piped, flag, request, change, door, overlapped, midturn>>

\* External: the agent answers the prompt, well or not, also from a pipe that
\* its process left behind.
Replies(t, kind) ==
  /\ turn[t].pc = "asked" /\ turn[t].reply = "none" /\ turn[t].of \in piped
  /\ kind \in {"answer", "error"}
  /\ turn' = [turn EXCEPT ![t].reply = kind]
  /\ UNCHANGED <<up, piped, flag, cored, request, change, door, cores, overlapped, midturn>>

Closed(t, how) == Append(turn[t].told, how)

\* Mutant: who answered and who exited are told apart by nobody.
ClosesAgain(t) ==
  /\ turn[t].pc = "asked" /\ turn[t].reply = "answer"
  /\ turn' = [turn EXCEPT ![t] = [Over(t, "ended") EXCEPT !.told = Closed(t, "turn_end")]]
  /\ flag' = Unmark(t)

\* The answer is read: the turn ends.
Ends(t) ==
  /\ turn[t].pc = "asked" /\ turn[t].reply = "answer" /\ ~turn[t].failed
  /\ turn' = [turn EXCEPT ![t] = [Over(t, "ended") EXCEPT !.told = Closed(t, "turn_end")]]
  /\ flag' = Unmark(t)

\* An error, read with the connection open: the turn failed.  With it closed,
\* the exit is waited for.
Fails(t) ==
  /\ turn[t].pc = "asked" /\ turn[t].reply \in {"error", "closed"} /\ ~turn[t].failed
  /\ IF turn[t].of \in piped
     THEN /\ turn' = [turn EXCEPT ![t] = [Over(t, "failed") EXCEPT !.told = Closed(t, "turn_failed")]]
          /\ flag' = Unmark(t)
     ELSE /\ turn' = [turn EXCEPT ![t].pc = "grace"]
          /\ UNCHANGED flag

\* Mutant: only the answer is waited for.
LetGoOnAnswer(t) ==
  /\ turn[t].pc \in {"asked", "grace"} /\ turn[t].failed /\ turn[t].reply # "none"
  /\ turn' = [turn EXCEPT ![t] = Over(t, "failed")]
  /\ UNCHANGED flag

\* The exit rejects the race of its turn, whatever the agent answered.
LetGo(t) ==
  /\ turn[t].pc \in {"asked", "grace"} /\ turn[t].failed
  /\ turn' = [turn EXCEPT ![t] = Over(t, "failed")]
  /\ UNCHANGED flag

\* closeTurnOnExit: one closing for every turn in flight, its question before
\* it when it was not written yet.
ClosedOnExit(u) ==
  [turn[u] EXCEPT !.failed = TRUE,
     !.told = IF @ = <<>> THEN <<"message", "turn_failed">> ELSE Append(@, "turn_failed")]

AllClosed(s) == [u \in Turns |-> IF u \in InFlight(s) THEN ClosedOnExit(u) ELSE turn[u]]

\* The while is over and the process did not exit: its turns are closed here.
GraceEnds(t) ==
  LET s == turn[t].of IN
  /\ turn[t].pc = "grace" /\ ~turn[t].failed
  /\ turn' = [AllClosed(s) EXCEPT ![t].pc = "over", ![t].result = "failed"]
  /\ flag' = flag \ {s}

Continue(t) ==
  /\ Ends(t) \/ Fails(t) \/ LetGo(t) \/ GraceEnds(t)
  /\ UNCHANGED <<up, piped, cored, request, change, door, cores, overlapped, midturn>>

-----------------------------------------------------------------------------
(* The permissions, the process and its pipe. *)

\* What the policy does not approve at once waits for a person.
Asks(r, s) ==
  /\ ~Pending(r)
  /\ s \in piped
  /\ request' = [request EXCEPT ![r] = [of |-> s, late |-> s \notin up]]
  /\ UNCHANGED <<up, piped, flag, cored, turn, change, door, cores, overlapped, midturn>>

\* respondToPermission.
Responds(r) ==
  /\ Pending(r)
  /\ request' = [request EXCEPT ![r] = NoRequest]
  /\ UNCHANGED <<up, piped, flag, cored, turn, change, door, cores, overlapped, midturn>>

\* cancelPending.
Cancelled(s) == [r \in Requests |-> IF request[r].of = s THEN NoRequest ELSE request[r]]

\* cancel: the agent is told; its turn ends when it answers.
Cancel(s) ==
  /\ s \in up
  /\ request' = Cancelled(s)
  /\ UNCHANGED <<up, piped, flag, cored, turn, change, door, cores, overlapped, midturn>>

\* Mutant: the exit cancels nothing.
StillAsked(s) == request

\* What the exit does to the requests.
Withdrawn(s) == Cancelled(s)

\* markExited: the process has ended, killed or not.
Exit(s) ==
  /\ s \in up
  /\ up' = up \ {s}
  /\ request' = Withdrawn(s)
  /\ turn' = AllClosed(s)
  /\ flag' = flag \ {s}
  /\ UNCHANGED <<piped, cored, change, door, cores, overlapped, midturn>>

\* stdout closes, before the exit or after it; what waits on the connection is
\* rejected.
PipeCloses(s) ==
  /\ s \in piped
  /\ piped' = piped \ {s}
  /\ turn' = [t \in Turns |->
       IF turn[t].of = s /\ turn[t].pc = "asked" /\ turn[t].reply = "none"
       THEN [turn[t] EXCEPT !.reply = "closed"] ELSE turn[t]]
  /\ UNCHANGED <<up, flag, cored, request, change, door, cores, overlapped, midturn>>

Unoccupied(s) == s \in up /\ s \notin flag

\* setConfig: refused while the mark is on, then asked of the agent.
SetsConfig(c, s) ==
  /\ change[c] = NoChange
  /\ Unoccupied(s)
  /\ change' = [change EXCEPT ![c] = [of |-> s, ahead |-> InFlight(s)]]
  /\ UNCHANGED <<up, piped, flag, cored, turn, request, door, cores, overlapped, midturn>>

\* The agent took the change: it is written and told without another look at the
\* mark, also under a turn that began while it waited.
ConfigAnswered(c) ==
  LET s == change[c].of IN
  /\ s \in piped
  /\ change' = [change EXCEPT ![c] = NoChange]
  /\ midturn' = midturn \cup (InFlight(s) \cap change[c].ahead)
  /\ UNCHANGED <<up, piped, flag, cored, turn, request, door, cores, overlapped>>

\* The agent refused it, or its pipe closed: nothing is written.
ConfigFails(c) ==
  /\ change[c] # NoChange
  /\ change' = [change EXCEPT ![c] = NoChange]
  /\ UNCHANGED <<up, piped, flag, cored, turn, request, door, cores, overlapped, midturn>>

\* setLumemMode: the policy is the daemon's own and changes at once.
SetsLumemMode(s) ==
  /\ Unoccupied(s)
  /\ midturn' = midturn \cup InFlight(s)
  /\ UNCHANGED <<up, piped, flag, cored, turn, request, change, door, cores, overlapped>>

-----------------------------------------------------------------------------
(* The update. *)

\* The tick of auto.ts and the click: nothing in flight as far as the marks
\* say, and the door closes in the same stretch.
UpdateStarts ==
  /\ door = "open" /\ flag = {}
  /\ door' = "held"
  /\ UNCHANGED <<up, piped, flag, cored, turn, request, change, cores, overlapped, midturn>>

\* The installation ends: the door opens again, or the daemon shuts down, and
\* a shutdown that fails opens it too.
UpdateGoesOn ==
  /\ door # "open"
  /\ door' \in IF door = "held" THEN {"open", "leaving"} ELSE {"open"}
  /\ UNCHANGED <<up, piped, flag, cored, turn, request, change, cores, overlapped, midturn>>

-----------------------------------------------------------------------------
Answered(t) ==
  \/ \E block \in BOOLEAN : BudgetAnswers(t, block)
  \/ \E found \in BOOLEAN : MemoryAnswers(t, found)
  \/ Continue(t)

Next ==
  \/ \E t \in Turns : \/ \E s \in Sessions : Prompt(t, s)
                      \/ Answered(t)
                      \/ \E kind \in {"answer", "error"} : Replies(t, kind)
  \/ \E r \in Requests : Responds(r) \/ \E s \in Sessions : Asks(r, s)
  \/ \E s \in Sessions : Cancel(s) \/ Exit(s) \/ PipeCloses(s) \/ SetsLumemMode(s)
  \/ \E c \in Changes : ConfigAnswered(c) \/ ConfigFails(c) \/ \E s \in Sessions : SetsConfig(c, s)
  \/ UpdateStarts \/ UpdateGoesOn

\* The database and the files of the memory answer, promises go on and the
\* timer of the grace fires.  No agent is assumed to answer.
Fairness == \A t \in Turns : WF_vars(Answered(t))

Spec == Init /\ [][Next]_vars /\ Fairness

-----------------------------------------------------------------------------
(* Properties. *)

TypeOK ==
  /\ up \subseteq Sessions /\ piped \subseteq Sessions
  /\ flag \subseteq up /\ cored \subseteq Sessions
  /\ turn \in [Turns -> Turn]
  /\ \A t \in Turns : turn[t].pc # "new" => turn[t].of \in Sessions
  /\ request \in [Requests -> Request] /\ change \in [Changes -> Change]
  /\ door \in {"open", "held", "leaving"}
  /\ cores \in [Sessions -> Nat]
  /\ overlapped \subseteq Turns /\ midturn \subseteq Turns

\* Every prompt that was not refused is in the transcript: its question once,
\* and after it exactly one closing, which is the end of the turn only when the
\* agent answered it; whatever the order of the answer, the exit, the closing
\* of the pipe, the grace and the other prompts of the session
\* (AcpManager.ts:1446, docs/features/037 prd.md:131, "um fecho só por turno").
StoryOfATurn ==
  \A t \in Turns :
    /\ turn[t].told \in {<<>>, <<"message">>, <<"message", "turn_end">>, <<"message", "turn_failed">>}
    /\ turn[t].result = "refused" => turn[t].told = <<>>
    /\ turn[t].result = "ended" => turn[t].told = <<"message", "turn_end">>
    /\ turn[t].result = "failed" => turn[t].told = <<"message", "turn_failed">>

\* The mark is never left on a session with no turn in flight (the card would
\* be busy for ever), and a turn that had the session for itself always has it
\* (AcpManager.ts:1364, 1452).
MarkTellsOfATurn ==
  /\ \A s \in flag : InFlight(s) # {}
  /\ \A s \in Sessions : \A t \in InFlight(s) : t \in overlapped \/ s \in flag

\* Nothing that waits for the end of the turns is let in under one, in any of
\* its waits: no update runs while a turn is in flight, and no configuration
\* that changes under a turn was asked for during it; except under a turn whose
\* mark was taken by another prompt of its session (AcpManager.ts:1359-1366,
\* 1832, 2436, update/auto.ts:89-93).  What was asked for before the turn began
\* may still be written under it (AcpManager.ts:2456-2476, 2485-2501).
NothingUnderATurn ==
  /\ door # "open" => \A s \in Sessions : InFlight(s) \subseteq overlapped
  /\ midturn \subseteq overlapped

\* No request of an agent that is gone waits for a person, except one that was
\* still in its pipe (AcpManager.ts:2633).
NoDeadButtons ==
  \A r \in Requests : Pending(r) => request[r].of \in up \/ request[r].late

\* The memory goes once into a conversation where prompts come one at a time,
\* failures of a turn and of the memory included (AcpManager.ts:530).
MemoryGoesOnce ==
  \A s \in Sessions : cores[s] <= 1 \/ \E t \in overlapped : turn[t].of = s

\* Whoever waits for a turn of an agent that exited, or whose pipe closed, is
\* let go (AcpManager.ts:507).
EverybodyIsLetGo ==
  \A t \in Turns :
    turn[t].pc \in Waits /\ (turn[t].of \notin up \/ turn[t].of \notin piped)
      ~> turn[t].pc = "over"
=============================================================================
