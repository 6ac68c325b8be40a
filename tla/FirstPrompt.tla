----------------------------- MODULE FirstPrompt -----------------------------
(***************************************************************************)
(* The first prompt of a session, kept on its row while the checkout is    *)
(* prepared (sessions/pending-prompt.ts): who sends it, who drops it, the  *)
(* resume that takes it to another session (sessions/SessionStore.ts), the *)
(* conversation it enters (acp/AcpManager.ts: prompt, markExited) and the  *)
(* daemon that stops at any point.                                         *)
(*                                                                         *)
(* There is one text, written by worktree.start.  As in Scripts, awaiting  *)
(* the database gives way to no other request, so a step lies between two  *)
(* waits for the `setup`, for the memory that goes before a first message, *)
(* for an adapter or for its process; only a crash falls inside a step.    *)
(***************************************************************************)
EXTENDS Naturals

CONSTANTS
  Sessions,
  First,       \* the session that worktree.start opened
  Callers,     \* requests of session.resume in flight
  Typed,       \* bound: the sessions somebody types in
  Refusable,   \* bound: the sessions whose prompts may be refused
  Crashes      \* bound: times the daemon stops

None == "none"

ASSUME SessionsAssumption == First \in Sessions /\ None \notin Sessions
ASSUME CrashesAssumption == Crashes \in Nat

VARIABLES
  row,       \* the table of sessions
  agent,     \* AcpManager: the adapter of each session
  preparing, \* the sessions whose text a `deliver` holds until the checkout is ready
  resume,    \* where each session.resume is
  sending,   \* the claims in memory: sessions whose text is on its way
  listening, \* the sessions whose next message takes the text off the row
  core,      \* turns of the text that wait for the memory, by session
  asked,     \* turns of the text that the agent was asked
  chat,      \* the turn that somebody types in the session
  said,      \* history: times the text entered the conversation of the session
  dropped,   \* history: sessions whose text a person dropped
  refused,   \* history: sessions whose prompt was refused before its turn
  mistaken,  \* history: sessions that took another message for the text
  crashes

vars == <<row, agent, preparing, resume, sending, listening, core, asked, chat, said,
          dropped, refused, mistaken, crashes>>

\* A row with its text, and the mark of a `setup` that failed.
Row == [state : {"none", "running", "exited"}, pending : BOOLEAN, failed : BOOLEAN]
NoRow == [state |-> "none", pending |-> FALSE, failed |-> FALSE]

\* What a resume read of the row before the adapter was up, and the session
\* it brought up.
Resumes == [from : Sessions \cup {None}, pending : BOOLEAN, failed : BOOLEAN,
            into : Sessions \cup {None}]
NoResume == [from |-> None, pending |-> FALSE, failed |-> FALSE, into |-> None]

\* worktree.start has just put the text on the row of its session.
Init ==
  /\ row = [s \in Sessions |-> IF s = First
              THEN [state |-> "running", pending |-> TRUE, failed |-> FALSE] ELSE NoRow]
  /\ agent = [s \in Sessions |-> IF s = First THEN "up" ELSE "none"]
  /\ preparing = {First}
  /\ resume = [c \in Callers |-> NoResume]
  /\ sending = {} /\ listening = {}
  /\ core = [s \in Sessions |-> 0] /\ asked = [s \in Sessions |-> 0]
  /\ chat = [s \in Sessions |-> "no"]
  /\ said = [s \in Sessions |-> 0]
  /\ dropped = {} /\ refused = {} /\ mistaken = {}
  /\ crashes = 0

-----------------------------------------------------------------------------
(* Sending. *)

\* Mutant: the reason stays on the row.
ClearedText(r) == [r EXCEPT !.pending = FALSE]

\* clearPending: the reason goes with the text.
Cleared(r) == [r EXCEPT !.pending = FALSE, !.failed = FALSE]

\* The claim, the listener and the prompt, in one stretch of code.
Begin(s) ==
  /\ sending' = sending \cup {s}
  /\ listening' = listening \cup {s}
  /\ core' = [core EXCEPT ![s] = @ + 1]
  /\ UNCHANGED <<row, refused>>

\* Mutant: the row is cleared when the prompt is asked, and a refusal loses it.
RefuseCleared(s) ==
  /\ s \in Refusable
  /\ refused' = refused \cup {s}
  /\ row' = [row EXCEPT ![s] = Cleared(@)]
  /\ UNCHANGED <<sending, listening, core>>

\* The ceiling of the workspace, or an update, refuses before the turn: the
\* claim and the listener are gone again and the text is still on the row.
Refuse(s) ==
  /\ s \in Refusable
  /\ refused' = refused \cup {s}
  /\ UNCHANGED <<row, sending, listening, core>>

\* Mutant: the row alone says whether the text is on its way.
NeverClaimed(s) == FALSE

Claimed(s) == s \in sending

\* sendPendingNow: nothing happens when the agent is gone or the text is on
\* its way already.
Send(s) ==
  IF agent[s] = "up" /\ ~Claimed(s)
  THEN Begin(s) \/ Refuse(s)
  ELSE UNCHANGED <<row, sending, listening, core, refused>>

\* Mutant: the row that was read before the `setup` decides.
ReadyAsBefore(s) ==
  \/ /\ row' = [row EXCEPT ![s].failed = row[s].pending]
     /\ UNCHANGED <<sending, listening, core, refused>>
  \/ Send(s)

\* deliver, once the checkout is ready or is not: the row is read again.
Ready(s) ==
  IF row[s].pending
  THEN \/ /\ row' = [row EXCEPT ![s].failed = TRUE]
          /\ UNCHANGED <<sending, listening, core, refused>>
       \/ Send(s)
  ELSE UNCHANGED <<row, sending, listening, core, refused>>

Prepared(s) ==
  /\ s \in preparing
  /\ preparing' = preparing \ {s}
  /\ Ready(s)
  /\ UNCHANGED <<agent, resume, asked, chat, said, dropped, mistaken, crashes>>

\* session.sendPending: a person decides to send it, prepared or not.
SendPending(s) ==
  /\ row[s].pending
  /\ Send(s)
  /\ UNCHANGED <<agent, preparing, resume, asked, chat, said, dropped, mistaken, crashes>>

\* session.discardPending.
Discard(s) ==
  /\ row[s].pending
  /\ row' = [row EXCEPT ![s] = Cleared(@)]
  /\ dropped' = dropped \cup {s}
  /\ UNCHANGED <<agent, preparing, resume, sending, listening, core, asked, chat, said, refused,
                 mistaken, crashes>>

-----------------------------------------------------------------------------
(* The conversation. *)

\* Mutant: nobody listens, the row waits for a turn that may never end.
HearNothing(s) == UNCHANGED <<listening, row>>

\* The listener: the first message of a user takes the text off the row,
\* whoever wrote it.
Hear(s) ==
  IF s \in listening
  THEN /\ listening' = listening \ {s}
       /\ row' = [row EXCEPT ![s] = Cleared(@)]
  ELSE UNCHANGED <<listening, row>>

TextEnters(s) ==
  /\ core[s] > 0
  /\ core' = [core EXCEPT ![s] = @ - 1]
  /\ asked' = [asked EXCEPT ![s] = @ + 1]
  /\ said' = [said EXCEPT ![s] = @ + 1]
  /\ Hear(s)
  /\ UNCHANGED <<agent, preparing, resume, sending, chat, dropped, refused, mistaken, crashes>>

\* The turn of the text ends, well or not, and with it the claim.
TextEnds(s) ==
  /\ asked[s] > 0
  /\ asked' = [asked EXCEPT ![s] = @ - 1]
  /\ sending' = sending \ {s}
  /\ listening' = listening \ {s}
  /\ UNCHANGED <<row, agent, preparing, resume, core, chat, said, dropped, refused, mistaken,
                 crashes>>

\* Somebody types in the session, text waiting or not.
Chats(s) ==
  /\ s \in Typed
  /\ row[s].state = "running" /\ agent[s] = "up" /\ chat[s] = "no"
  /\ chat' = [chat EXCEPT ![s] = "core"]
  /\ UNCHANGED <<row, agent, preparing, resume, sending, listening, core, asked, said, dropped,
                 refused, mistaken, crashes>>

ChatEnters(s) ==
  /\ chat[s] = "core"
  /\ chat' = [chat EXCEPT ![s] = "asked"]
  /\ Hear(s)
  /\ mistaken' = IF s \in listening THEN mistaken \cup {s} ELSE mistaken
  /\ UNCHANGED <<agent, preparing, resume, sending, core, asked, said, dropped, refused, crashes>>

ChatEnds(s) ==
  /\ chat[s] = "asked"
  /\ chat' = [chat EXCEPT ![s] = "no"]
  /\ UNCHANGED <<row, agent, preparing, resume, sending, listening, core, asked, said, dropped,
                 refused, mistaken, crashes>>

\* The questions that had not entered the conversation enter it as it ends.
Ended(r) == IF r.state = "running" THEN [r EXCEPT !.state = "exited"] ELSE r
Heard(s) == s \in listening /\ (core[s] > 0 \/ chat[s] = "core")

\* The process of the adapter ends.
Exit(s) ==
  /\ agent[s] = "up"
  /\ agent' = [agent EXCEPT ![s] = "gone"]
  /\ row' = [row EXCEPT ![s] = Ended(IF Heard(s) THEN Cleared(@) ELSE @)]
  /\ said' = [said EXCEPT ![s] = @ + core[s]]
  /\ core' = [core EXCEPT ![s] = 0]
  /\ asked' = [asked EXCEPT ![s] = 0]
  /\ chat' = [chat EXCEPT ![s] = "no"]
  /\ sending' = sending \ {s}
  /\ listening' = listening \ {s}
  /\ UNCHANGED <<preparing, resume, dropped, refused, mistaken, crashes>>

-----------------------------------------------------------------------------
(* Resuming. *)

\* session.resume reads the row of a session that is over and brings an
\* adapter up, which takes seconds.
Resume(c, s) ==
  /\ resume[c].from = None
  /\ row[s].state = "exited"
  /\ resume' = [resume EXCEPT ![c] = [from |-> s, pending |-> row[s].pending,
                                      failed |-> row[s].failed, into |-> None]]
  /\ UNCHANGED <<row, agent, preparing, sending, listening, core, asked, chat, said, dropped,
                 refused, mistaken, crashes>>

\* newId: an id of no session, whichever it is.
Fresh == {u \in Sessions : agent[u] = "none"}
NewId == CHOOSE u \in Fresh : TRUE

\* The adapter is up; the old model is asked of it again.
Spawned(c) ==
  /\ resume[c].from # None /\ resume[c].into = None
  /\ Fresh # {}
  /\ agent' = [agent EXCEPT ![NewId] = "up"]
  /\ resume' = [resume EXCEPT ![c].into = NewId]
  /\ UNCHANGED <<row, preparing, sending, listening, core, asked, chat, said, dropped, refused,
                 mistaken, crashes>>

\* No adapter, or no row: the one that is up is killed.
ResumeFails(c) ==
  /\ resume[c].from # None
  /\ resume' = [resume EXCEPT ![c] = NoResume]
  /\ agent' = [u \in Sessions |-> IF u = resume[c].into THEN "gone" ELSE agent[u]]
  /\ UNCHANGED <<row, preparing, sending, listening, core, asked, chat, said, dropped, refused,
                 mistaken, crashes>>

\* The row of the new session, and the text that moves to it.
Born(rows, r) ==
  [rows EXCEPT ![r.into] = [state |-> "running", pending |-> r.pending, failed |-> r.failed]]
Moved(rows, r) ==
  IF r.pending THEN [Born(rows, r) EXCEPT ![r.from] = Cleared(@)] ELSE Born(rows, r)

\* Mutant: the route of the resume leaves the text on the row.
DeliverNothing(r) == preparing

\* deliverPending: a reason on the row waits for a person.
Deliver(r) == IF r.pending /\ ~r.failed THEN preparing \cup {r.into} ELSE preparing

Resumed(c) ==
  /\ resume[c].into # None
  /\ row' = Moved(row, resume[c])
  /\ preparing' = Deliver(resume[c])
  /\ resume' = [resume EXCEPT ![c] = NoResume]
  /\ UNCHANGED <<agent, sending, listening, core, asked, chat, said, dropped, refused, mistaken,
                 crashes>>

-----------------------------------------------------------------------------
(* The daemon stops and starts again. *)

AllEnded(rows) == [s \in Sessions |-> Ended(rows[s])]

\* The crash may fall after the row of a resume was written and before the old
\* one was cleared, or after a message was written and before the row was.
Torn ==
  \/ row' = AllEnded(row) /\ said' = said
  \/ \E c \in Callers : /\ resume[c].into # None
                        /\ row' = AllEnded(Born(row, resume[c]))
                        /\ said' = said
  \/ \E s \in Sessions : /\ core[s] > 0
                         /\ row' = AllEnded(row)
                         /\ said' = [said EXCEPT ![s] = @ + 1]

Restart ==
  /\ crashes < Crashes
  /\ crashes' = crashes + 1
  /\ Torn
  /\ agent' = [s \in Sessions |-> IF agent[s] = "none" THEN "none" ELSE "gone"]
  /\ preparing' = {} /\ sending' = {} /\ listening' = {}
  /\ resume' = [c \in Callers |-> NoResume]
  /\ core' = [s \in Sessions |-> 0] /\ asked' = [s \in Sessions |-> 0]
  /\ chat' = [s \in Sessions |-> "no"]
  /\ UNCHANGED <<dropped, refused, mistaken>>

-----------------------------------------------------------------------------
SessionStep(s) ==
  \/ Prepared(s) \/ SendPending(s) \/ Discard(s)
  \/ TextEnters(s) \/ TextEnds(s) \/ Chats(s) \/ ChatEnters(s) \/ ChatEnds(s)
  \/ Exit(s)

CallerStep(c) ==
  \/ \E s \in Sessions : Resume(c, s)
  \/ Spawned(c) \/ ResumeFails(c) \/ Resumed(c)

Next ==
  \/ \E s \in Sessions : SessionStep(s)
  \/ \E c \in Callers : CallerStep(c)
  \/ Restart

\* The `setup` has a ceiling of its own (SETUP_TIMEOUT_MS), and the files of
\* the memory answer.  No agent is assumed to.
Fairness == \A s \in Sessions : WF_vars(Prepared(s)) /\ WF_vars(TextEnters(s))

Spec == Init /\ [][Next]_vars /\ Fairness

-----------------------------------------------------------------------------
(* Properties. *)

\* The types, and that a reason on a row is always the reason of a text that
\* waits there (repositories/session.ts: markPendingFailed, clearPending).
TypeOK ==
  /\ row \in [Sessions -> {r \in Row : r.failed => r.pending}]
  /\ agent \in [Sessions -> {"none", "up", "gone"}]
  /\ preparing \subseteq Sessions
  /\ resume \in [Callers -> {r \in Resumes : r.failed => r.pending}]
  /\ sending \subseteq Sessions /\ listening \subseteq sending
  /\ core \in [Sessions -> Nat] /\ asked \in [Sessions -> Nat] /\ said \in [Sessions -> Nat]
  /\ chat \in [Sessions -> {"no", "core", "asked"}]
  /\ dropped \subseteq Sessions /\ refused \subseteq Sessions /\ mistaken \subseteq Sessions
  /\ crashes \in 0 .. Crashes

\* However many times it is sent (by the delivery, by a double click, by the
\* delivery and a click at once), the text is at most once on its way in a
\* session and enters its conversation at most once (pending-prompt.ts:102).
SentOnce == \A s \in Sessions : core[s] + asked[s] <= 1 /\ said[s] <= 1

\* What a person dropped stays dropped: neither the `setup` that ends later
\* nor a crash sends the text, puts it back on that row or says it in that
\* conversation, unless it was on its way already (pending-prompt.ts:22).
DecisionsStand ==
  [][\A s \in dropped \ sending :
       said'[s] = said[s] /\ ~row'[s].pending /\ s \notin sending']_vars

\* A text without a reason on the row of a live session is on its way to a
\* decision: its checkout is being prepared, it is being sent, or the refusal
\* of its prompt was already told to whoever asked.
Waiting(s) == /\ row[s].pending /\ ~row[s].failed /\ row[s].state = "running"
              /\ agent[s] = "up" /\ s \notin refused
NothingForgotten == \A s \in Sessions : Waiting(s) => s \in preparing \cup sending

\* The text is not lost, whatever fails and whenever the daemon stops: it is on
\* a row, or on its way, or it was said, unless a person dropped it or another
\* message was taken for it.
TextIsKept ==
  \/ \E s \in Sessions : row[s].pending \/ core[s] > 0 \/ said[s] > 0
  \/ dropped # {} \/ mistaken # {}

\* No text waits for ever on a live session without a reason: it is said, or
\* dropped, or the row says why, or the session ends.
EveryTextIsDecided == \A s \in Sessions : Waiting(s) ~> ~Waiting(s)

\* sessions/SessionStore.ts:768: a resume moves the text, because two rows with
\* the same text waiting would be two "send it anyway" for one turn.  So the
\* text becomes at most one turn, in one conversation.
OneTurnForTheText == \A s, u \in Sessions : said[s] > 0 /\ said[u] > 0 => s = u
=============================================================================
