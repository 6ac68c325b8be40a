-------------------------- MODULE FirstPromptProofs --------------------------
(***************************************************************************)
(* What holds of FirstPrompt for any sessions, callers and crashes.  The   *)
(* invariant says, session by session, what a claim, a listener and a turn *)
(* have to do with the row; of a resume, that the session it reads is over *)
(* and the one it brings up is its own; and where the text is.             *)
(***************************************************************************)
EXTENDS FirstPrompt, TLAPS

\* A session of no row was never used, one that is over has no agent, and an
\* agent comes before the row.
Born0(s) == row[s].state = "none" =>
  /\ ~row[s].pending /\ s \notin preparing /\ s \notin sending /\ s \notin dropped
  /\ said[s] = 0
Over(s) == /\ row[s].state = "exited" => agent[s] = "gone"
           /\ agent[s] = "none" => row[s].state = "none"
           /\ agent[s] # "up" => s \notin sending

\* A claim is one turn of the text.  While it waits, the text is on the row
\* only if somebody listens for its message; once it was said, the text is off
\* the row of a live session.
Claims(s) ==
  /\ s \in sending <=> core[s] + asked[s] = 1
  /\ s \notin sending => core[s] = 0 /\ asked[s] = 0
  /\ s \in listening => core[s] = 1
  /\ core[s] = 1 => said[s] = 0 /\ (row[s].pending => s \in listening)
  /\ asked[s] = 1 => ~row[s].pending
  /\ said[s] <= 1
  /\ said[s] = 1 /\ agent[s] = "up" => ~row[s].pending

Drops(s) == s \in dropped => ~row[s].pending

Goes(s) == Waiting(s) => s \in preparing \cup sending

SessionInv(s) == Born0(s) /\ Over(s) /\ Claims(s) /\ Drops(s) /\ Goes(s)

ResumeInv(c) ==
  /\ resume[c].into # None => /\ resume[c].from # None
                              /\ row[resume[c].into].state = "none"
                              /\ agent[resume[c].into] # "none"
  /\ resume[c].from # None => row[resume[c].from].state = "exited"

\* Two resumes never bring up the same session.
Apart == \A c, d \in Callers :
  c # d /\ resume[c].into # None => resume[c].into # resume[d].into

\* A text on its way is on its row, unless it was dropped or mistaken.
Ways == \A s \in Sessions :
  core[s] > 0 => row[s].pending \/ dropped # {} \/ mistaken # {}

IInv ==
  /\ TypeOK
  /\ \A s \in Sessions : SessionInv(s)
  /\ \A c \in Callers : ResumeInv(c)
  /\ Apart
  /\ Ways /\ TextIsKept

USE SessionsAssumption, CrashesAssumption DEF None

-----------------------------------------------------------------------------
THEOREM InitInv == Init => IInv
<1> SUFFICES ASSUME Init PROVE IInv
  OBVIOUS
<1> USE DEF Init
<1>1. TypeOK
  BY DEF TypeOK, Row, NoRow, Resumes, NoResume
<1>2. ASSUME NEW s \in Sessions PROVE SessionInv(s)
  <2>1. s = First => row[s].state = "running" /\ agent[s] = "up" /\ s \in preparing
    BY DEF NoRow
  <2>2. s # First => row[s].state = "none" /\ row[s].pending = FALSE /\ s \notin preparing
    BY DEF NoRow
  <2>3. core[s] = 0 /\ asked[s] = 0 /\ said[s] = 0
    OBVIOUS
  <2> QED
    BY <2>1, <2>2, <2>3 DEF SessionInv, Born0, Over, Claims, Drops, Goes, Waiting
<1>3. (\A c \in Callers : ResumeInv(c)) /\ Apart
  BY DEF ResumeInv, Apart, NoResume
<1>4. Ways /\ TextIsKept
  BY DEF Ways, TextIsKept
<1> QED
  BY <1>1, <1>2, <1>3, <1>4 DEF IInv

-----------------------------------------------------------------------------
(* The parts of sending, for one session. *)

\* What Send does: nothing, or a claim, or a refusal.
LEMMA SendInv ==
  ASSUME IInv, NEW s \in Sessions, row[s].pending, Send(s),
         preparing' = preparing \/ preparing' = preparing \ {s},
         UNCHANGED <<agent, resume, asked, chat, said, dropped, mistaken, crashes>>
  PROVE  IInv'
<1>1. CASE (agent[s] # "up" \/ s \in sending) /\ UNCHANGED <<row, sending, listening, core, refused>>
  <2>1. TypeOK'
    BY <1>1 DEF IInv, TypeOK
  <2>2. ASSUME NEW u \in Sessions PROVE SessionInv(u)'
    <3>1. CASE u # s
      BY <1>1, <3>1 DEF IInv, SessionInv, Born0, Over, Claims, Drops, Goes, Waiting
    <3>2. CASE u = s
      BY <1>1, <3>2 DEF IInv, SessionInv, Born0, Over, Claims, Drops, Goes, Waiting
    <3> QED
      BY <3>1, <3>2
  <2>3. (\A c \in Callers : ResumeInv(c))' /\ Apart'
    BY <1>1 DEF IInv, ResumeInv, Apart
  <2>4. Ways' /\ TextIsKept'
    BY <1>1 DEF IInv, Ways, TextIsKept
  <2> QED
    BY <2>1, <2>2, <2>3, <2>4 DEF IInv
<1>2. CASE Begin(s) /\ agent[s] = "up" /\ s \notin sending
  <2>1. TypeOK'
    BY <1>2 DEF IInv, TypeOK, Begin
  <2>2. ASSUME NEW u \in Sessions PROVE SessionInv(u)'
    <3>1. CASE u # s
      BY <1>2, <3>1 DEF IInv, TypeOK, SessionInv, Born0, Over, Claims, Drops, Goes, Waiting, Begin
    <3>2. CASE u = s
      <4>1. core[s] = 0 /\ asked[s] = 0 /\ said[s] = 0 /\ row[s].state # "none" /\ s \notin dropped
        <5>1. core[s] = 0 /\ asked[s] = 0
          BY <1>2 DEF IInv, SessionInv, Claims
        <5>2. row[s].state # "none" /\ s \notin dropped
          BY DEF IInv, SessionInv, Born0, Drops
        <5>3. said[s] # 1 /\ said[s] <= 1
          BY <1>2 DEF IInv, SessionInv, Claims
        <5>4. said[s] \in Nat
          BY DEF IInv, TypeOK
        <5> QED
          BY <5>1, <5>2, <5>3, <5>4
      <4>2. core'[s] = 1 /\ asked'[s] = 0 /\ said'[s] = 0 /\ s \in sending' /\ s \in listening'
        BY <1>2, <4>1 DEF IInv, TypeOK, Begin
      <4>3. row' = row /\ agent' = agent /\ dropped' = dropped
        BY <1>2 DEF Begin
      <4>4. row[s].state = "exited" => agent[s] = "gone"
        BY DEF IInv, SessionInv, Over
      <4> QED
        BY <1>2, <3>2, <4>1, <4>2, <4>3, <4>4 DEF SessionInv, Born0, Over, Claims, Drops, Goes
    <3> QED
      BY <3>1, <3>2
  <2>3. (\A c \in Callers : ResumeInv(c))' /\ Apart'
    BY <1>2 DEF IInv, ResumeInv, Apart, Begin
  <2>4. Ways' /\ TextIsKept'
    BY <1>2 DEF IInv, TypeOK, Ways, TextIsKept, Begin
  <2> QED
    BY <2>1, <2>2, <2>3, <2>4 DEF IInv
<1>3. CASE Refuse(s)
  <2>1. TypeOK'
    BY <1>3 DEF IInv, TypeOK, Refuse
  <2>2. ASSUME NEW u \in Sessions PROVE SessionInv(u)'
    <3>1. CASE u # s
      BY <1>3, <3>1 DEF IInv, SessionInv, Born0, Over, Claims, Drops, Goes, Waiting, Refuse
    <3>2. CASE u = s
      BY <1>3, <3>2 DEF IInv, SessionInv, Born0, Over, Claims, Drops, Goes, Waiting, Refuse
    <3> QED
      BY <3>1, <3>2
  <2>3. (\A c \in Callers : ResumeInv(c))' /\ Apart'
    BY <1>3 DEF IInv, ResumeInv, Apart, Refuse
  <2>4. Ways' /\ TextIsKept'
    BY <1>3 DEF IInv, Ways, TextIsKept, Refuse
  <2> QED
    BY <2>1, <2>2, <2>3, <2>4 DEF IInv
<1> QED
  BY <1>1, <1>2, <1>3 DEF Send, Claimed

\* A step that touches only the row of s, and only to take its text away or to
\* mark it: the parts that are not about one session.
LEMMA RowOnly ==
  ASSUME IInv, NEW s \in Sessions, NEW r \in Row, r.failed => r.pending,
         r.state = row[s].state, row' = [row EXCEPT ![s] = r],
         agent' = agent, resume' = resume
  PROVE  /\ row' \in [Sessions -> {q \in Row : q.failed => q.pending}]
         /\ (\A c \in Callers : ResumeInv(c))' /\ Apart'
<1>1. row \in [Sessions -> {q \in Row : q.failed => q.pending}]
  BY DEF IInv, TypeOK
<1>2. \A u \in Sessions : row'[u].state = row[u].state
  BY <1>1
<1>3. resume \in [Callers -> Resumes]
  BY DEF IInv, TypeOK
<1>4. (\A c \in Callers : ResumeInv(c))'
  BY <1>2, <1>3 DEF IInv, ResumeInv, Resumes
<1> QED
  BY <1>1, <1>4 DEF IInv, Apart

LEMMA PreparedInv == ASSUME IInv, NEW s \in Sessions, Prepared(s) PROVE IInv'
<1>1. CASE ~row[s].pending
  <2>1. /\ preparing' = preparing \ {s}
        /\ UNCHANGED <<row, agent, resume, sending, listening, core, asked, chat, said, dropped,
                       refused, mistaken, crashes>>
    BY <1>1 DEF Prepared, Ready
  <2>2. TypeOK'
    BY <2>1 DEF IInv, TypeOK
  <2>3. ASSUME NEW u \in Sessions PROVE SessionInv(u)'
    <3>1. CASE u # s
      BY <2>1, <3>1 DEF IInv, SessionInv, Born0, Over, Claims, Drops, Goes, Waiting
    <3>2. CASE u = s
      BY <1>1, <2>1, <3>2 DEF IInv, SessionInv, Born0, Over, Claims, Drops, Goes, Waiting
    <3> QED
      BY <3>1, <3>2
  <2>4. (\A c \in Callers : ResumeInv(c))' /\ Apart'
    BY <2>1 DEF IInv, ResumeInv, Apart
  <2>5. Ways' /\ TextIsKept'
    BY <2>1 DEF IInv, Ways, TextIsKept
  <2> QED
    BY <2>2, <2>3, <2>4, <2>5 DEF IInv
<1>2. CASE row[s].pending /\ row' = [row EXCEPT ![s].failed = TRUE]
           /\ UNCHANGED <<sending, listening, core, refused>>
  <2>1. /\ preparing' = preparing \ {s}
        /\ UNCHANGED <<agent, resume, sending, listening, core, asked, chat, said, dropped,
                       refused, mistaken, crashes>>
    BY <1>2 DEF Prepared
  <2>2. row[s] \in Row
    BY DEF IInv, TypeOK
  <2>3. row' = [row EXCEPT ![s] = [row[s] EXCEPT !.failed = TRUE]]
    BY <1>2
  <2>4. /\ row' \in [Sessions -> {q \in Row : q.failed => q.pending}]
        /\ (\A c \in Callers : ResumeInv(c))' /\ Apart'
    BY <1>2, <2>1, <2>2, <2>3, RowOnly DEF Row
  <2>5. TypeOK'
    BY <2>1, <2>4 DEF IInv, TypeOK
  <2>6. /\ \A u \in Sessions : u # s => row'[u] = row[u]
        /\ row'[s].failed = TRUE /\ row'[s].pending = row[s].pending
        /\ row'[s].state = row[s].state
    BY <2>2, <2>3 DEF IInv, TypeOK, Row
  <2>7. ASSUME NEW u \in Sessions PROVE SessionInv(u)'
    <3>1. CASE u # s
      BY <2>1, <2>6, <3>1 DEF IInv, SessionInv, Born0, Over, Claims, Drops, Goes, Waiting
    <3>2. CASE u = s
      BY <1>2, <2>1, <2>6, <3>2 DEF IInv, SessionInv, Born0, Over, Claims, Drops, Goes, Waiting
    <3> QED
      BY <3>1, <3>2
  <2>8. Ways' /\ TextIsKept'
    BY <2>1, <2>6 DEF IInv, Ways, TextIsKept
  <2> QED
    BY <2>4, <2>5, <2>7, <2>8 DEF IInv
<1>3. CASE row[s].pending /\ Send(s)
  BY <1>3, SendInv DEF Prepared
<1> QED
  BY <1>1, <1>2, <1>3 DEF Prepared, Ready

\* Taking the text off a row.
LEMMA ClearedRow ==
  ASSUME IInv, NEW s \in Sessions
  PROVE  /\ Cleared(row[s]) \in Row
         /\ Cleared(row[s]).pending = FALSE /\ Cleared(row[s]).failed = FALSE
         /\ Cleared(row[s]).state = row[s].state
<1>1. row[s] \in Row
  BY DEF IInv, TypeOK
<1> DEFINE q == [row[s] EXCEPT !.pending = FALSE]
<1>2. q \in Row /\ q.pending = FALSE /\ q.state = row[s].state
  BY <1>1 DEF Row
<1>3. Cleared(row[s]) = [q EXCEPT !.failed = FALSE]
  BY <1>1 DEF Row, Cleared
<1> HIDE DEF q
<1> QED
  BY <1>2, <1>3 DEF Row

\* Hearing a message leaves the text on no row that was listening.
LEMMA HearRow ==
  ASSUME IInv, NEW s \in Sessions, Hear(s), agent' = agent, resume' = resume
  PROVE  /\ row' \in [Sessions -> {q \in Row : q.failed => q.pending}]
         /\ \A u \in Sessions : u # s => row'[u] = row[u]
         /\ row'[s].state = row[s].state
         /\ row'[s].pending => row[s].pending /\ s \notin listening
         /\ row'[s].failed => row[s].failed
         /\ s \notin listening => row' = row
         /\ listening' = listening \ {s}
         /\ (\A c \in Callers : ResumeInv(c))' /\ Apart'
<1>1. CASE s \in listening
  <2>1. row' = [row EXCEPT ![s] = Cleared(row[s])] /\ listening' = listening \ {s}
    BY <1>1 DEF Hear
  <2>2. row \in [Sessions -> {q \in Row : q.failed => q.pending}]
    BY DEF IInv, TypeOK
  <2>3. row'[s] = Cleared(row[s]) /\ \A u \in Sessions : u # s => row'[u] = row[u]
    BY <2>1, <2>2
  <2>4. /\ row' \in [Sessions -> {q \in Row : q.failed => q.pending}]
        /\ (\A c \in Callers : ResumeInv(c))' /\ Apart'
    BY <2>1, ClearedRow, RowOnly
  <2> QED
    BY <1>1, <2>1, <2>3, <2>4, ClearedRow
<1>2. CASE s \notin listening
  <2>1. row' = row /\ listening' = listening
    BY <1>2 DEF Hear
  <2> QED
    BY <1>2, <2>1 DEF IInv, TypeOK, ResumeInv, Apart
<1> QED
  BY <1>1, <1>2

LEMMA TextEntersInv == ASSUME IInv, NEW s \in Sessions, TextEnters(s) PROVE IInv'
<1>1. /\ UNCHANGED <<agent, preparing, resume, sending, chat, dropped, refused, mistaken, crashes>>
      /\ Hear(s)
  BY DEF TextEnters
<1>2. core[s] = 1 /\ asked[s] = 0 /\ said[s] = 0 /\ s \in sending
  <2>1. core[s] \in Nat /\ asked[s] \in Nat /\ core[s] > 0
    BY DEF IInv, TypeOK, TextEnters
  <2>2. s \in sending /\ core[s] + asked[s] = 1
    BY <2>1 DEF IInv, SessionInv, Claims
  <2>3. core[s] = 1 /\ asked[s] = 0
    BY <2>1, <2>2
  <2> QED
    BY <2>2, <2>3 DEF IInv, SessionInv, Claims
<1>3. core'[s] = 0 /\ asked'[s] = 1 /\ said'[s] = 1
  BY <1>2 DEF IInv, TypeOK, TextEnters
<1>4. \A u \in Sessions : u # s => core'[u] = core[u] /\ asked'[u] = asked[u] /\ said'[u] = said[u]
  BY DEF IInv, TypeOK, TextEnters
<1>5. core' \in [Sessions -> Nat] /\ asked' \in [Sessions -> Nat] /\ said' \in [Sessions -> Nat]
  BY <1>2 DEF IInv, TypeOK, TextEnters
<1>6. ~row'[s].pending
  BY <1>1, <1>2, HearRow DEF IInv, SessionInv, Claims
<1>7. TypeOK'
  BY <1>1, <1>5, HearRow DEF IInv, TypeOK
<1>8. ASSUME NEW u \in Sessions PROVE SessionInv(u)'
  <2>1. CASE u # s
    BY <1>1, <1>4, <2>1, HearRow DEF IInv, SessionInv, Born0, Over, Claims, Drops, Goes, Waiting
  <2>2. CASE u = s
    <3>1. row[s].state # "none" /\ row'[s].state = row[s].state
      BY <1>1, <1>2, HearRow DEF IInv, SessionInv, Born0
    <3>2. s \notin listening'
      BY <1>1, HearRow
    <3> QED
      BY <1>1, <1>2, <1>3, <1>6, <2>2, <3>1, <3>2
         DEF IInv, SessionInv, Born0, Over, Claims, Drops, Goes, Waiting
  <2> QED
    BY <2>1, <2>2
<1>9. Ways'
  BY <1>1, <1>3, <1>4, HearRow DEF IInv, Ways
<1>10. TextIsKept'
  BY <1>3 DEF TextIsKept
<1> QED
  BY <1>1, <1>7, <1>8, <1>9, <1>10, HearRow DEF IInv

LEMMA TextEndsInv == ASSUME IInv, NEW s \in Sessions, TextEnds(s) PROVE IInv'
<1>1. /\ UNCHANGED <<row, agent, preparing, resume, core, chat, said, dropped, refused, mistaken,
                     crashes>>
      /\ sending' = sending \ {s} /\ listening' = listening \ {s}
  BY DEF TextEnds
<1>2. core[s] = 0 /\ asked[s] = 1 /\ s \in sending
  <2>1. core[s] \in Nat /\ asked[s] \in Nat /\ asked[s] > 0
    BY DEF IInv, TypeOK, TextEnds
  <2>2. s \in sending /\ core[s] + asked[s] = 1
    BY <2>1 DEF IInv, SessionInv, Claims
  <2> QED
    BY <2>1, <2>2
<1>3. asked'[s] = 0 /\ asked' \in [Sessions -> Nat]
      /\ \A u \in Sessions : u # s => asked'[u] = asked[u]
  BY <1>2 DEF IInv, TypeOK, TextEnds
<1>4. ~row[s].pending
  BY <1>2 DEF IInv, SessionInv, Claims
<1>5. TypeOK'
  BY <1>1, <1>3 DEF IInv, TypeOK
<1>6. ASSUME NEW u \in Sessions PROVE SessionInv(u)'
  <2>1. CASE u # s
    BY <1>1, <1>3, <2>1 DEF IInv, SessionInv, Born0, Over, Claims, Drops, Goes, Waiting
  <2>2. CASE u = s
    BY <1>1, <1>2, <1>3, <1>4, <2>2
       DEF IInv, SessionInv, Born0, Over, Claims, Drops, Goes, Waiting
  <2> QED
    BY <2>1, <2>2
<1>7. (\A c \in Callers : ResumeInv(c))' /\ Apart'
  BY <1>1 DEF IInv, ResumeInv, Apart
<1>8. Ways' /\ TextIsKept'
  BY <1>1 DEF IInv, Ways, TextIsKept
<1> QED
  BY <1>5, <1>6, <1>7, <1>8 DEF IInv

LEMMA DiscardInv == ASSUME IInv, NEW s \in Sessions, Discard(s) PROVE IInv'
<1>1. /\ UNCHANGED <<agent, preparing, resume, sending, listening, core, asked, chat, said,
                     refused, mistaken, crashes>>
      /\ row' = [row EXCEPT ![s] = Cleared(row[s])]
      /\ dropped' = dropped \cup {s}
      /\ row[s].pending
  BY DEF Discard
<1>2. row'[s] = Cleared(row[s]) /\ \A u \in Sessions : u # s => row'[u] = row[u]
  BY <1>1 DEF IInv, TypeOK
<1>3. /\ row' \in [Sessions -> {q \in Row : q.failed => q.pending}]
      /\ (\A c \in Callers : ResumeInv(c))' /\ Apart'
  BY <1>1, ClearedRow, RowOnly
<1>4. TypeOK'
  BY <1>1, <1>3 DEF IInv, TypeOK
<1>5. ASSUME NEW u \in Sessions PROVE SessionInv(u)'
  <2>1. CASE u # s
    BY <1>1, <1>2, <2>1 DEF IInv, SessionInv, Born0, Over, Claims, Drops, Goes, Waiting
  <2>2. CASE u = s
    <3>1. row[s].state # "none"
      BY <1>1 DEF IInv, SessionInv, Born0
    <3>2. row'[s].pending = FALSE /\ row'[s].state = row[s].state
      BY ONLY <1>2, IInv, s \in Sessions, ClearedRow
    <3> QED
      BY <1>1, <2>2, <3>1, <3>2 DEF IInv, SessionInv, Born0, Over, Claims, Drops, Goes, Waiting
  <2> QED
    BY <2>1, <2>2
<1>6. Ways' /\ TextIsKept'
  BY <1>1 DEF Ways, TextIsKept
<1> QED
  BY <1>3, <1>4, <1>5, <1>6 DEF IInv

\* Turns that somebody types touch nothing of the text, but for the listener.
LEMMA ChatInv ==
  ASSUME IInv, NEW s \in Sessions, Chats(s) \/ ChatEnds(s)
  PROVE  IInv'
<1>1. UNCHANGED <<row, agent, preparing, resume, sending, listening, core, asked, said, dropped,
                  refused, mistaken, crashes>>
  BY DEF Chats, ChatEnds
<1>2. chat' \in [Sessions -> {"no", "core", "asked"}]
  BY DEF IInv, TypeOK, Chats, ChatEnds
<1>3. TypeOK'
  BY <1>1, <1>2 DEF IInv, TypeOK
<1>4. ASSUME NEW u \in Sessions PROVE SessionInv(u)'
  BY <1>1 DEF IInv, SessionInv, Born0, Over, Claims, Drops, Goes, Waiting
<1>5. (\A c \in Callers : ResumeInv(c))' /\ Apart'
  BY <1>1 DEF IInv, ResumeInv, Apart
<1>6. Ways' /\ TextIsKept'
  BY <1>1 DEF IInv, Ways, TextIsKept
<1> QED
  BY <1>3, <1>4, <1>5, <1>6 DEF IInv

LEMMA ChatEntersInv == ASSUME IInv, NEW s \in Sessions, ChatEnters(s) PROVE IInv'
<1>1. /\ UNCHANGED <<agent, preparing, resume, sending, core, asked, said, dropped, refused,
                     crashes>>
      /\ Hear(s)
      /\ mistaken' = IF s \in listening THEN mistaken \cup {s} ELSE mistaken
  BY DEF ChatEnters
<1>2. chat' \in [Sessions -> {"no", "core", "asked"}]
  BY DEF IInv, TypeOK, ChatEnters
<1>3. TypeOK'
  BY <1>1, <1>2, HearRow DEF IInv, TypeOK
<1>4. ASSUME NEW u \in Sessions PROVE SessionInv(u)'
  <2>1. CASE u # s
    BY <1>1, <2>1, HearRow DEF IInv, SessionInv, Born0, Over, Claims, Drops, Goes, Waiting
  <2>2. CASE u = s /\ s \in listening
    <3>1. row'[s].state = row[s].state /\ ~row'[s].pending /\ s \notin listening'
      BY <1>1, <2>2, HearRow
    <3> QED
      BY <1>1, <2>2, <3>1 DEF IInv, SessionInv, Born0, Over, Claims, Drops, Goes, Waiting
  <2>3. CASE u = s /\ s \notin listening
    <3>1. row' = row /\ listening' = listening
      BY <1>1, <2>3 DEF Hear
    <3> QED
      BY <1>1, <2>3, <3>1 DEF IInv, SessionInv, Born0, Over, Claims, Drops, Goes, Waiting
  <2> QED
    BY <2>1, <2>2, <2>3
<1>5. Ways' /\ TextIsKept'
  <2>1. CASE s \in listening
    BY <1>1, <2>1 DEF Ways, TextIsKept
  <2>2. CASE s \notin listening
    BY <1>1, <2>2, HearRow DEF IInv, Ways, TextIsKept
  <2> QED
    BY <2>1, <2>2
<1> QED
  BY <1>1, <1>3, <1>4, <1>5, HearRow DEF IInv

\* When the process ends, a text that waited enters the conversation with it.
LEMMA ExitInv == ASSUME IInv, NEW s \in Sessions, Exit(s) PROVE IInv'
<1>1. /\ UNCHANGED <<preparing, resume, dropped, refused, mistaken, crashes>>
      /\ sending' = sending \ {s} /\ listening' = listening \ {s}
      /\ agent[s] = "up"
  BY DEF Exit
<1>2. /\ agent' \in [Sessions -> {"none", "up", "gone"}] /\ agent'[s] = "gone"
      /\ core' \in [Sessions -> Nat] /\ core'[s] = 0
      /\ asked' \in [Sessions -> Nat] /\ asked'[s] = 0
      /\ said' \in [Sessions -> Nat] /\ said'[s] = said[s] + core[s]
      /\ chat' \in [Sessions -> {"no", "core", "asked"}]
      /\ \A u \in Sessions : u # s => agent'[u] = agent[u] /\ core'[u] = core[u]
                                      /\ asked'[u] = asked[u] /\ said'[u] = said[u]
  BY DEF IInv, TypeOK, Exit
<1> DEFINE r == Ended(IF Heard(s) THEN Cleared(row[s]) ELSE row[s])
<1>3. row' = [row EXCEPT ![s] = r]
  BY DEF Exit
<1>4. row[s] \in Row /\ (row[s].failed => row[s].pending)
  BY DEF IInv, TypeOK
<1>5. /\ r \in Row /\ (r.failed => r.pending)
      /\ r.pending => row[s].pending /\ ~Heard(s)
      /\ row[s].state = "none" => r.state = "none"
      /\ row[s].state # "none" => r.state = "exited"
      /\ ~Heard(s) => r.pending = row[s].pending
  <2>1. CASE Heard(s)
    <3> DEFINE q == Cleared(row[s])
    <3>1. q \in Row /\ q.pending = FALSE /\ q.failed = FALSE /\ q.state = row[s].state
      BY ClearedRow
    <3>2. r = Ended(q)
      BY <2>1
    <3> HIDE DEF q, r
    <3>3. r = [q EXCEPT !.state = "exited"] \/ (r = q /\ q.state # "running")
      BY <3>2 DEF Ended
    <3>4. r \in Row /\ r.pending = FALSE /\ r.failed = FALSE
      BY <3>1, <3>3 DEF Row
    <3>5. r.state = IF q.state = "running" THEN "exited" ELSE q.state
      BY <3>1, <3>2 DEF Ended, Row
    <3> QED
      BY <2>1, <3>1, <3>4, <3>5, <1>4 DEF Row
  <2>2. CASE ~Heard(s)
    <3>1. r = Ended(row[s])
      BY <2>2
    <3> HIDE DEF r
    <3>2. r.state = IF row[s].state = "running" THEN "exited" ELSE row[s].state
      BY <1>4, <3>1 DEF Ended, Row
    <3>3. r \in Row /\ r.pending = row[s].pending /\ r.failed = row[s].failed
      BY <1>4, <3>1 DEF Ended, Row
    <3> QED
      BY <2>2, <1>4, <3>2, <3>3 DEF Row
  <2> QED
    BY <2>1, <2>2
<1> HIDE DEF r
<1>6. /\ row' \in [Sessions -> {q \in Row : q.failed => q.pending}]
      /\ row'[s] = r /\ \A u \in Sessions : u # s => row'[u] = row[u]
  BY <1>3, <1>5 DEF IInv, TypeOK
<1>7. core[s] \in {0, 1} /\ said[s] \in Nat /\ said[s] + core[s] <= 1
  <2>1. core[s] \in Nat /\ asked[s] \in Nat /\ said[s] \in Nat
    BY DEF IInv, TypeOK
  <2>2. core[s] \in {0, 1}
    BY <2>1 DEF IInv, SessionInv, Claims
  <2>3. said[s] <= 1 /\ (core[s] = 1 => said[s] = 0)
    BY DEF IInv, SessionInv, Claims
  <2> QED
    BY <2>1, <2>2, <2>3
<1>8. TypeOK'
  BY <1>1, <1>2, <1>6 DEF IInv, TypeOK
<1>9. ASSUME NEW u \in Sessions PROVE SessionInv(u)'
  <2>1. CASE u # s
    BY <1>1, <1>2, <1>6, <2>1 DEF IInv, SessionInv, Born0, Over, Claims, Drops, Goes, Waiting
  <2>2. CASE u = s
    <3>1. Born0(s)'
      BY <1>1, <1>2, <1>5, <1>6, <1>7 DEF IInv, SessionInv, Born0, Claims
    <3>2. Over(s)' /\ Drops(s)' /\ Goes(s)'
      BY <1>1, <1>2, <1>5, <1>6 DEF IInv, SessionInv, Over, Drops, Goes, Waiting
    <3>3. Claims(s)'
      BY <1>1, <1>2, <1>7 DEF IInv, TypeOK, SessionInv, Claims
    <3> QED
      BY <2>2, <3>1, <3>2, <3>3 DEF SessionInv
  <2> QED
    BY <2>1, <2>2
<1>10. (\A c \in Callers : ResumeInv(c))' /\ Apart'
  <2>1. resume \in [Callers -> Resumes]
    BY DEF IInv, TypeOK
  <2>2. \A u \in Sessions : /\ row[u].state = "none" => row'[u].state = "none"
                            /\ row[u].state = "exited" => row'[u].state = "exited"
                            /\ agent[u] # "none" => agent'[u] # "none"
    BY <1>2, <1>5, <1>6
  <2>3. \A c \in Callers : ResumeInv(c)'
    BY <1>1, <2>1, <2>2 DEF IInv, ResumeInv, Resumes
  <2> QED
    BY <1>1, <2>3 DEF IInv, Apart
<1>11. Ways'
  BY <1>1, <1>2, <1>6 DEF IInv, Ways
<1>12. TextIsKept'
  <2>1. CASE core[s] > 0
    BY <1>2, <1>7, <2>1 DEF TextIsKept
  <2>2. CASE ~(core[s] > 0)
    <3>1. ~Heard(s)
      BY <2>2 DEF IInv, SessionInv, Claims, Heard
    <3>2. row'[s].pending = row[s].pending
      BY <1>5, <1>6, <3>1
    <3>3. said'[s] = said[s]
      BY <1>2, <1>7, <2>2
    <3> QED
      BY <1>1, <1>2, <1>6, <2>2, <3>2, <3>3 DEF IInv, TextIsKept
  <2> QED
    BY <2>1, <2>2
<1> QED
  BY <1>8, <1>9, <1>10, <1>11, <1>12 DEF IInv

-----------------------------------------------------------------------------
(* Resuming. *)

LEMMA ResumeStepInv ==
  ASSUME IInv, NEW c \in Callers, NEW s \in Sessions, Resume(c, s) PROVE IInv'
<1> DEFINE r == [from |-> s, pending |-> row[s].pending, failed |-> row[s].failed, into |-> None]
<1>1. /\ UNCHANGED <<row, agent, preparing, sending, listening, core, asked, chat, said, dropped,
                     refused, mistaken, crashes>>
      /\ resume' = [resume EXCEPT ![c] = r]
      /\ row[s].state = "exited"
  BY DEF Resume
<1>2. r \in Resumes /\ (r.failed => r.pending) /\ r.from = s /\ r.into = None
  BY DEF IInv, TypeOK, Row, Resumes
<1> HIDE DEF r
<1>3. /\ resume' \in [Callers -> {q \in Resumes : q.failed => q.pending}]
      /\ resume'[c] = r /\ \A d \in Callers : d # c => resume'[d] = resume[d]
  BY <1>1, <1>2 DEF IInv, TypeOK
<1>4. TypeOK'
  BY <1>1, <1>3 DEF IInv, TypeOK
<1>5. ASSUME NEW u \in Sessions PROVE SessionInv(u)'
  BY <1>1 DEF IInv, SessionInv, Born0, Over, Claims, Drops, Goes, Waiting
<1>6. ASSUME NEW d \in Callers PROVE ResumeInv(d)'
  BY <1>1, <1>2, <1>3 DEF IInv, ResumeInv
<1>7. Apart'
  BY <1>2, <1>3 DEF IInv, Apart
<1>8. Ways' /\ TextIsKept'
  BY <1>1 DEF IInv, Ways, TextIsKept
<1> QED
  BY <1>4, <1>5, <1>6, <1>7, <1>8 DEF IInv

LEMMA SpawnedInv == ASSUME IInv, NEW c \in Callers, Spawned(c) PROVE IInv'
<1> DEFINE n == NewId
<1>1. n \in Sessions /\ agent[n] = "none"
  BY DEF Spawned, NewId, Fresh
<1>2. /\ UNCHANGED <<row, preparing, sending, listening, core, asked, chat, said, dropped, refused,
                     mistaken, crashes>>
      /\ agent' = [agent EXCEPT ![n] = "up"]
      /\ resume' = [resume EXCEPT ![c] = [resume[c] EXCEPT !.into = n]]
      /\ resume[c].from # None /\ resume[c].into = None
  BY DEF Spawned
<1> DEFINE r == [resume[c] EXCEPT !.into = n]
<1>3. r \in Resumes /\ (r.failed => r.pending) /\ r.from = resume[c].from /\ r.into = n
  <2>1. resume[c] \in Resumes /\ (resume[c].failed => resume[c].pending)
    BY DEF IInv, TypeOK
  <2>2. r.pending = resume[c].pending /\ r.failed = resume[c].failed
    BY <2>1 DEF Resumes
  <2>3. r \in Resumes /\ r.from = resume[c].from /\ r.into = n
    BY <1>1, <2>1 DEF Resumes
  <2> QED
    BY <2>1, <2>2, <2>3
<1> HIDE DEF n, r
<1>4. /\ resume' \in [Callers -> {q \in Resumes : q.failed => q.pending}]
      /\ resume'[c] = r /\ \A d \in Callers : d # c => resume'[d] = resume[d]
  BY <1>2, <1>3 DEF IInv, TypeOK, r
<1>5. /\ agent' \in [Sessions -> {"none", "up", "gone"}] /\ agent'[n] = "up"
      /\ \A u \in Sessions : u # n => agent'[u] = agent[u]
  BY <1>1, <1>2 DEF IInv, TypeOK
<1>6. TypeOK'
  BY <1>2, <1>4, <1>5 DEF IInv, TypeOK
<1>7. ASSUME NEW u \in Sessions PROVE SessionInv(u)'
  <2>1. CASE u # n
    BY <1>2, <1>5, <2>1 DEF IInv, SessionInv, Born0, Over, Claims, Drops, Goes, Waiting
  <2>2. CASE u = n
    <3>1. row[n].state = "none"
      BY <1>1 DEF IInv, SessionInv, Over
    <3>2. ~row[n].pending
      BY <1>1, <3>1 DEF IInv, SessionInv, Born0
    <3> QED
      BY <1>1, <1>2, <1>5, <2>2, <3>1, <3>2
         DEF IInv, SessionInv, Born0, Over, Claims, Drops, Goes, Waiting
  <2> QED
    BY <2>1, <2>2
<1>8. row[n].state = "none"
  BY <1>1 DEF IInv, SessionInv, Over
<1>9. ASSUME NEW d \in Callers PROVE ResumeInv(d)'
  <2>1. CASE d = c
    BY <1>2, <1>3, <1>4, <1>5, <1>8, <2>1 DEF IInv, ResumeInv
  <2>2. CASE d # c
    <3>1. resume[d] \in Resumes
      BY DEF IInv, TypeOK
    <3>2. resume[d].into # None => agent'[resume[d].into] # "none"
      BY <1>5, <3>1 DEF IInv, ResumeInv, Resumes
    <3> QED
      BY <1>2, <1>4, <2>2, <3>2 DEF IInv, ResumeInv
  <2> QED
    BY <2>1, <2>2
<1>10. Apart'
  <2>1. \A d \in Callers : resume[d].into # None => resume[d].into # n
    BY <1>1 DEF IInv, ResumeInv
  <2>2. n # None
    BY <1>1
  <2>3. ASSUME NEW d \in Callers, NEW e \in Callers, d # e, resume'[d].into # None
        PROVE  resume'[d].into # resume'[e].into
    BY <1>3, <1>4, <2>1, <2>2, <2>3 DEF IInv, Apart
  <2> QED
    BY <2>3 DEF Apart
<1>11. Ways' /\ TextIsKept'
  BY <1>2 DEF IInv, Ways, TextIsKept
<1> QED
  BY <1>6, <1>7, <1>9, <1>10, <1>11 DEF IInv

LEMMA ResumeFailsInv == ASSUME IInv, NEW c \in Callers, ResumeFails(c) PROVE IInv'
<1>1. /\ UNCHANGED <<row, preparing, sending, listening, core, asked, chat, said, dropped, refused,
                     mistaken, crashes>>
      /\ agent' = [u \in Sessions |-> IF u = resume[c].into THEN "gone" ELSE agent[u]]
      /\ resume' = [resume EXCEPT ![c] = NoResume]
  BY DEF ResumeFails
<1>2. NoResume \in Resumes /\ ~NoResume.failed /\ NoResume.from = None /\ NoResume.into = None
  BY DEF NoResume, Resumes
<1>3. /\ resume' \in [Callers -> {q \in Resumes : q.failed => q.pending}]
      /\ resume'[c] = NoResume /\ \A d \in Callers : d # c => resume'[d] = resume[d]
  BY <1>1, <1>2 DEF IInv, TypeOK
<1>4. agent' \in [Sessions -> {"none", "up", "gone"}]
  BY <1>1 DEF IInv, TypeOK
<1>5. TypeOK'
  BY <1>1, <1>3, <1>4 DEF IInv, TypeOK
<1>6. ASSUME NEW u \in Sessions PROVE SessionInv(u)'
  <2>1. CASE u # resume[c].into
    BY <1>1, <2>1 DEF IInv, SessionInv, Born0, Over, Claims, Drops, Goes, Waiting
  <2>2. CASE u = resume[c].into
    <3>1. row[u].state = "none"
      BY <2>2 DEF IInv, ResumeInv
    <3>2. agent'[u] = "gone"
      BY <1>1, <2>2
    <3> QED
      BY <1>1, <3>1, <3>2 DEF IInv, SessionInv, Born0, Over, Claims, Drops, Goes, Waiting
  <2> QED
    BY <2>1, <2>2
<1>7. ASSUME NEW d \in Callers PROVE ResumeInv(d)'
  <2>1. CASE d = c
    BY <1>2, <1>3, <2>1 DEF ResumeInv
  <2>2. CASE d # c
    <3>1. resume[d] \in Resumes
      BY DEF IInv, TypeOK
    <3>2. \A u \in Sessions : agent[u] # "none" => agent'[u] # "none"
      BY <1>1
    <3> QED
      BY <1>1, <1>3, <2>2, <3>1, <3>2 DEF IInv, ResumeInv, Resumes
  <2> QED
    BY <2>1, <2>2
<1>8. Apart'
  BY <1>2, <1>3 DEF IInv, Apart
<1>9. Ways' /\ TextIsKept'
  BY <1>1 DEF IInv, Ways, TextIsKept
<1> QED
  BY <1>5, <1>6, <1>7, <1>8, <1>9 DEF IInv

\* The row of the new session, written.
LEMMA BornRow ==
  ASSUME IInv, NEW c \in Callers, resume[c].into # None, NEW rr, rr = Born(row, resume[c])
  PROVE  /\ rr \in [Sessions -> {q \in Row : q.failed => q.pending}]
         /\ resume[c].into \in Sessions /\ resume[c].from \in Sessions
         /\ resume[c].into # resume[c].from
         /\ rr[resume[c].into].state = "running"
         /\ rr[resume[c].into].pending = resume[c].pending
         /\ rr[resume[c].into].failed = resume[c].failed
         /\ \A u \in Sessions : u # resume[c].into => rr[u] = row[u]
<1> DEFINE r == resume[c]
           new == [state |-> "running", pending |-> r.pending, failed |-> r.failed]
<1>1. r \in Resumes /\ (r.failed => r.pending) /\ r.into # None /\ r.from # None
  BY DEF IInv, TypeOK, ResumeInv
<1>2. r.into \in Sessions /\ r.from \in Sessions /\ r.into # r.from
  BY <1>1 DEF IInv, ResumeInv, Resumes
<1>3. rr = [row EXCEPT ![r.into] = new]
  BY DEF Born
<1>4. new \in Row /\ new.pending = r.pending /\ new.failed = r.failed /\ new.state = "running"
  BY <1>1 DEF Row, Resumes
<1>5. row \in [Sessions -> {q \in Row : q.failed => q.pending}]
  BY DEF IInv, TypeOK
<1> HIDE DEF r, new
<1>6. rr \in [Sessions -> {q \in Row : q.failed => q.pending}]
  BY <1>1, <1>2, <1>3, <1>4, <1>5
<1>7. rr[r.into] = new /\ \A u \in Sessions : u # r.into => rr[u] = row[u]
  BY <1>2, <1>3, <1>5
<1> QED
  BY <1>2, <1>4, <1>6, <1>7 DEF r

LEMMA ResumedInv == ASSUME IInv, NEW c \in Callers, Resumed(c) PROVE IInv'
<1> DEFINE n == resume[c].into
           f == resume[c].from
           born == Born(row, resume[c])
<1>1. /\ UNCHANGED <<agent, sending, listening, core, asked, chat, said, dropped, refused, mistaken,
                     crashes>>
      /\ n # None
      /\ row' = IF resume[c].pending THEN [born EXCEPT ![f] = Cleared(born[f])] ELSE born
      /\ preparing' = IF resume[c].pending /\ ~resume[c].failed
                      THEN preparing \cup {n} ELSE preparing
      /\ resume' = [resume EXCEPT ![c] = NoResume]
  BY DEF Resumed, Moved, Deliver
<1>2. /\ born \in [Sessions -> {q \in Row : q.failed => q.pending}]
      /\ n \in Sessions /\ f \in Sessions /\ n # f
      /\ born[n].state = "running" /\ born[n].pending = resume[c].pending
      /\ born[n].failed = resume[c].failed
      /\ \A u \in Sessions : u # n => born[u] = row[u]
  BY <1>1, BornRow
<1>3. row[n].state = "none" /\ row[f].state = "exited" /\ agent[n] # "none"
  BY <1>1 DEF IInv, ResumeInv
<1>4. Cleared(row[f]) \in Row /\ Cleared(row[f]).pending = FALSE
      /\ Cleared(row[f]).failed = FALSE /\ Cleared(row[f]).state = row[f].state
  BY <1>2, ClearedRow
<1>5. born[f] = row[f]
  BY <1>2
<1> HIDE DEF n, f, born
<1>6. /\ row' \in [Sessions -> {q \in Row : q.failed => q.pending}]
      /\ row'[n] = born[n]
      /\ row'[f].state = "exited" /\ (row'[f].pending => row[f].pending /\ ~resume[c].pending)
      /\ ~resume[c].pending => row'[f] = row[f]
      /\ \A u \in Sessions : u # n /\ u # f => row'[u] = row[u]
  <2>1. CASE resume[c].pending
    <3>1. row' = [born EXCEPT ![f] = Cleared(row[f])]
      BY <1>1, <1>5, <2>1
    <3>2. row'[f] = Cleared(row[f]) /\ \A u \in Sessions : u # f => row'[u] = born[u]
      BY <1>2, <3>1
    <3>3. row' \in [Sessions -> {q \in Row : q.failed => q.pending}]
      BY <1>2, <1>4, <3>1
    <3> QED
      BY <1>2, <1>3, <1>4, <2>1, <3>2, <3>3
  <2>2. CASE ~resume[c].pending
    BY <1>1, <1>2, <1>3, <1>5, <2>2
  <2> QED
    BY <2>1, <2>2
<1>7. NoResume \in Resumes /\ ~NoResume.failed /\ NoResume.from = None /\ NoResume.into = None
  BY DEF NoResume, Resumes
<1>8. /\ resume' \in [Callers -> {q \in Resumes : q.failed => q.pending}]
      /\ resume'[c] = NoResume /\ \A d \in Callers : d # c => resume'[d] = resume[d]
  BY <1>1, <1>7 DEF IInv, TypeOK
<1>9. TypeOK'
  <2>1. preparing' \subseteq Sessions
    BY <1>1, <1>2 DEF IInv, TypeOK
  <2> QED
    BY <1>1, <1>6, <1>8, <2>1 DEF IInv, TypeOK
<1>10. ASSUME NEW u \in Sessions PROVE SessionInv(u)'
  <2>1. CASE u # n /\ u # f
    <3>1. u \in preparing' <=> u \in preparing
      BY <1>1, <2>1
    <3> QED
      BY <1>1, <1>6, <2>1, <3>1 DEF IInv, SessionInv, Born0, Over, Claims, Drops, Goes, Waiting
  <2>2. CASE u = n
    <3>1. /\ u \notin sending /\ u \notin dropped /\ said[u] = 0
      BY <1>3, <2>2 DEF IInv, SessionInv, Born0
    <3>2. core[u] = 0 /\ asked[u] = 0
      BY <3>1 DEF IInv, SessionInv, Claims
    <3>3. /\ row'[u].state = "running" /\ row'[u].pending = resume[c].pending
          /\ row'[u].failed = resume[c].failed
      BY <1>2, <1>6, <2>2
    <3>4. Goes(u)'
      BY <1>1, <2>2, <3>3 DEF Goes, Waiting
    <3>5. Born0(u)' /\ Over(u)' /\ Drops(u)'
      BY <1>1, <1>3, <2>2, <3>1, <3>3 DEF Born0, Over, Drops
    <3>6. u \notin listening
      BY <3>1 DEF IInv, TypeOK
    <3>7. Claims(u)'
      BY <1>1, <3>1, <3>2, <3>6 DEF Claims
    <3> QED
      BY <3>4, <3>5, <3>7 DEF SessionInv
  <2>3. CASE u = f
    <3>1. agent[u] = "gone" /\ u \notin sending
      BY <1>3, <2>3 DEF IInv, SessionInv, Over
    <3>2. row'[u].state = "exited" /\ (row'[u].pending => row[u].pending)
      BY <1>6, <2>3
    <3>3. Born0(u)' /\ Over(u)' /\ Goes(u)'
      BY <1>1, <3>1, <3>2 DEF Born0, Over, Goes, Waiting
    <3>4. Drops(u)'
      BY <1>1, <3>2 DEF IInv, SessionInv, Drops
    <3>5. Claims(u)'
      BY <1>1, <3>1, <3>2 DEF IInv, SessionInv, Claims
    <3> QED
      BY <3>3, <3>4, <3>5 DEF SessionInv
  <2> QED
    BY <2>1, <2>2, <2>3
<1>11. ASSUME NEW d \in Callers PROVE ResumeInv(d)'
  <2>1. CASE d = c
    BY <1>7, <1>8, <2>1 DEF ResumeInv
  <2>2. CASE d # c
    <3>1. resume[d] \in Resumes /\ resume'[d] = resume[d]
      BY <1>8, <2>2 DEF IInv, TypeOK
    <3>2. resume[d].from # None => resume[d].from \in Sessions /\ row[resume[d].from].state = "exited"
      BY <3>1 DEF IInv, ResumeInv, Resumes
    <3>3. resume[d].from # None => row'[resume[d].from].state = "exited"
      BY <1>3, <1>6, <3>2
    <3>4. resume[d].into # None =>
            /\ resume[d].from # None /\ resume[d].into \in Sessions
            /\ row[resume[d].into].state = "none" /\ agent[resume[d].into] # "none"
      BY <3>1 DEF IInv, ResumeInv, Resumes
    <3>5. resume[d].into # None => resume[d].into # n
      BY <1>1, <2>2 DEF IInv, Apart, n
    <3>6. resume[d].into # None => row'[resume[d].into].state = "none"
      BY <1>3, <1>6, <3>4, <3>5
    <3> QED
      BY <1>1, <3>1, <3>3, <3>4, <3>6 DEF ResumeInv
  <2> QED
    BY <2>1, <2>2
<1>12. Apart'
  BY <1>7, <1>8 DEF IInv, Apart
<1>13. Ways'
  <2>1. ASSUME NEW u \in Sessions, core[u] > 0 PROVE u # n /\ u # f
    <3>1. u \in sending
      BY <2>1 DEF IInv, TypeOK, SessionInv, Claims
    <3> QED
      BY <1>2, <1>3, <3>1 DEF IInv, SessionInv, Born0, Over
  <2> QED
    BY <1>1, <1>6, <2>1 DEF IInv, Ways
<1>14. TextIsKept'
  <2>1. CASE resume[c].pending
    <3>1. row'[n].pending
      BY <1>2, <1>6, <2>1
    <3> QED
      BY <1>2, <3>1 DEF TextIsKept
  <2>2. CASE ~resume[c].pending
    <3>1. ~row[n].pending
      BY <1>2, <1>3 DEF IInv, SessionInv, Born0
    <3>2. \A u \in Sessions : row[u].pending => row'[u].pending
      BY <1>6, <2>2, <3>1
    <3> QED
      BY <1>1, <3>2 DEF IInv, TextIsKept
  <2> QED
    BY <2>1, <2>2
<1> QED
  BY <1>9, <1>10, <1>11, <1>12, <1>13, <1>14 DEF IInv

-----------------------------------------------------------------------------
(* The daemon stops. *)

LEMMA EndedRow ==
  ASSUME NEW q \in Row
  PROVE  /\ Ended(q) \in Row /\ Ended(q).state # "running"
         /\ Ended(q).pending = q.pending /\ Ended(q).failed = q.failed
         /\ Ended(q).state = "none" <=> q.state = "none"
BY DEF Ended, Row

\* What a crash may leave in the table: its rows are over, no text is lost from
\* them, and only the session of a resume has one it did not have.
LEMMA TornRows ==
  ASSUME IInv, Torn
  PROVE  /\ row' \in [Sessions -> {q \in Row : q.failed => q.pending}]
         /\ said' \in [Sessions -> Nat]
         /\ \A u \in Sessions :
              /\ row'[u].state # "running"
              /\ row'[u].state = "none" => row[u].state = "none" /\ row'[u].pending = row[u].pending
              /\ row[u].pending => row'[u].pending
              /\ row'[u].pending => row[u].pending \/ row[u].state = "none"
              /\ agent[u] = "none" => row'[u].state = "none"
              /\ said'[u] <= 1
              /\ row[u].state = "none" => said'[u] = 0
<1>1. row \in [Sessions -> {q \in Row : q.failed => q.pending}]
  BY DEF IInv, TypeOK
<1>2. \A u \in Sessions :
        said[u] <= 1 /\ (core[u] > 0 => said[u] = 0) /\ said[u] \in Nat
        /\ (row[u].state = "none" => said[u] = 0 /\ core[u] = 0)
        /\ (row[u].state = "none" => ~row[u].pending)
        /\ (agent[u] = "none" => row[u].state = "none")
  <2> SUFFICES ASSUME NEW u \in Sessions
               PROVE  /\ said[u] <= 1 /\ (core[u] > 0 => said[u] = 0) /\ said[u] \in Nat
                      /\ row[u].state = "none" => said[u] = 0 /\ core[u] = 0
                      /\ row[u].state = "none" => ~row[u].pending
                      /\ agent[u] = "none" => row[u].state = "none"
    OBVIOUS
  <2>1. core[u] \in Nat /\ asked[u] \in Nat /\ said[u] \in Nat
    BY DEF IInv, TypeOK
  <2>2. core[u] > 0 => core[u] = 1
    BY <2>1 DEF IInv, SessionInv, Claims
  <2>3. said[u] <= 1 /\ (core[u] = 1 => said[u] = 0) /\ (u \notin sending => core[u] = 0)
    BY DEF IInv, SessionInv, Claims
  <2>4. /\ row[u].state = "none" => said[u] = 0 /\ u \notin sending /\ ~row[u].pending
        /\ agent[u] = "none" => row[u].state = "none"
    BY DEF IInv, SessionInv, Born0, Over
  <2> QED
    BY <2>1, <2>2, <2>3, <2>4
<1>3. CASE row' = AllEnded(row)
  <2>1. \A u \in Sessions : row'[u] = Ended(row[u])
    BY <1>3 DEF AllEnded
  <2>2. row' \in [Sessions -> {q \in Row : q.failed => q.pending}]
    BY <1>1, <1>3, <2>1, EndedRow DEF AllEnded
  <2>3. /\ said' \in [Sessions -> Nat]
        /\ \A u \in Sessions : said'[u] <= 1 /\ (row[u].state = "none" => said'[u] = 0)
    <3>1. CASE said' = said
      BY <1>2, <3>1 DEF IInv, TypeOK
    <3>2. CASE \E s \in Sessions : core[s] > 0 /\ said' = [said EXCEPT ![s] = @ + 1]
      <4>1. PICK s \in Sessions : core[s] > 0 /\ said' = [said EXCEPT ![s] = @ + 1]
        BY <3>2
      <4>2. said \in [Sessions -> Nat]
        BY DEF IInv, TypeOK
      <4>3. said[s] = 0 /\ row[s].state # "none"
        BY <1>2, <4>1
      <4>4. said'[s] = 1 /\ said' \in [Sessions -> Nat]
            /\ \A u \in Sessions : u # s => said'[u] = said[u]
        BY <4>1, <4>2, <4>3
      <4> QED
        BY <1>2, <4>3, <4>4
    <3> QED
      BY <3>1, <3>2 DEF Torn
  <2> QED
    BY <1>1, <1>2, <2>1, <2>2, <2>3, EndedRow
<1>4. CASE \E c \in Callers : /\ resume[c].into # None
                              /\ row' = AllEnded(Born(row, resume[c]))
                              /\ said' = said
  <2>1. PICK c \in Callers : /\ resume[c].into # None
                             /\ row' = AllEnded(Born(row, resume[c]))
                             /\ said' = said
    BY <1>4
  <2> DEFINE born == Born(row, resume[c])
             n == resume[c].into
  <2>2. /\ born \in [Sessions -> {q \in Row : q.failed => q.pending}]
        /\ n \in Sessions /\ born[n].state = "running"
        /\ \A u \in Sessions : u # n => born[u] = row[u]
    BY <2>1, BornRow
  <2>3. row[n].state = "none" /\ agent[n] # "none"
    BY <2>1 DEF IInv, ResumeInv
  <2>4. row' = AllEnded(born)
    BY <2>1
  <2> HIDE DEF born, n
  <2>5. \A u \in Sessions : row'[u] = Ended(born[u])
    BY <2>4 DEF AllEnded
  <2>6. row' \in [Sessions -> {q \in Row : q.failed => q.pending}]
    BY <2>2, <2>4, <2>5, EndedRow DEF AllEnded
  <2>7. said' \in [Sessions -> Nat]
        /\ \A u \in Sessions : said'[u] <= 1 /\ (row[u].state = "none" => said'[u] = 0)
    BY <1>2, <2>1 DEF IInv, TypeOK
  <2>8. ASSUME NEW u \in Sessions
        PROVE  /\ row'[u].state # "running"
               /\ row'[u].state = "none" => row[u].state = "none" /\ row'[u].pending = row[u].pending
               /\ row[u].pending => row'[u].pending
               /\ row'[u].pending => row[u].pending \/ row[u].state = "none"
               /\ agent[u] = "none" => row'[u].state = "none"
    <3>1. born[u] \in Row /\ row'[u] = Ended(born[u])
      BY <2>2, <2>5
    <3>2. CASE u = n
      <4>1. row'[u].state # "running" /\ row'[u].state # "none"
        BY <2>2, <3>1, <3>2, EndedRow
      <4> QED
        BY <1>2, <2>3, <3>2, <4>1
    <3>3. CASE u # n
      <4>1. row'[u] = Ended(row[u]) /\ row[u] \in Row
        BY <2>2, <3>1, <3>3
      <4> QED
        BY <1>2, <4>1, EndedRow
    <3> QED
      BY <3>2, <3>3
  <2> QED
    BY <2>6, <2>7, <2>8
<1> QED
  BY <1>3, <1>4 DEF Torn

LEMMA RestartInv == ASSUME IInv, Restart PROVE IInv'
<1>1. /\ Torn
      /\ agent' = [s \in Sessions |-> IF agent[s] = "none" THEN "none" ELSE "gone"]
      /\ preparing' = {} /\ sending' = {} /\ listening' = {}
      /\ resume' = [c \in Callers |-> NoResume]
      /\ core' = [s \in Sessions |-> 0] /\ asked' = [s \in Sessions |-> 0]
      /\ chat' = [s \in Sessions |-> "no"]
      /\ UNCHANGED <<dropped, refused, mistaken>>
      /\ crashes' = crashes + 1 /\ crashes < Crashes
  BY DEF Restart
<1>2. NoResume \in Resumes /\ ~NoResume.failed /\ NoResume.from = None /\ NoResume.into = None
  BY DEF NoResume, Resumes
<1>3. TypeOK'
  <2>1. crashes' \in 0 .. Crashes
    BY <1>1 DEF IInv, TypeOK
  <2>2. agent' \in [Sessions -> {"none", "up", "gone"}]
    BY <1>1
  <2>3. resume' \in [Callers -> {q \in Resumes : q.failed => q.pending}]
    BY <1>1, <1>2
  <2> QED
    BY <1>1, <2>1, <2>2, <2>3, TornRows DEF IInv, TypeOK
<1>4. ASSUME NEW u \in Sessions PROVE SessionInv(u)'
  <2>1. core'[u] = 0 /\ asked'[u] = 0 /\ agent'[u] = IF agent[u] = "none" THEN "none" ELSE "gone"
    BY <1>1
  <2>2. said'[u] <= 1 /\ row'[u].state # "running"
    BY <1>1, TornRows
  <2>3. Claims(u)' /\ Goes(u)'
    BY <1>1, <2>1, <2>2 DEF Claims, Goes, Waiting
  <2>4. Born0(u)'
    BY <1>1, TornRows DEF IInv, SessionInv, Born0
  <2>5. Over(u)'
    <3>1. agent[u] = "none" => row'[u].state = "none"
      BY <1>1, TornRows
    <3> QED
      BY <1>1, <2>1, <3>1 DEF Over
  <2>6. Drops(u)'
    <3>1. row'[u].pending => row[u].pending \/ row[u].state = "none"
      BY <1>1, TornRows
    <3> QED
      BY <1>1, <3>1 DEF IInv, SessionInv, Born0, Drops
  <2> QED
    BY <2>3, <2>4, <2>5, <2>6 DEF SessionInv
<1>5. (\A c \in Callers : ResumeInv(c))' /\ Apart'
  BY <1>1, <1>2 DEF ResumeInv, Apart
<1>6. Ways'
  BY <1>1 DEF Ways
<1>7. TextIsKept'
  <2>1. CASE \E s \in Sessions : row[s].pending
    BY <1>1, <2>1, TornRows DEF TextIsKept
  <2>2. CASE dropped # {} \/ mistaken # {}
    BY <1>1, <2>2 DEF TextIsKept
  <2>3. CASE \E s \in Sessions : core[s] > 0
    BY <2>1, <2>2, <2>3 DEF IInv, Ways
  <2>4. CASE \E s \in Sessions : said[s] > 0
    <3>1. \A s \in Sessions : said'[s] = said[s] \/ said'[s] = said[s] + 1
      BY <1>1 DEF Torn, IInv, TypeOK
    <3>2. \A s \in Sessions : said[s] \in Nat
      BY DEF IInv, TypeOK
    <3> QED
      BY <2>4, <3>1, <3>2 DEF TextIsKept
  <2> QED
    BY <2>1, <2>2, <2>3, <2>4 DEF IInv, TextIsKept
<1> QED
  BY <1>3, <1>4, <1>5, <1>6, <1>7 DEF IInv

-----------------------------------------------------------------------------
LEMMA SendPendingInv == ASSUME IInv, NEW s \in Sessions, SendPending(s) PROVE IInv'
BY SendInv DEF SendPending

THEOREM NextInv == IInv /\ [Next]_vars => IInv'
<1> SUFFICES ASSUME IInv, [Next]_vars PROVE IInv'
  OBVIOUS
<1>1. ASSUME NEW s \in Sessions, SessionStep(s) PROVE IInv'
  BY <1>1, PreparedInv, SendPendingInv, DiscardInv, TextEntersInv, TextEndsInv, ChatInv,
     ChatEntersInv, ExitInv DEF SessionStep
<1>2. ASSUME NEW c \in Callers, CallerStep(c) PROVE IInv'
  BY <1>2, ResumeStepInv, SpawnedInv, ResumeFailsInv, ResumedInv DEF CallerStep
<1>3. CASE UNCHANGED vars
  <2>1. TypeOK' /\ Ways' /\ TextIsKept'
    BY <1>3 DEF vars, IInv, TypeOK, Ways, TextIsKept
  <2>2. ASSUME NEW u \in Sessions PROVE SessionInv(u)'
    BY <1>3 DEF vars, IInv, SessionInv, Born0, Over, Claims, Drops, Goes, Waiting
  <2>3. (\A c \in Callers : ResumeInv(c))' /\ Apart'
    BY <1>3 DEF vars, IInv, ResumeInv, Apart
  <2> QED
    BY <2>1, <2>2, <2>3 DEF IInv
<1> QED
  BY <1>1, <1>2, <1>3, RestartInv DEF Next

\* IInv holds in every state.
THEOREM Invariance == Spec => []IInv
BY InitInv, NextInv, PTL DEF Spec

-----------------------------------------------------------------------------
\* The types hold for any sessions and callers, and no row or resume carries
\* the reason of a text it does not carry.
THEOREM TypeCorrect == Spec => []TypeOK
<1>1. IInv => TypeOK
  BY DEF IInv
<1> QED
  BY <1>1, Invariance, PTL

\* However the delivery, the clicks, the exits and the crashes interleave, the
\* text is at most once on its way in a session and said at most once in it
\* (the claim of sendPendingNow and the reading of the row that follows it).
THEOREM NoSecondTurn == Spec => []SentOnce
<1>1. IInv => SentOnce
  <2> SUFFICES ASSUME IInv, NEW s \in Sessions PROVE core[s] + asked[s] <= 1 /\ said[s] <= 1
    BY DEF SentOnce
  <2>1. core[s] \in Nat /\ asked[s] \in Nat
    BY DEF IInv, TypeOK
  <2> QED
    BY <2>1 DEF IInv, SessionInv, Claims
<1> QED
  BY <1>1, Invariance, PTL

\* No text without a reason is left on the row of a live session with nobody
\* to send it.
THEOREM SomebodyHasIt == Spec => []NothingForgotten
<1>1. IInv => NothingForgotten
  BY DEF IInv, SessionInv, Goes, NothingForgotten
<1> QED
  BY <1>1, Invariance, PTL

\* The text survives every failure and every crash, those between the two
\* writes of a resume included, unless it was dropped or mistaken.
THEOREM NeverLost == Spec => []TextIsKept
<1>1. IInv => TextIsKept
  BY DEF IInv
<1> QED
  BY <1>1, Invariance, PTL

-----------------------------------------------------------------------------
(* A dropped text. *)

Stands(s) == said'[s] = said[s] /\ ~row'[s].pending /\ s \notin sending'

LEMMA DroppedState ==
  ASSUME IInv, NEW s \in dropped \ sending
  PROVE  /\ s \in Sessions /\ ~row[s].pending /\ row[s].state # "none"
         /\ core[s] = 0 /\ asked[s] = 0 /\ said[s] \in Nat
BY DEF IInv, TypeOK, SessionInv, Born0, Claims, Drops

LEMMA SessionStands ==
  ASSUME IInv, NEW s \in dropped \ sending, NEW u \in Sessions, SessionStep(u)
  PROVE  Stands(s)
<1>1. /\ s \in Sessions /\ ~row[s].pending /\ core[s] = 0 /\ asked[s] = 0 /\ said[s] \in Nat
  BY DroppedState
<1>2. row \in [Sessions -> Row] /\ said \in [Sessions -> Nat]
  BY DEF IInv, TypeOK
<1>3. ASSUME row[u].pending, Send(u) PROVE row' = row /\ s \notin sending'
  BY <1>1, <1>3 DEF Send, Begin, Refuse
<1>4. CASE Prepared(u)
  <2>1. said' = said
    BY <1>4 DEF Prepared
  <2>2. CASE ~row[u].pending
    BY <1>1, <1>4, <2>1, <2>2 DEF Prepared, Ready, Stands
  <2>3. CASE row[u].pending /\ row' = [row EXCEPT ![u].failed = TRUE] /\ sending' = sending
    <3>1. u # s
      BY <1>1, <2>3
    <3> QED
      BY <1>1, <1>2, <2>1, <2>3, <3>1 DEF Stands
  <2>4. CASE row[u].pending /\ Send(u)
    BY <1>1, <1>3, <2>1, <2>4 DEF Stands
  <2> QED
    BY <1>4, <2>2, <2>3, <2>4 DEF Prepared, Ready
<1>5. CASE SendPending(u)
  BY <1>1, <1>3, <1>5 DEF SendPending, Stands
<1>6. CASE Discard(u)
  <2>1. u # s /\ said' = said /\ sending' = sending
    BY <1>1, <1>6 DEF Discard
  <2> QED
    BY <1>1, <1>2, <1>6, <2>1 DEF Discard, Stands
<1>7. CASE TextEnters(u)
  <2>1. u # s
    BY <1>1, <1>7 DEF TextEnters
  <2>2. said'[s] = said[s] /\ sending' = sending
    BY <1>1, <1>2, <1>7, <2>1 DEF TextEnters
  <2>3. row'[s] = row[s]
    BY <1>1, <1>7, <2>1, HearRow DEF TextEnters
  <2> QED
    BY <1>1, <2>2, <2>3 DEF Stands
<1>8. CASE ChatEnters(u)
  <2>1. row'[s].pending => row[s].pending
    BY <1>1, <1>8, HearRow DEF ChatEnters
  <2> QED
    BY <1>1, <1>8, <2>1 DEF ChatEnters, Stands
<1>9. CASE TextEnds(u) \/ Chats(u) \/ ChatEnds(u)
  BY <1>1, <1>9 DEF TextEnds, Chats, ChatEnds, Stands
<1>10. CASE Exit(u)
  <2>1. said'[s] = said[s] /\ s \notin sending'
    BY <1>1, <1>2, <1>10 DEF Exit
  <2>2. row'[s].pending => row[s].pending
    <3>1. CASE u # s
      BY <1>1, <1>2, <1>10, <3>1 DEF Exit
    <3>2. CASE u = s
      <4>1. row[s] \in Row /\ Cleared(row[s]) \in Row /\ Cleared(row[s]).pending = FALSE
        BY <1>1, <1>2, ClearedRow
      <4>2. row'[s] = Ended(row[s]) \/ row'[s] = Ended(Cleared(row[s]))
        BY <1>1, <1>2, <1>10, <3>2 DEF Exit
      <4> QED
        BY <4>1, <4>2, EndedRow
    <3> QED
      BY <3>1, <3>2
  <2> QED
    BY <1>1, <2>1, <2>2 DEF Stands
<1> QED
  BY <1>4, <1>5, <1>6, <1>7, <1>8, <1>9, <1>10 DEF SessionStep

LEMMA CallerStands ==
  ASSUME IInv, NEW s \in dropped \ sending, NEW c \in Callers, CallerStep(c)
  PROVE  Stands(s)
<1>1. s \in Sessions /\ ~row[s].pending /\ row[s].state # "none"
  BY DroppedState
<1>2. CASE (\E u \in Sessions : Resume(c, u)) \/ Spawned(c) \/ ResumeFails(c)
  BY <1>1, <1>2 DEF Resume, Spawned, ResumeFails, Stands
<1>3. CASE Resumed(c)
  <2>1. said' = said /\ sending' = sending
    BY <1>3 DEF Resumed
  <2> DEFINE born == Born(row, resume[c])
             f == resume[c].from
  <2>2. resume[c].into # None /\ row' = Moved(row, resume[c])
    BY <1>3 DEF Resumed
  <2>3. resume[c].into # s
    BY <1>1, <2>2 DEF IInv, ResumeInv
  <2>4. /\ born \in [Sessions -> {q \in Row : q.failed => q.pending}]
        /\ born[s] = row[s] /\ f \in Sessions /\ born[f] = row[f]
    BY <1>1, <2>2, <2>3, BornRow
  <2>5. row' = born \/ row' = [born EXCEPT ![f] = Cleared(born[f])]
    BY <2>2 DEF Moved
  <2> HIDE DEF born, f
  <2>6. Cleared(row[s]).pending = FALSE
    BY <1>1, ClearedRow
  <2>7. row'[s] = row[s] \/ row'[s] = Cleared(row[s])
    BY <1>1, <2>4, <2>5
  <2> QED
    BY <1>1, <2>1, <2>6, <2>7 DEF Stands
<1> QED
  BY <1>2, <1>3 DEF CallerStep

LEMMA RestartStands == ASSUME IInv, NEW s \in dropped \ sending, Restart PROVE Stands(s)
<1>1. /\ s \in Sessions /\ ~row[s].pending /\ row[s].state # "none" /\ core[s] = 0
      /\ said \in [Sessions -> Nat]
  BY DroppedState DEF IInv, TypeOK
<1>2. said'[s] = said[s]
  BY <1>1 DEF Restart, Torn
<1>3. ~row'[s].pending
  BY <1>1, TornRows DEF Restart
<1> QED
  BY <1>2, <1>3 DEF Restart, Stands

\* A text that a person dropped before it was on its way is never sent, said or
\* written back, by no `setup` that ends later, no resume and no crash.
THEOREM DroppedForGood == Spec => DecisionsStand
<1>1. IInv /\ [Next]_vars =>
        [\A s \in dropped \ sending :
           said'[s] = said[s] /\ ~row'[s].pending /\ s \notin sending']_vars
  <2> SUFFICES ASSUME IInv, Next, NEW s \in dropped \ sending PROVE Stands(s)
    BY DEF Stands
  <2> QED
    BY SessionStands, CallerStands, RestartStands DEF Next
<1> QED
  BY <1>1, Invariance, PTL DEF Spec, DecisionsStand
=============================================================================
