----------------------------- MODULE TurnsProofs -----------------------------
(***************************************************************************)
(* Proofs about the turns of the agents: for any sessions, turns and       *)
(* requests, each turn is told with one question and one closing, the mark *)
(* of the turn in flight tells the truth where prompts come one at a time, *)
(* and what relies on it (the update, the configuration, the memory) may.  *)
(***************************************************************************)
EXTENDS Turns, SequenceTheorems, TLAPS

(***************************************************************************)
(* The inductive invariant.  Phase is about one turn, what it has told     *)
(* against how far it is.  Marks is about the turns in flight and the      *)
(* mark; Gifts about the memory; Asking about the permissions; Changing,   *)
(* which no other part needs, about the changes of configuration.          *)
(***************************************************************************)
Flying(k) == k.pc \in Waits /\ ~k.failed

Question == <<"message">>
Ending == <<"message", "turn_end">>
Failure == <<"message", "turn_failed">>

Phase(k) ==
  /\ k \in Turn
  /\ k.pc # "new" => k.of \in Sessions
  /\ k.pc = "new" => k.told = <<>> /\ ~k.failed /\ k.result = "none"
  /\ k.pc \in Waits => k.result = "none"
  /\ k.pc \in Waits /\ k.failed => k.told = Failure
  /\ k.pc \in {"budget", "memory"} /\ ~k.failed => k.told = <<>>
  /\ k.pc \in {"asked", "grace"} /\ ~k.failed => k.told = Question
  /\ k.pc = "over" => \/ k.result = "refused" /\ k.told = <<>>
                      \/ k.result = "ended" /\ k.told = Ending
                      \/ k.result = "failed" /\ k.told = Failure

Stories == turn \in [Turns -> Turn] /\ \A t \in Turns : Phase(turn[t])

\* Two turns in flight in one session are both known to share it.
Alone ==
  \A t, u \in Turns :
    Flying(turn[t]) /\ Flying(turn[u]) /\ turn[t].of = turn[u].of /\ t # u => t \in overlapped

Marks ==
  /\ up \subseteq Sessions /\ flag \subseteq up
  /\ overlapped \subseteq Turns
  /\ \A t \in overlapped : turn[t].pc # "new"
  /\ \A t \in Turns : Flying(turn[t]) => turn[t].of \in up
  /\ \A s \in flag : \E t \in Turns : Flying(turn[t]) /\ turn[t].of = s
  /\ \A t \in Turns : Flying(turn[t]) => t \in overlapped \/ turn[t].of \in flag
  /\ Alone
  /\ door \in {"open", "held", "leaving"}
  /\ door # "open" => \A t \in Turns : Flying(turn[t]) => t \in overlapped

Gifts ==
  /\ cored \subseteq Sessions
  /\ cores \in [Sessions -> Nat]
  /\ \A s \in Sessions : s \notin cored => cores[s] = 0
  /\ \A s \in Sessions : cores[s] <= 1 \/ \E t \in overlapped : turn[t].of = s
  /\ \A t \in Turns : turn[t].pc = "memory" /\ ~turn[t].failed /\ t \notin overlapped
                        => turn[t].of \notin cored

Asking ==
  /\ piped \subseteq Sessions
  /\ request \in [Requests -> Request]
  /\ \A r \in Requests : Pending(r) => request[r].of \in up \/ request[r].late

IInv == Stories /\ Marks /\ Gifts /\ Asking

\* What was asked for under a turn was asked for under one that lost its mark.
Changing ==
  /\ change \in [Changes -> Change]
  /\ \A c \in Changes : change[c].ahead \subseteq overlapped
  /\ midturn \subseteq overlapped

-----------------------------------------------------------------------------
(* Facts about the parts. *)

LEMMA InFlightIs ==
  ASSUME NEW s
  PROVE  InFlight(s) = {t \in Turns : turn[t].of = s /\ Flying(turn[t])}
BY DEF InFlight, Flying

Tale == Seq({"message", "turn_end", "turn_failed"})

LEMMA Longer ==
  ASSUME NEW S, NEW q \in Seq(S), NEW e \in S, NEW a, a = Append(q, e)
  PROVE  /\ a \in Seq(S) /\ Len(a) = Len(q) + 1 /\ a[Len(q) + 1] = e
         /\ \A i \in 1 .. Len(q) : a[i] = q[i]
BY AppendProperties

LEMMA Appended ==
  ASSUME NEW S, NEW q \in Seq(S), NEW e \in S, NEW d \in S, Len(q) = 1, q[1] = d,
         NEW a, a = Append(q, e)
  PROVE  a = <<d, e>>
<1>1. /\ a \in Seq(S) /\ Len(a) = Len(q) + 1 /\ a[Len(q) + 1] = e
      /\ \A i \in 1 .. Len(q) : a[i] = q[i]
  BY Longer
<1>2. a \in Seq(S) /\ Len(a) = 2 /\ a[1] = d /\ a[2] = e
  BY <1>1
<1>3. <<d, e>> \in Seq(S) /\ Len(<<d, e>>) = 2 /\ <<d, e>>[1] = d /\ <<d, e>>[2] = e
  OBVIOUS
<1>4. \A i \in 1 .. Len(a) : a[i] = <<d, e>>[i]
  BY <1>2, <1>3
<1> QED BY <1>2, <1>3, <1>4, SeqEqual

LEMMA Tales ==
  /\ <<>> \in Tale /\ Question \in Tale /\ Ending \in Tale /\ Failure \in Tale
  /\ Append(Question, "turn_end") = Ending /\ Append(Question, "turn_failed") = Failure
  /\ Question # <<>> /\ Ending # <<>> /\ Failure # <<>>
<1>1. <<>> \in Tale /\ Question \in Tale
  BY DEF Tale, Question
<1>2. Ending \in Tale /\ Failure \in Tale
  BY DEF Tale, Ending, Failure
<1>3. Append(Question, "turn_end") = Ending /\ Append(Question, "turn_failed") = Failure
  <2> DEFINE S == {"message", "turn_end", "turn_failed"}
  <2>1. Question \in Seq(S) /\ Len(Question) = 1 /\ Question[1] = "message"
    BY DEF Question
  <2>2. /\ Ending = <<"message", "turn_end">> /\ Failure = <<"message", "turn_failed">>
        /\ "message" \in S /\ "turn_end" \in S /\ "turn_failed" \in S
    BY DEF Ending, Failure
  <2> HIDE DEF S
  <2> QED BY <2>1, <2>2, Appended
<1>4. Question # <<>> /\ Ending # <<>> /\ Failure # <<>>
  <2>1. Len(Question) = 1 /\ Len(Ending) = 2 /\ Len(Failure) = 2
    BY DEF Question, Ending, Failure
  <2> QED BY <2>1
<1> QED BY <1>1, <1>2, <1>3, <1>4

\* Turns go on or end, none starts.  When a session loses its turns in flight
\* it loses its mark, and a turn left without its mark shared its session.
Settled ==
  /\ \A t \in Turns : turn'[t].of = turn[t].of
  /\ \A t \in Turns : turn'[t].pc = "new" => turn[t].pc = "new"
  /\ \A t \in Turns : Flying(turn'[t]) => Flying(turn[t])
  /\ up' \subseteq up /\ flag' \subseteq flag /\ flag' \subseteq up'
  /\ \A t \in Turns : Flying(turn[t]) /\ turn[t].of \in flag' => Flying(turn'[t])
  /\ \A t \in Turns : Flying(turn'[t]) => turn[t].of \in up'
  /\ \A t \in Turns : Flying(turn'[t]) /\ turn[t].of \in flag => t \in overlapped \/ turn[t].of \in flag'
  /\ UNCHANGED <<door, overlapped>>

LEMMA SettledKeeps == ASSUME Marks, Settled PROVE Marks'
<1>1. (up \subseteq Sessions /\ flag \subseteq up)'
  BY DEF Marks, Settled
<1>2. (overlapped \subseteq Turns)'
  BY DEF Marks, Settled
<1>3. (\A t \in overlapped : turn[t].pc # "new")'
  BY DEF Marks, Settled
<1>4. (\A t \in Turns : Flying(turn[t]) => turn[t].of \in up)'
  BY DEF Marks, Settled
<1>5. (\A s \in flag : \E t \in Turns : Flying(turn[t]) /\ turn[t].of = s)'
  <2> SUFFICES ASSUME NEW s \in flag'
               PROVE  \E t \in Turns : Flying(turn'[t]) /\ turn'[t].of = s
    BY DEF Flying
  <2>1. PICK t \in Turns : Flying(turn[t]) /\ turn[t].of = s
    BY DEF Marks, Settled
  <2> QED BY <2>1 DEF Settled
<1>6. (\A t \in Turns : Flying(turn[t]) => t \in overlapped \/ turn[t].of \in flag)'
  <2> SUFFICES ASSUME NEW t \in Turns, Flying(turn'[t])
               PROVE  t \in overlapped' \/ turn'[t].of \in flag'
    BY DEF Flying
  <2>1. t \in overlapped \/ turn[t].of \in flag
    BY DEF Marks, Settled
  <2> QED BY <2>1 DEF Settled
<1>7. Alone'
  BY DEF Marks, Settled, Alone, Flying
<1>8. (door \in {"open", "held", "leaving"})'
  BY DEF Marks, Settled
<1>9. (door # "open" => \A t \in Turns : Flying(turn[t]) => t \in overlapped)'
  BY DEF Marks, Settled, Flying
<1> QED BY <1>1, <1>2, <1>3, <1>4, <1>5, <1>6, <1>7, <1>8, <1>9 DEF Marks

\* Steps that give no memory to anybody and leave nobody waiting for it who
\* was not.
LEMMA NothingGiven ==
  ASSUME Gifts, Marks, Settled, UNCHANGED <<cored, cores>>,
         \A t \in Turns : turn'[t].pc = "memory" /\ ~turn'[t].failed
                            => turn[t].pc = "memory" /\ ~turn[t].failed
  PROVE  Gifts'
BY DEF Gifts, Marks, Settled
-----------------------------------------------------------------------------
(* One lemma per step. *)

LEMMA InitInv == Init => IInv
<1> SUFFICES ASSUME Init PROVE IInv
  OBVIOUS
<1>1. NewTurn \in Turn /\ NewTurn.pc = "new"
  BY Tales DEF NewTurn, Turn, Tale
<1>2. Stories
  BY <1>1 DEF Init, Stories, Phase, NewTurn, Waits
<1>3. Marks
  BY <1>1 DEF Init, Marks, Alone, Flying, Waits
<1>4. Gifts
  BY <1>1 DEF Init, Gifts
<1>5. Asking
  BY DEF Init, Asking, Request, Pending, NoRequest
<1> QED BY <1>2, <1>3, <1>4, <1>5 DEF IInv

LEMMA PromptStep ==
  ASSUME IInv, NEW t \in Turns, NEW s \in Sessions, Prompt(t, s)
  PROVE  IInv'
<1> USE DEF IInv
<1>1. turn[t].pc = "new" /\ s \in up /\ door = "open" /\ Phase(turn[t])
  BY DEF Prompt, Admits, Stories
<1>2. /\ turn'[t] = [turn[t] EXCEPT !.pc = "budget", !.of = s]
      /\ \A u \in Turns \ {t} : turn'[u] = turn[u]
      /\ turn' \in [Turns -> Turn]
  <2>1. /\ turn' = [turn EXCEPT ![t] = [turn[t] EXCEPT !.pc = "budget", !.of = s]]
        /\ turn \in [Turns -> Turn]
    BY DEF Prompt, Stories
  <2>2. [turn[t] EXCEPT !.pc = "budget", !.of = s] \in Turn
    BY <2>1 DEF Turn, Waits
  <2> QED BY <2>1, <2>2
<1>3. /\ ~Flying(turn[t]) /\ Flying(turn'[t])
      /\ turn'[t].of = s /\ turn'[t].pc = "budget" /\ Phase(turn'[t])
  BY <1>1, <1>2 DEF Phase, Turn, Waits, Flying
<1>4. Stories'
  BY <1>2, <1>3 DEF Stories
<1>5. /\ UNCHANGED <<up, piped, cored, request, door, cores, midturn>>
      /\ flag' = flag \cup {s}
      /\ overlapped \subseteq overlapped'
      /\ overlapped' \subseteq overlapped \cup InFlight(s) \cup {t}
      /\ (\E u \in Turns : Flying(turn[u]) /\ turn[u].of = s)
           => overlapped' = overlapped \cup InFlight(s) \cup {t}
  BY InFlightIs DEF Prompt, Marked
<1>6. Marks'
  <2>1. (up \subseteq Sessions /\ flag \subseteq up)'
    BY <1>1, <1>5 DEF Marks
  <2>2. (overlapped \subseteq Turns)'
    BY <1>5, InFlightIs DEF Marks
  <2>3. \A u \in overlapped' : turn'[u].pc # "new"
    <3>1. \A u \in Turns \ {t} : turn[u].pc = "new" => u \notin overlapped \cup InFlight(s)
      BY InFlightIs DEF Marks, Flying, Waits
    <3>2. overlapped' \subseteq Turns
      BY <2>2
    <3> QED BY <1>2, <1>3, <1>5, <3>1, <3>2
  <2>4. \A u \in Turns : Flying(turn'[u]) => turn'[u].of \in up'
    BY <1>1, <1>2, <1>3, <1>5 DEF Marks
  <2>5. \A v \in flag' : \E u \in Turns : Flying(turn'[u]) /\ turn'[u].of = v
    <3> SUFFICES ASSUME NEW v \in flag'
                 PROVE  \E u \in Turns : Flying(turn'[u]) /\ turn'[u].of = v
      OBVIOUS
    <3>1. CASE v = s
      BY <3>1, <1>3
    <3>2. CASE v # s
      <4>1. PICK u \in Turns : Flying(turn[u]) /\ turn[u].of = v
        BY <3>2, <1>5 DEF Marks
      <4> QED BY <4>1, <1>2, <1>3
    <3> QED BY <3>1, <3>2
  <2>6. \A u \in Turns : Flying(turn'[u]) => u \in overlapped' \/ turn'[u].of \in flag'
    BY <1>2, <1>3, <1>5 DEF Marks
  <2>7. \A u, w \in Turns :
          Flying(turn'[u]) /\ Flying(turn'[w]) /\ turn'[u].of = turn'[w].of /\ u # w
            => u \in overlapped'
    <3> SUFFICES ASSUME NEW u \in Turns, NEW w \in Turns, Flying(turn'[u]), Flying(turn'[w]),
                        turn'[u].of = turn'[w].of, u # w
                 PROVE  u \in overlapped'
      OBVIOUS
    <3>1. CASE u = t
      BY <3>1, <1>2, <1>3, <1>5
    <3>2. CASE w = t
      BY <3>2, <1>2, <1>3, <1>5, InFlightIs
    <3>3. CASE u # t /\ w # t
      BY <3>3, <1>2, <1>5 DEF Marks, Alone
    <3> QED BY <3>1, <3>2, <3>3
  <2>8. (door \in {"open", "held", "leaving"})' /\ door' = "open"
    BY <1>1, <1>5 DEF Marks
  <2> QED BY <2>1, <2>2, <2>3, <2>4, <2>5, <2>6, <2>7, <2>8 DEF Marks, Alone, Flying
<1>7. Gifts'
  <2>1. \A u \in overlapped : u \in overlapped' /\ turn'[u].of = turn[u].of
    BY <1>1, <1>2, <1>5 DEF Marks
  <2>2. (cored \subseteq Sessions /\ cores \in [Sessions -> Nat]
         /\ \A v \in Sessions : v \notin cored => cores[v] = 0)'
    BY <1>5 DEF Gifts
  <2>3. \A v \in Sessions : cores'[v] <= 1 \/ \E u \in overlapped' : turn'[u].of = v
    BY <1>5, <2>1 DEF Gifts
  <2>4. \A u \in Turns : turn'[u].pc = "memory" /\ ~turn'[u].failed /\ u \notin overlapped'
                             => turn'[u].of \notin cored'
    BY <1>2, <1>3, <1>5 DEF Gifts
  <2> QED BY <2>2, <2>3, <2>4 DEF Gifts
<1>8. Asking'
  BY <1>5 DEF Asking, Pending
<1> QED BY <1>4, <1>6, <1>7, <1>8

\* What a step that changes one turn, and nothing of the memory but for it,
\* has to show of that turn.
LEMMA OneTurn ==
  ASSUME IInv, NEW t \in Turns, NEW k, turn' = [turn EXCEPT ![t] = k],
         turn[t].pc # "new", Phase(k), k.of = turn[t].of, k.pc # "new",
         Flying(k) => Flying(turn[t]),
         \/ flag' = flag /\ (Flying(turn[t]) => Flying(k))
         \/ flag' = flag \ {turn[t].of} /\ Flying(turn[t]) /\ ~Flying(k),
         UNCHANGED <<up, door, overlapped, midturn>>
  PROVE  Stories' /\ Marks' /\ Settled
<1>1. turn'[t] = k /\ \A u \in Turns \ {t} : turn'[u] = turn[u]
  BY DEF IInv, Stories
<1>2. Stories'
  <2>1. k \in Turn /\ turn \in [Turns -> Turn]
    BY DEF IInv, Stories, Phase
  <2>2. turn' \in [Turns -> Turn]
    BY <2>1
  <2>3. \A u \in Turns : Phase(turn'[u])
    BY <1>1 DEF IInv, Stories
  <2> QED BY <2>2, <2>3 DEF Stories
<1>3. Settled
  <2>1. /\ \A u \in Turns : turn'[u].of = turn[u].of
        /\ \A u \in Turns : turn'[u].pc = "new" => turn[u].pc = "new"
        /\ \A u \in Turns : Flying(turn'[u]) => Flying(turn[u])
    BY <1>1
  <2>2. up' \subseteq up /\ flag' \subseteq flag /\ flag' \subseteq up'
    BY DEF IInv, Marks
  <2>3. \A u \in Turns : Flying(turn[u]) /\ turn[u].of \in flag' => Flying(turn'[u])
    BY <1>1
  <2>4. \A u \in Turns : Flying(turn'[u]) => turn[u].of \in up'
    BY <2>1 DEF IInv, Marks
  <2>5. ASSUME NEW u \in Turns, Flying(turn'[u]), turn[u].of \in flag
        PROVE  u \in overlapped \/ turn[u].of \in flag'
    <3>1. CASE flag' = flag
      BY <3>1, <2>5
    <3>2. CASE flag' = flag \ {turn[t].of} /\ ~Flying(k) /\ Flying(turn[t])
      BY <3>2, <2>5, <2>1, <1>1 DEF IInv, Marks, Alone
    <3> QED BY <3>1, <3>2
  <2> QED BY <2>1, <2>2, <2>3, <2>4, <2>5 DEF Settled
<1>4. Marks'
  BY <1>3, SettledKeeps DEF IInv
<1> QED BY <1>2, <1>3, <1>4

\* The memory and the permissions of a step that touches neither.
LEMMA OthersKeep ==
  ASSUME IInv, Marks', Settled, UNCHANGED <<piped, request, cored, cores>>,
         up' = up, \A t \in Turns : turn'[t].pc = "memory" /\ ~turn'[t].failed
                            => turn[t].pc = "memory" /\ ~turn[t].failed
  PROVE  Gifts' /\ Asking'
<1>1. Gifts'
  BY NothingGiven DEF IInv
<1>2. Asking'
  BY DEF IInv, Asking, Pending
<1> QED BY <1>1, <1>2

\* A turn whose failure is read is over; one that is not refused is asked.
LEMMA OverIs ==
  ASSUME NEW t \in Turns, Phase(turn[t]), turn[t].pc \in Waits, turn[t].failed
  PROVE  /\ Phase(Over(t, "failed")) /\ Over(t, "failed").of = turn[t].of
         /\ Over(t, "failed").pc = "over"
<1>1. /\ Over(t, "failed") \in Turn /\ Over(t, "failed").pc = "over"
      /\ Over(t, "failed").of = turn[t].of /\ Over(t, "failed").told = turn[t].told
      /\ Over(t, "failed").result = "failed"
  BY DEF Over, Phase, Turn
<1>2. turn[t].told = Failure /\ turn[t].of \in Sessions
  BY DEF Phase, Waits
<1> QED BY <1>1, <1>2 DEF Phase, Waits

LEMMA AskedIs ==
  ASSUME NEW t \in Turns, Phase(turn[t]), turn[t].pc \in {"budget", "memory"}, ~turn[t].failed
  PROVE  Phase(Asked(t)) /\ Asked(t).of = turn[t].of /\ Asked(t).pc = "asked"
<1>1. /\ Asked(t).pc = "asked" /\ Asked(t).told = Question /\ Asked(t).of = turn[t].of
      /\ Asked(t).failed = FALSE /\ Asked(t).result = "none"
  BY DEF Phase, Turn, Waits, Asked, Question
<1>2. Asked(t) \in Turn
  BY Tales DEF Phase, Turn, Waits, Asked, Question, Tale
<1>3. turn[t].of \in Sessions
  BY DEF Phase
<1> QED BY <1>1, <1>2, <1>3 DEF Phase, Waits

LEMMA BudgetStep ==
  ASSUME IInv, NEW t \in Turns, NEW block \in BOOLEAN, BudgetAnswers(t, block)
  PROVE  IInv'
<1> DEFINE k == turn'[t]
<1>0. turn \in [Turns -> Turn] /\ Phase(turn[t]) /\ turn[t].pc = "budget"
  BY DEF IInv, Stories, BudgetAnswers
<1>1. /\ turn' = [turn EXCEPT ![t] = k]
      /\ UNCHANGED <<up, piped, cored, request, door, cores, overlapped, midturn>>
  BY <1>0 DEF BudgetAnswers
<1>2. /\ turn[t].failed => k = Over(t, "failed") /\ flag' = flag
      /\ ~turn[t].failed /\ block => k = Over(t, "refused") /\ flag' = flag \ {turn[t].of}
      /\ ~turn[t].failed /\ ~block /\ turn[t].of \in cored => k = Asked(t) /\ flag' = flag
      /\ ~turn[t].failed /\ ~block /\ turn[t].of \notin cored
           => k = [turn[t] EXCEPT !.pc = "memory"] /\ flag' = flag
  BY <1>0 DEF BudgetAnswers, Unmark
<1>3. Phase(k) /\ k.of = turn[t].of /\ k.pc # "new"
  <2>1. CASE turn[t].failed
    BY <2>1, <1>0, <1>2, OverIs DEF Waits
  <2>2. CASE k = Over(t, "refused") /\ ~turn[t].failed
    BY <2>2, <1>0 DEF Phase, Turn, Waits, Over
  <2>3. CASE k = Asked(t) /\ ~turn[t].failed
    BY <2>3, <1>0, AskedIs
  <2>4. CASE k = [turn[t] EXCEPT !.pc = "memory"] /\ ~turn[t].failed
    BY <2>4, <1>0 DEF Phase, Turn, Waits
  <2> QED BY <1>2, <2>1, <2>2, <2>3, <2>4
<1>4. \/ flag' = flag /\ (Flying(turn[t]) <=> Flying(k))
      \/ flag' = flag \ {turn[t].of} /\ Flying(turn[t]) /\ ~Flying(k)
  BY <1>0, <1>2 DEF Flying, Phase, Turn, Waits, Over, Asked
<1> HIDE DEF k
<1>5. Stories' /\ Marks' /\ Settled
  BY <1>0, <1>1, <1>3, <1>4, OneTurn
<1>6. Gifts'
  <2>1. k.pc = "memory" /\ ~k.failed => k.of \notin cored
    BY <1>0, <1>2 DEF Phase, Turn, Over, Asked
  <2>2. turn'[t] = k /\ \A u \in Turns \ {t} : turn'[u] = turn[u]
    BY <1>0, <1>1
  <2>3. \A s \in Sessions : cores'[s] <= 1 \/ \E u \in overlapped' : turn'[u].of = s
    BY <1>1, <1>5 DEF IInv, Gifts, Marks, Settled
  <2> QED BY <2>1, <2>2, <2>3, <1>1 DEF IInv, Gifts
<1>7. Asking'
  BY <1>1 DEF IInv, Asking, Pending
<1> QED BY <1>5, <1>6, <1>7 DEF IInv

LEMMA MemoryStep ==
  ASSUME IInv, NEW t \in Turns, NEW found \in BOOLEAN, MemoryAnswers(t, found)
  PROVE  IInv'
<1> DEFINE k == turn'[t]
<1>0. turn \in [Turns -> Turn] /\ Phase(turn[t]) /\ turn[t].pc = "memory"
  BY DEF IInv, Stories, MemoryAnswers
<1>1. /\ turn' = [turn EXCEPT ![t] = k]
      /\ UNCHANGED <<up, piped, flag, request, door, overlapped, midturn>>
  BY <1>0 DEF MemoryAnswers
<1>2. k = IF turn[t].failed THEN Over(t, "failed") ELSE Asked(t)
  BY <1>0 DEF MemoryAnswers
<1>3. Phase(k) /\ k.of = turn[t].of /\ k.pc \notin {"new", "memory"}
  <2>1. CASE turn[t].failed
    BY <2>1, <1>0, <1>2, OverIs DEF Waits
  <2>2. CASE ~turn[t].failed
    BY <2>2, <1>0, <1>2, AskedIs
  <2> QED BY <2>1, <2>2
<1>4. flag' = flag /\ (Flying(turn[t]) <=> Flying(k))
  BY <1>0, <1>1, <1>2 DEF Flying, Phase, Turn, Waits, Over, Asked
<1> HIDE DEF k
<1>5. Stories' /\ Marks' /\ Settled
  BY <1>0, <1>1, <1>3, <1>4, OneTurn
<1>6. Gifts'
  <2> DEFINE s == turn[t].of
  <2>1. turn'[t] = k /\ \A u \in Turns \ {t} : turn'[u] = turn[u]
    BY <1>0, <1>1
  <2>2. CASE cored' = cored /\ cores' = cores
    BY <2>2, <2>1, <1>3, <1>5, NothingGiven DEF IInv
  <2>3. CASE /\ ~turn[t].failed /\ cored' = cored \cup {s}
             /\ cores' = [cores EXCEPT ![s] = @ + 1]
    <3>1. Flying(turn[t]) /\ s \in Sessions
      BY <2>3, <1>0 DEF Flying, Waits, Phase
    <3>2. cored' \subseteq Sessions /\ cores' \in [Sessions -> Nat]
      BY <2>3, <3>1 DEF IInv, Gifts
    <3>3. \A v \in Sessions : v \notin cored' => cores'[v] = 0
      BY <2>3, <3>1 DEF IInv, Gifts
    <3>4. ASSUME NEW v \in Sessions
          PROVE  cores'[v] <= 1 \/ \E u \in overlapped' : turn'[u].of = v
      <4>1. CASE v # s
        BY <4>1, <2>3, <3>1, <1>1, <1>5 DEF IInv, Gifts, Marks, Settled
      <4>2. CASE v = s /\ t \in overlapped
        BY <4>2, <2>1, <1>1, <1>3
      <4>3. CASE v = s /\ t \notin overlapped
        BY <4>3, <2>3, <3>1, <1>0 DEF IInv, Gifts
      <4> QED BY <4>1, <4>2, <4>3
    <3>5. ASSUME NEW u \in Turns, turn'[u].pc = "memory", ~turn'[u].failed, u \notin overlapped'
          PROVE  turn'[u].of \notin cored'
      <4>1. u # t /\ turn'[u] = turn[u] /\ Flying(turn[u]) /\ u \notin overlapped
        BY <3>5, <2>1, <1>1, <1>3 DEF Flying, Waits
      <4>2. turn[u].of # s
        BY <4>1, <3>1 DEF IInv, Marks, Alone
      <4> QED BY <4>1, <4>2, <3>5, <2>3 DEF IInv, Gifts
    <3> QED BY <3>2, <3>3, <3>4, <3>5 DEF Gifts
  <2>4. \/ cored' = cored /\ cores' = cores
        \/ ~turn[t].failed /\ cored' = cored \cup {s} /\ cores' = [cores EXCEPT ![s] = @ + 1]
    BY DEF MemoryAnswers, MarkedGiven
  <2> QED BY <2>2, <2>3, <2>4
<1>7. Asking'
  BY <1>1 DEF IInv, Asking, Pending
<1> QED BY <1>5, <1>6, <1>7 DEF IInv

LEMMA RepliesStep ==
  ASSUME IInv, NEW t \in Turns, NEW kind \in {"answer", "error"}, Replies(t, kind)
  PROVE  IInv'
<1> DEFINE k == [turn[t] EXCEPT !.reply = kind]
<1>0. turn \in [Turns -> Turn] /\ Phase(turn[t]) /\ turn[t].pc = "asked"
  BY DEF IInv, Stories, Replies
<1>1. turn' = [turn EXCEPT ![t] = k]
      /\ UNCHANGED <<up, piped, flag, cored, request, door, cores, overlapped, midturn>>
  BY DEF Replies
<1>2. Phase(k) /\ k.of = turn[t].of /\ k.pc = "asked" /\ (Flying(turn[t]) <=> Flying(k))
  BY <1>0 DEF Phase, Turn, Waits, Flying
<1> HIDE DEF k
<1>3. Stories' /\ Marks' /\ Settled
  BY <1>0, <1>1, <1>2, OneTurn
<1>4. \A u \in Turns : turn'[u].pc = "memory" /\ ~turn'[u].failed
                           => turn[u].pc = "memory" /\ ~turn[u].failed
  BY <1>0, <1>1, <1>2
<1> QED BY <1>1, <1>3, <1>4, OthersKeep DEF IInv

\* The steps after the answer that change one turn.
LEMMA ContinueOneStep ==
  ASSUME IInv, NEW t \in Turns, Ends(t) \/ Fails(t) \/ LetGo(t),
         UNCHANGED <<up, piped, cored, request, door, cores, overlapped, midturn>>
  PROVE  IInv'
<1> DEFINE k == turn'[t]
<1>0. turn \in [Turns -> Turn] /\ Phase(turn[t]) /\ turn[t].pc \in {"asked", "grace"}
  BY DEF IInv, Stories, Ends, Fails, LetGo
<1>1. \/ /\ ~turn[t].failed
         /\ turn' = [turn EXCEPT ![t] = [Over(t, "ended") EXCEPT !.told = Closed(t, "turn_end")]]
         /\ flag' = flag \ {turn[t].of}
      \/ /\ ~turn[t].failed
         /\ turn' = [turn EXCEPT ![t] = [Over(t, "failed") EXCEPT !.told = Closed(t, "turn_failed")]]
         /\ flag' = flag \ {turn[t].of}
      \/ turn' = [turn EXCEPT ![t].pc = "grace"] /\ flag' = flag /\ turn[t].pc = "asked"
      \/ turn[t].failed /\ turn' = [turn EXCEPT ![t] = Over(t, "failed")] /\ flag' = flag
  BY DEF Ends, Fails, LetGo, Unmark
<1>2. turn' = [turn EXCEPT ![t] = k]
  BY <1>0, <1>1
<1>3. \/ /\ ~turn[t].failed /\ flag' = flag \ {turn[t].of}
         /\ \/ k = [Over(t, "ended") EXCEPT !.told = Ending]
            \/ k = [Over(t, "failed") EXCEPT !.told = Failure]
      \/ k = [turn[t] EXCEPT !.pc = "grace"] /\ flag' = flag
      \/ turn[t].failed /\ k = Over(t, "failed") /\ flag' = flag
  <2>1. ~turn[t].failed => Closed(t, "turn_end") = Ending /\ Closed(t, "turn_failed") = Failure
    BY <1>0, Tales DEF Closed, Phase
  <2> QED BY <2>1, <1>0, <1>1
<1>4. Phase(k) /\ k.of = turn[t].of /\ k.pc \notin {"new", "memory"}
  <2>1. CASE k = [Over(t, "ended") EXCEPT !.told = Ending]
    BY <2>1, <1>0, Tales DEF Phase, Turn, Waits, Over, Tale
  <2>2. CASE k = [Over(t, "failed") EXCEPT !.told = Failure]
    BY <2>2, <1>0, Tales DEF Phase, Turn, Waits, Over, Tale
  <2>3. CASE k = [turn[t] EXCEPT !.pc = "grace"]
    BY <2>3, <1>0 DEF Phase, Turn, Waits
  <2>4. CASE turn[t].failed /\ k = Over(t, "failed")
    BY <2>4, <1>0 DEF Phase, Turn, Waits, Over
  <2> QED BY <1>3, <2>1, <2>2, <2>3, <2>4
<1>5. \/ flag' = flag /\ (Flying(turn[t]) <=> Flying(k))
      \/ flag' = flag \ {turn[t].of} /\ Flying(turn[t]) /\ ~Flying(k)
  BY <1>0, <1>3 DEF Flying, Phase, Turn, Waits, Over
<1> HIDE DEF k
<1>6. Stories' /\ Marks' /\ Settled
  BY <1>0, <1>2, <1>4, <1>5, OneTurn
<1>7. \A u \in Turns : turn'[u].pc = "memory" /\ ~turn'[u].failed
                           => turn[u].pc = "memory" /\ ~turn[u].failed
  BY <1>0, <1>2, <1>4
<1> QED BY <1>6, <1>7, OthersKeep DEF IInv

\* What the exit, or the end of the grace, makes of a turn in flight.
LEMMA ClosedKeeps ==
  ASSUME NEW u \in Turns, Phase(turn[u]), Flying(turn[u])
  PROVE  /\ Phase(ClosedOnExit(u)) /\ ~Flying(ClosedOnExit(u))
         /\ ClosedOnExit(u).told = Failure /\ ClosedOnExit(u).failed
         /\ ClosedOnExit(u).pc = turn[u].pc /\ ClosedOnExit(u).of = turn[u].of
<1>1. turn[u].told = <<>> \/ turn[u].told = Question
  BY DEF Phase, Flying, Waits
<1>2. ClosedOnExit(u) = [turn[u] EXCEPT !.failed = TRUE, !.told = Failure]
  BY <1>1, Tales DEF ClosedOnExit, Failure, Phase, Turn
<1> QED BY <1>2, Tales DEF Phase, Turn, Flying, Waits, Tale

\* All the turns in flight of a session are closed at once, and some of them
\* may be over.
LEMMA SessionCloses ==
  ASSUME IInv, NEW s \in Sessions, turn' \in [Turns -> Turn],
         \A u \in Turns \ InFlight(s) : turn'[u] = turn[u],
         \A u \in InFlight(s) : /\ Phase(turn'[u]) /\ ~Flying(turn'[u])
                                /\ turn'[u].of = s /\ turn'[u].pc # "new",
         \A u \in Turns : turn'[u].pc = "memory" /\ ~turn'[u].failed => u \notin InFlight(s),
         flag' = flag \ {s},
         up' = up \/ up' = up \ {s},
         UNCHANGED <<cored, door, cores, overlapped, midturn>>
  PROVE  Stories' /\ Marks' /\ Gifts'
<1>0. InFlight(s) = {u \in Turns : turn[u].of = s /\ Flying(turn[u])}
  BY InFlightIs
<1>1. Stories'
  BY DEF IInv, Stories
<1>2. Settled
  <2>1. \A u \in Turns : turn'[u].of = turn[u].of
    BY <1>0
  <2>2. \A u \in Turns : turn'[u].pc = "new" => turn[u].pc = "new"
    BY <1>0
  <2>3. \A u \in Turns : Flying(turn'[u]) => Flying(turn[u]) /\ turn[u].of # s
    BY <1>0
  <2>4. up' \subseteq up /\ flag' \subseteq flag /\ flag' \subseteq up'
    BY DEF IInv, Marks
  <2>5. \A u \in Turns : Flying(turn[u]) /\ turn[u].of \in flag' => Flying(turn'[u])
    BY <1>0
  <2>6. \A u \in Turns : Flying(turn'[u]) => turn[u].of \in up'
    BY <2>3 DEF IInv, Marks
  <2>7. \A u \in Turns : Flying(turn'[u]) /\ turn[u].of \in flag => turn[u].of \in flag'
    BY <2>3
  <2> QED BY <2>1, <2>2, <2>3, <2>4, <2>5, <2>6, <2>7 DEF Settled
<1>3. Marks'
  BY <1>2, SettledKeeps DEF IInv
<1>4. \A u \in Turns : turn'[u].pc = "memory" /\ ~turn'[u].failed
                           => turn[u].pc = "memory" /\ ~turn[u].failed
  OBVIOUS
<1> QED BY <1>1, <1>2, <1>3, <1>4, NothingGiven DEF IInv

LEMMA GraceStep ==
  ASSUME IInv, NEW t \in Turns, GraceEnds(t),
         UNCHANGED <<up, piped, cored, request, door, cores, overlapped, midturn>>
  PROVE  IInv'
<1> DEFINE s == turn[t].of
<1>0. /\ turn \in [Turns -> Turn] /\ \A u \in Turns : Phase(turn[u])
      /\ InFlight(s) = {u \in Turns : turn[u].of = s /\ Flying(turn[u])}
  BY InFlightIs DEF IInv, Stories
<1>1. Flying(turn[t]) /\ s \in Sessions /\ t \in InFlight(s)
  BY <1>0 DEF GraceEnds, Flying, Phase, Waits
<1>2. \A u \in InFlight(s) : /\ Phase(ClosedOnExit(u)) /\ ~Flying(ClosedOnExit(u))
                             /\ ClosedOnExit(u).told = Failure /\ ClosedOnExit(u).failed
                             /\ ClosedOnExit(u).pc = turn[u].pc /\ ClosedOnExit(u).of = s
  BY <1>0, ClosedKeeps
<1>3. AllClosed(s) \in [Turns -> Turn]
      /\ \A u \in Turns : AllClosed(s)[u] = IF u \in InFlight(s) THEN ClosedOnExit(u) ELSE turn[u]
  BY <1>0, <1>2 DEF AllClosed, Phase
<1>4. /\ turn' \in [Turns -> Turn]
      /\ turn'[t] = [ClosedOnExit(t) EXCEPT !.pc = "over", !.result = "failed"]
      /\ \A u \in Turns \ {t} : turn'[u] = AllClosed(s)[u]
      /\ flag' = flag \ {s}
  <2>1. turn' = [AllClosed(s) EXCEPT ![t].pc = "over", ![t].result = "failed"] /\ flag' = flag \ {s}
    BY DEF GraceEnds
  <2>2. AllClosed(s)[t] = ClosedOnExit(t) /\ ClosedOnExit(t) \in Turn
    BY <1>1, <1>2, <1>3 DEF Phase
  <2> HIDE DEF s
  <2>3. turn'[t] = [ClosedOnExit(t) EXCEPT !.pc = "over", !.result = "failed"]
        /\ \A u \in Turns \ {t} : turn'[u] = AllClosed(s)[u]
    BY <2>1, <2>2, <1>3
  <2>4. turn'[t] \in Turn
    BY <2>2, <2>3 DEF Turn
  <2>5. turn' = [u \in Turns |-> turn'[u]]
    BY <2>1, <1>3
  <2>6. \A u \in Turns : turn'[u] \in Turn
    BY <2>3, <2>4, <1>3
  <2> QED BY <2>1, <2>3, <2>5, <2>6
<1>5. /\ Phase(turn'[t]) /\ ~Flying(turn'[t]) /\ turn'[t].of = s /\ turn'[t].pc = "over"
  <2>1. Phase(ClosedOnExit(t)) /\ ClosedOnExit(t).told = Failure /\ ClosedOnExit(t).of = s
        /\ ClosedOnExit(t) \in Turn
    BY <1>1, <1>2 DEF Phase
  <2>2. /\ turn'[t].pc = "over" /\ turn'[t].result = "failed" /\ turn'[t].of = s
        /\ turn'[t].told = Failure /\ turn'[t] \in Turn
    BY <1>4, <2>1 DEF Turn
  <2> QED BY <2>2, <1>1 DEF Phase, Flying, Waits
<1> HIDE DEF s
<1>6. Stories' /\ Marks' /\ Gifts'
  <2>1. \A u \in Turns \ InFlight(s) : turn'[u] = turn[u]
    BY <1>1, <1>3, <1>4
  <2>2. \A u \in InFlight(s) : /\ Phase(turn'[u]) /\ ~Flying(turn'[u])
                               /\ turn'[u].of = s /\ turn'[u].pc # "new"
                               /\ ~(turn'[u].pc = "memory" /\ ~turn'[u].failed)
    <3> SUFFICES ASSUME NEW u \in InFlight(s)
                 PROVE  /\ Phase(turn'[u]) /\ ~Flying(turn'[u])
                        /\ turn'[u].of = s /\ turn'[u].pc # "new"
                        /\ ~(turn'[u].pc = "memory" /\ ~turn'[u].failed)
      OBVIOUS
    <3>1. CASE u = t
      BY <3>1, <1>5
    <3>2. CASE u # t
      BY <3>2, <1>0, <1>2, <1>3, <1>4 DEF Flying, Waits
    <3> QED BY <3>1, <3>2
  <2> QED BY <2>1, <2>2, <1>1, <1>4, SessionCloses
<1>7. Asking'
  BY DEF IInv, Asking, Pending
<1> QED BY <1>6, <1>7 DEF IInv

LEMMA CancelledIs ==
  ASSUME Asking, NEW s
  PROVE  /\ Cancelled(s) \in [Requests -> Request]
         /\ \A r \in Requests : Cancelled(s)[r] # NoRequest
              => Cancelled(s)[r] = request[r] /\ request[r].of # s
BY DEF Asking, Cancelled, Request, NoRequest

LEMMA ExitStep ==
  ASSUME IInv, NEW s \in Sessions, Exit(s)
  PROVE  IInv'
<1>0. /\ turn \in [Turns -> Turn] /\ \A u \in Turns : Phase(turn[u])
      /\ InFlight(s) = {u \in Turns : turn[u].of = s /\ Flying(turn[u])}
  BY InFlightIs DEF IInv, Stories
<1>1. \A u \in InFlight(s) : /\ Phase(ClosedOnExit(u)) /\ ~Flying(ClosedOnExit(u))
                             /\ ClosedOnExit(u).failed
                             /\ ClosedOnExit(u).pc = turn[u].pc /\ ClosedOnExit(u).of = s
  BY <1>0, ClosedKeeps
<1>2. /\ turn' \in [Turns -> Turn]
      /\ \A u \in Turns : turn'[u] = IF u \in InFlight(s) THEN ClosedOnExit(u) ELSE turn[u]
  BY <1>0, <1>1 DEF Exit, AllClosed, Phase
<1>3. /\ flag' = flag \ {s} /\ up' = up \ {s} /\ request' = Cancelled(s)
      /\ UNCHANGED <<piped, cored, door, cores, overlapped, midturn>>
  BY DEF Exit, Withdrawn
<1>4. Stories' /\ Marks' /\ Gifts'
  <2>1. \A u \in Turns \ InFlight(s) : turn'[u] = turn[u]
    BY <1>2
  <2>2. \A u \in InFlight(s) : /\ Phase(turn'[u]) /\ ~Flying(turn'[u])
                               /\ turn'[u].of = s /\ turn'[u].pc # "new"
                               /\ ~(turn'[u].pc = "memory" /\ ~turn'[u].failed)
    BY <1>0, <1>1, <1>2 DEF Flying, Waits
  <2> QED BY <2>1, <2>2, <1>2, <1>3, SessionCloses
<1>5. Asking'
  BY <1>3, CancelledIs DEF IInv, Asking, Pending
<1> QED BY <1>4, <1>5 DEF IInv

LEMMA PipeStep ==
  ASSUME IInv, NEW s \in Sessions, PipeCloses(s)
  PROVE  IInv'
<1>0. turn \in [Turns -> Turn] /\ \A u \in Turns : Phase(turn[u])
  BY DEF IInv, Stories
<1>1. \A u \in Turns : turn'[u] = turn[u] \/ turn'[u] = [turn[u] EXCEPT !.reply = "closed"]
  BY DEF PipeCloses
<1>2. \A u \in Turns : /\ Phase(turn'[u]) /\ turn'[u].of = turn[u].of
                       /\ turn'[u].pc = turn[u].pc /\ turn'[u].failed = turn[u].failed
  <2> SUFFICES ASSUME NEW u \in Turns
               PROVE  /\ Phase(turn'[u]) /\ turn'[u].of = turn[u].of
                      /\ turn'[u].pc = turn[u].pc /\ turn'[u].failed = turn[u].failed
    OBVIOUS
  <2>1. CASE turn'[u] = turn[u]
    BY <2>1, <1>0
  <2>2. CASE turn'[u] = [turn[u] EXCEPT !.reply = "closed"]
    BY <2>2, <1>0 DEF Phase, Turn, Waits
  <2> QED BY <1>1, <2>1, <2>2
<1>3. Stories'
  BY <1>0, <1>2 DEF PipeCloses, Stories, Phase
<1>4. Settled
  BY <1>2 DEF PipeCloses, Settled, Flying, IInv, Marks
<1>5. Marks' /\ Gifts'
  BY <1>2, <1>4, SettledKeeps, NothingGiven DEF IInv, PipeCloses
<1>6. Asking'
  BY DEF IInv, Asking, Pending, PipeCloses
<1> QED BY <1>3, <1>5, <1>6 DEF IInv

\* Steps that touch the permissions only.
LEMMA RequestStep ==
  ASSUME IInv, Asking', UNCHANGED <<up, flag, cored, turn, door, cores, overlapped, midturn>>
  PROVE  IInv'
BY DEF IInv, Stories, Marks, Alone, Gifts, Flying, Phase

LEMMA AsksStep ==
  ASSUME IInv, NEW r \in Requests, NEW s \in Sessions, Asks(r, s)
  PROVE  IInv'
<1>1. [of |-> s, late |-> s \notin up] \in Request
  BY DEF Request
<1>2. request' = [request EXCEPT ![r] = [of |-> s, late |-> s \notin up]] /\ up' = up /\ piped' = piped
  BY DEF Asks
<1>3. Asking'
  BY <1>1, <1>2 DEF IInv, Asking, Pending
<1> QED BY <1>3, RequestStep DEF Asks

LEMMA RespondsStep ==
  ASSUME IInv, NEW r \in Requests, Responds(r)
  PROVE  IInv'
<1>1. Asking'
  BY DEF IInv, Asking, Responds, Request, Pending, NoRequest
<1> QED BY <1>1, RequestStep DEF Responds

LEMMA CancelStep ==
  ASSUME IInv, NEW s \in Sessions, Cancel(s)
  PROVE  IInv'
<1>1. Asking'
  BY CancelledIs DEF IInv, Asking, Cancel, Pending
<1> QED BY <1>1, RequestStep DEF Cancel

\* The changes of configuration touch nothing the others speak of.
Reconfigures ==
  \/ \E s \in Sessions : SetsLumemMode(s) \/ \E c \in Changes : SetsConfig(c, s)
  \/ \E c \in Changes : ConfigAnswered(c) \/ ConfigFails(c)

LEMMA ReconfiguresStep == ASSUME IInv, Reconfigures PROVE IInv'
<1>1. UNCHANGED <<up, piped, flag, cored, turn, request, door, cores, overlapped>>
  BY DEF Reconfigures, SetsLumemMode, SetsConfig, ConfigAnswered, ConfigFails
<1> QED BY <1>1 DEF IInv, Stories, Marks, Alone, Gifts, Asking, Pending, Flying, Phase

\* No turn that is alone is in flight where the mark is off.
LEMMA UnoccupiedIs ==
  ASSUME IInv, NEW s \in Sessions, Unoccupied(s)
  PROVE  InFlight(s) \subseteq overlapped
BY InFlightIs DEF IInv, Marks, Unoccupied

LEMMA ChangingStep == ASSUME IInv, Changing, Reconfigures PROVE Changing'
<1>1. CASE \E s \in Sessions : SetsLumemMode(s)
  BY <1>1, UnoccupiedIs DEF Changing, SetsLumemMode
<1>2. ASSUME NEW s \in Sessions, NEW c \in Changes, SetsConfig(c, s)
      PROVE  Changing'
  <2>1. [of |-> s, ahead |-> InFlight(s)] \in Change
    BY InFlightIs DEF Change
  <2>2. InFlight(s) \subseteq overlapped
    BY <1>2, UnoccupiedIs DEF SetsConfig
  <2> QED BY <1>2, <2>1, <2>2 DEF Changing, SetsConfig
<1>3. NoChange \in Change /\ NoChange.ahead = {}
  BY DEF NoChange, Change
<1>4. ASSUME NEW c \in Changes, ConfigAnswered(c) PROVE Changing'
  BY <1>3, <1>4 DEF Changing, ConfigAnswered
<1>5. ASSUME NEW c \in Changes, ConfigFails(c) PROVE Changing'
  BY <1>3, <1>5 DEF Changing, ConfigFails
<1> QED BY <1>1, <1>2, <1>4, <1>5 DEF Reconfigures

LEMMA UpdateSteps ==
  ASSUME IInv, UpdateStarts \/ UpdateGoesOn
  PROVE  IInv'
<1>1. /\ door' \in {"open", "held", "leaving"} /\ (door = "open" => flag = {})
      /\ UNCHANGED <<up, piped, flag, cored, turn, request, cores, overlapped, midturn>>
  BY DEF UpdateStarts, UpdateGoesOn
<1>2. door = "open" => \A t \in Turns : Flying(turn[t]) => t \in overlapped
  BY <1>1 DEF IInv, Marks
<1>3. Marks'
  BY <1>1, <1>2 DEF IInv, Marks, Alone, Flying
<1> QED BY <1>1, <1>3 DEF IInv, Stories, Gifts, Asking, Pending, Phase, Flying

LEMMA NextInv == ASSUME IInv, [Next]_vars PROVE IInv'
<1>1. CASE \E t \in Turns, s \in Sessions : Prompt(t, s)
  BY <1>1, PromptStep
<1>2. CASE \E t \in Turns : Answered(t)
  <2>1. PICK t \in Turns : Answered(t)
    BY <1>2
  <2>2. CASE \E block \in BOOLEAN : BudgetAnswers(t, block)
    BY <2>2, BudgetStep
  <2>3. CASE \E found \in BOOLEAN : MemoryAnswers(t, found)
    BY <2>3, MemoryStep
  <2>4. CASE Continue(t)
    BY <2>4, ContinueOneStep, GraceStep DEF Continue
  <2> QED BY <2>1, <2>2, <2>3, <2>4 DEF Answered
<1>3. CASE \E t \in Turns, kind \in {"answer", "error"} : Replies(t, kind)
  BY <1>3, RepliesStep
<1>4. CASE \E r \in Requests : Responds(r) \/ \E s \in Sessions : Asks(r, s)
  BY <1>4, RespondsStep, AsksStep
<1>5. CASE \E s \in Sessions : Cancel(s) \/ Exit(s) \/ PipeCloses(s)
  BY <1>5, CancelStep, ExitStep, PipeStep
<1>8. CASE Reconfigures
  BY <1>8, ReconfiguresStep
<1>6. CASE UpdateStarts \/ UpdateGoesOn
  BY <1>6, UpdateSteps
<1>7. CASE UNCHANGED vars
  BY <1>7 DEF vars, IInv, Stories, Marks, Alone, Gifts, Asking, Pending, Phase, Flying
<1> QED BY <1>1, <1>2, <1>3, <1>4, <1>5, <1>6, <1>7, <1>8 DEF Next, Reconfigures

\* Every other step leaves the changes alone, and overlapped only grows.
LEMMA ChangingNext == ASSUME IInv, Changing, [Next]_vars PROVE Changing'
<1>1. CASE Reconfigures
  BY <1>1, ChangingStep
<1>2. CASE ~Reconfigures
  <2>1. UNCHANGED <<change, midturn>> /\ overlapped \subseteq overlapped'
    BY <1>2 DEF Next, vars, Reconfigures, Prompt, Answered, BudgetAnswers, MemoryAnswers, Continue,
              Replies, Responds, Asks, Cancel, Exit, PipeCloses, UpdateStarts, UpdateGoesOn
  <2> QED BY <2>1 DEF Changing
<1> QED BY <1>1, <1>2

LEMMA Invariance == Spec => [](IInv /\ Changing)
<1>1. IInv /\ Changing /\ [Next]_vars => (IInv /\ Changing)'
  BY NextInv, ChangingNext
<1>2. Init => IInv /\ Changing
  BY InitInv DEF Init, Changing, Change, NoChange
<1> QED BY <1>1, <1>2, PTL DEF Spec

-----------------------------------------------------------------------------
(* The theorems. *)

\* Types: what each variable and each turn may hold; only a live session is
\* marked.
THEOREM TypeCorrect == Spec => []TypeOK
<1>1. IInv /\ Changing => TypeOK
  BY DEF IInv, Stories, Marks, Gifts, Asking, Changing, TypeOK, Phase
<1> QED BY <1>1, Invariance, PTL

\* A prompt that was not refused is told as one question and one closing, in
\* any order of answer, exit, closing of the pipe and grace
\* (AcpManager.ts:1446-1488, 2683-2730).
THEOREM OneClosing == Spec => []StoryOfATurn
<1>1. IInv => StoryOfATurn
  <2> SUFFICES ASSUME IInv, NEW t \in Turns
               PROVE  /\ turn[t].told \in {<<>>, Question, Ending, Failure}
                      /\ turn[t].result = "refused" => turn[t].told = <<>>
                      /\ turn[t].result = "ended" => turn[t].told = Ending
                      /\ turn[t].result = "failed" => turn[t].told = Failure
    BY DEF StoryOfATurn, Question, Ending, Failure
  <2>1. Phase(turn[t]) /\ turn[t] \in Turn
    BY DEF IInv, Stories, Phase
  <2> QED BY <2>1 DEF Phase, Turn, Waits
<1> QED BY <1>1, Invariance, PTL

\* The mark of the turn in flight is never left behind, and a turn that has its
\* session for itself always has it (AcpManager.ts:1388, 1452, 1484, 2699).
THEOREM MarkIsTrue == Spec => []MarkTellsOfATurn
<1>1. IInv => MarkTellsOfATurn
  BY InFlightIs DEF IInv, Marks, MarkTellsOfATurn
<1> QED BY <1>1, Invariance, PTL

\* No update runs over a turn that has its session for itself, and no change of
\* configuration is let in under it: what is written under it was asked for
\* before it began (update/auto.ts:89-93, AcpManager.ts:1333, 1364, 2448-2501).
THEOREM TurnsAreLeftAlone == Spec => []NothingUnderATurn
<1>1. IInv /\ Changing => NothingUnderATurn
  BY InFlightIs DEF IInv, Marks, Changing, NothingUnderATurn
<1> QED BY <1>1, Invariance, PTL

\* The permissions of an agent that exited are withdrawn (AcpManager.ts:2633).
THEOREM ButtonsDie == Spec => []NoDeadButtons
<1>1. IInv => NoDeadButtons
  BY DEF IInv, Asking, Pending, NoDeadButtons
<1> QED BY <1>1, Invariance, PTL

\* The memory enters a conversation once where prompts come one at a time
\* (AcpManager.ts:1401-1417).
THEOREM OneMemory == Spec => []MemoryGoesOnce
<1>1. IInv => MemoryGoesOnce
  BY DEF IInv, Gifts, MemoryGoesOnce
<1> QED BY <1>1, Invariance, PTL
=============================================================================
