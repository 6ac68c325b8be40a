----------------------------- MODULE FreshReads -----------------------------
(***************************************************************************)
(* What the cache of pull requests promises to whoever asks it             *)
(* (pr/PrCache.ts, the comments of `want` and `served` and of `start`).    *)
(*                                                                         *)
(* The host has a history of what it would have answered, one entry per    *)
(* change.  `floor` is how long that history was when somebody last said   *)
(* that what is known of a project is no longer good.  A question is       *)
(* answered either by a failure or by an entry no older than the floor at  *)
(* the moment of the question.  How the cache finds that entry, how many   *)
(* reads it makes and who shares them is not said here.                    *)
(***************************************************************************)
EXTENDS Naturals, Sequences

CONSTANTS Projects, Callers, PrStates

VARIABLES history,  \* history[p]: what the host would have said, oldest first
          floor,    \* floor[p]: its length at the last invalidation
          question  \* question[c]: what caller c asked and was told

freshVars == <<history, floor, question>>

NoQuestion == [state |-> "none"]

AskedFor(p, f) == [state |-> "asked", project |-> p, floor |-> f]

ToldOf(p, f, failed, snap) ==
  [state |-> "told", project |-> p, floor |-> f, failed |-> failed, snap |-> snap]

\* What a question about p with floor f may be told.
Tellings(p, f) ==
  {ToldOf(p, f, TRUE, i) : i \in 0 .. Len(history[p])}
    \cup {ToldOf(p, f, FALSE, i) : i \in (f .. Len(history[p])) \ {0}}

FreshInit ==
  /\ history \in [Projects -> {<<s>> : s \in PrStates}]
  /\ floor = [p \in Projects |-> 0]
  /\ question = [c \in Callers |-> NoQuestion]

\* The host moves on: a push, a check that ends, a merge.
HostMoves(p, s) ==
  /\ history' = [history EXCEPT ![p] = Append(@, s)]
  /\ UNCHANGED <<floor, question>>

\* What is known of p stops being good enough.
Outdated(p) ==
  /\ floor' = [floor EXCEPT ![p] = Len(history[p])]
  /\ UNCHANGED <<history, question>>

\* A question, answered later or at once, and the one that outdates as it asks.
Asks(c, p) ==
  /\ question[c].state # "asked"
  /\ question' = [question EXCEPT ![c] = AskedFor(p, floor[p])]
  /\ UNCHANGED <<history, floor>>

AsksAndHears(c, p) ==
  /\ question[c].state # "asked"
  /\ \E t \in Tellings(p, floor[p]) : question' = [question EXCEPT ![c] = t]
  /\ UNCHANGED <<history, floor>>

OutdatesAndAsks(c, p) ==
  /\ question[c].state # "asked"
  /\ floor' = [floor EXCEPT ![p] = Len(history[p])]
  /\ question' = [question EXCEPT ![c] = AskedFor(p, Len(history[p]))]
  /\ UNCHANGED history

\* The one who asked is done with what it was told, perhaps because it wrote.
Drops(c) ==
  /\ question[c].state = "told"
  /\ question' = [question EXCEPT ![c] = NoQuestion]
  /\ \/ UNCHANGED floor
     \/ LET p == question[c].project IN floor' = [floor EXCEPT ![p] = Len(history[p])]
  /\ UNCHANGED history

\* One read answers everybody who was waiting for it.
Hear(C) ==
  /\ \A c \in C : question[c].state = "asked"
  /\ \A c \in Callers \ C : question'[c] = question[c]
  /\ \A c \in C : question'[c] \in Tellings(question[c].project, question[c].floor)
  /\ DOMAIN question' = Callers
  /\ UNCHANGED <<history, floor>>

FreshNext ==
  \/ \E p \in Projects : Outdated(p) \/ \E s \in PrStates : HostMoves(p, s)
  \/ \E c \in Callers, p \in Projects :
        Asks(c, p) \/ AsksAndHears(c, p) \/ OutdatesAndAsks(c, p)
  \/ \E c \in Callers : Drops(c)
  \/ \E C \in SUBSET Callers : Hear(C)

FreshSpec == FreshInit /\ [][FreshNext]_freshVars
=============================================================================
