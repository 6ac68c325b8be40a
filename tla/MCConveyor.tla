----------------------------- MODULE MCConveyor -----------------------------
(***************************************************************************)
(* Conveyor on small instances: people, crashes and the agents' own moves  *)
(* are given a budget, so that counters stay bounded and every behaviour   *)
(* ends in a stretch where only the daemon acts.                           *)
(***************************************************************************)
EXTENDS ConveyorSafety, TLC

CONSTANTS
    Opening,      \* the columns cards start in
    FirstModes,   \* the autonomy of the workspace at the start
    Drags,        \* the columns a person drags a card into
    Choices,      \* the columns a person chooses in the menu
    Switches,     \* what a person does to the switch of a card
    ModeChanges,  \* what a person does to the switch of the workspace
    Touches,      \* bound: actions of people
    Crashes,      \* bound: crashes
    AgentReviews  \* bound: `review` posted by agents

ASSUME MCAssumption ==
    /\ Drags \subseteq Statuses /\ Choices \subseteq Statuses
    /\ Switches \subseteq {"inherit", "off"} /\ ModeChanges \subseteq Modes
    /\ Touches \in Nat /\ Crashes \in Nat /\ AgentReviews \in Nat

VARIABLE left     \* what remains of each bound

mcvars == <<vars, left>>

Spend(what) == left[what] > 0 /\ left' = [left EXCEPT ![what] = @ - 1]

MCInit ==
    /\ Init
    /\ mode \in FirstModes
    /\ \A t \in Tasks : task[t].status \in Opening
    /\ left = [touches |-> Touches, crashes |-> Crashes, reviews |-> AgentReviews]

MCPerson ==
    \/ \E t \in Tasks, status \in Drags : Move(t, status)
    \/ \E t \in Tasks, status \in Choices : PersonSetsStatus(t, status)
    \/ \E t \in Tasks, autonomy \in Switches : SetAutonomy(t, autonomy)
    \/ \E new \in ModeChanges : SetMode(new)
    \/ \E c \in Clients, t \in Tasks : Send(c, t)
    \/ \E s \in Sessions : Chat(s)

MCNext ==
    \/ Daemon /\ UNCHANGED left
    \/ MCPerson /\ Spend("touches")
    \/ Crash /\ Spend("crashes")
    \/ (\E t \in Tasks : AgentSaysReview(t)) /\ Spend("reviews")

MCSpec == MCInit /\ [][MCNext]_mcvars
FairSpec == MCSpec /\ DaemonFairness /\ AgentsObeyCancel
DaemonFairSpec == MCSpec /\ DaemonFairness

\* Which adapter process a conversation runs in makes no difference.
SessionSymmetry == Permutations(Sessions)

-----------------------------------------------------------------------------
\* What people and crashes have done so far.
Interventions == (Touches - left.touches) + (Crashes - left.crashes)

\* The ceiling of returns, with what the rest of the world can add to it: a crash
\* that comes between a return and the block it asks for, and a person who turns a
\* stopped card on again, cost one more return each (conveyor.ts, bounce and block).
ReturnsBounded ==
    \A t \in Tasks : task[t].bounces <= MAX_BOUNCES + 1 + Interventions
=============================================================================
