------------------------------ MODULE MCClones ------------------------------
(***************************************************************************)
(* Clones on small instances: what people and git do without end, and      *)
(* crashes, have a budget.                                                 *)
(***************************************************************************)
EXTENDS Clones, TLC

CONSTANTS
    Asked,      \* the names people type, here and for a project by path
    Adds,       \* bound: projects registered by path
    Renames,    \* bound: projects renamed
    Lines,      \* bound: lines of progress git prints
    Crashes     \* bound: deaths of the daemon

VARIABLE left   \* what remains of each bound

mcvars == <<vars, left>>

Spend(what) == left[what] > 0 /\ left' = [left EXCEPT ![what] = @ - 1]

MCInit ==
    /\ Init
    /\ left = [adds |-> Adds, renames |-> Renames, lines |-> Lines, crashes |-> Crashes]

\* Which id a job gets makes no difference.
FreshId == CHOOSE j \in Jobs : job[j].state = "unused" \/ \A k \in Jobs : job[k].state # "unused"

MCBudgeted ==
    \/ Spend("adds") /\ \E name \in Asked : AddByPath(name)
    \/ Spend("renames") /\ \E name, new \in Names : RenameProject(name, new)
    \/ Spend("lines") /\ \E j \in Jobs : GitReports(j)
    \/ Spend("crashes") /\ Crash

MCFree ==
    \/ \E j \in Jobs : Run(j) \/ Pace(j) \/ Cancel(j)
    \/ \E name \in Asked : Clone(FreshId, name)
    \/ \E s \in Subs : Stream(s) \/ Watch(s)
    \/ Boot

MCNext == MCBudgeted \/ (MCFree /\ UNCHANGED left)

MCSpec == MCInit /\ [][MCNext]_mcvars /\ Fairness
=============================================================================
