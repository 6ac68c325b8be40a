------------------------------- MODULE Clones -------------------------------
(***************************************************************************)
(* Adding a project from an address: `runCloneJob` and what it moves on    *)
(* disk (routers/project.ts, git/clone.ts, workspace-layout.ts), over the  *)
(* jobs of CloneJobs and the table of projects of one workspace, with the  *)
(* death of the daemon and the boot sweep (boot/reconcile.ts).             *)
(*                                                                         *)
(* A run is one detached asynchronous function.  It is cut into actions at *)
(* the awaits that reach the disk or the git process; a rename and the     *)
(* code after it are two actions (Rename, Renamed), because a request can  *)
(* come between the system call and the continuation.                      *)
(*                                                                         *)
(* A name is a number: the one after n is n with the next suffix.  Every   *)
(* name is also a directory, the home of the project, with the repository  *)
(* and the temporaries of the clones inside.                               *)
(***************************************************************************)
EXTENDS CloneJobs, FiniteSets

CONSTANTS
    LastName,    \* bound: names are 1 .. LastName
    Attempts,    \* the loop of registerCloned
    Elsewhere    \* the path of a repository registered by path

ASSUME CloneAssumption ==
    /\ LastName \in Nat
    /\ Attempts \in Nat \ {0}
    /\ None \notin Jobs \cup Nat
    /\ Elsewhere \notin Nat \cup {None}

VARIABLES
    run,     \* one `runCloneJob` per job
    temp,    \* the home in which the temporary of a job lies
    repo,    \* whose bytes are in the repository directory of each home
    homes,   \* the homes that exist
    row,     \* the table of projects: the path registered under each name
    up,      \* the daemon is running
    rivals   \* history: jobs whose run was alive together with another

diskVars == <<temp, repo, homes>>
vars == <<storeVars, run, diskVars, row, up, rivals>>

Names == 1 .. LastName

Steps == {"prepare", "git", "origin", "resolve", "relocate", "rename", "renamed",
          "register", "retry", "move", "finish", "dropTemp", "remove", "settle"}

\* wanted: the name asked for; base: the one the registration started from;
\* name: the current one; landed: the home to delete if anything fails.
RunRows ==
    [pc: Steps \cup {"none", "ended"}, wanted: Names \cup {None},
     base: Names \cup {None}, name: Names \cup {None}, landed: Names \cup {None},
     attempt: 0 .. Attempts, abandoned: SUBSET Names]

NewRun(name) ==
    [pc |-> "prepare", wanted |-> name, base |-> name, name |-> name,
     landed |-> None, attempt |-> 0, abandoned |-> {}]

Alive == {j \in Jobs : run[j].pc \in Steps}

Init ==
    /\ StoreInit
    /\ run = [j \in Jobs |-> [NewRun(None) EXCEPT !.pc = "none"]]
    /\ temp = [j \in Jobs |-> None]
    /\ repo = [n \in Names |-> None]
    /\ homes = {}
    /\ row = [n \in Names |-> None]
    /\ up = TRUE
    /\ rivals = {}

-----------------------------------------------------------------------------
(* The disk and the table *)

\* resolveAvailableName
Available(base, name) ==
    /\ name \in Names
    /\ name >= base
    /\ row[name] = None
    /\ \A n \in base .. name - 1 : row[n] # None

\* prepareCloneTarget makes the home, then refuses a repository that has something.
Occupied(name) == repo[name] # None

\* rename(2) onto a missing or an empty directory of an existing home.
CanLand(name) == name \in homes /\ repo[name] = None

IsEmptyHome(name) == repo[name] = None /\ \A j \in Jobs : temp[j] # name

\* collectEmptyProjectHome on each home the run moved away from.
Swept(abandoned) == homes \ {n \in abandoned : IsEmptyHome(n)}

\* The two unique indexes: the name in the workspace, and the path.
Duplicate(name, path) == row[name] # None \/ \E n \in Names : row[n] = path

Goto(j, pc) == run' = [run EXCEPT ![j].pc = pc]

-----------------------------------------------------------------------------
(* Requests *)

Clone(j, name) ==
    /\ up
    /\ row[name] = None
    /\ Start(j)
    /\ run' = [run EXCEPT ![j] = NewRun(name)]
    /\ rivals' = IF Alive = {} THEN rivals ELSE rivals \cup Alive \cup {j}
    /\ UNCHANGED <<diskVars, row, up>>

\* The abort rejects the wait for git; past git nobody listens to it.
Cancel(j) ==
    /\ MayCancel(j)
    /\ LET after == [job[j] EXCEPT !.state = "cancelled"] IN
         /\ job' = [job EXCEPT ![j] = after]
         /\ PublishNow(j, after)
    /\ run' = IF run[j].pc = "git" THEN [run EXCEPT ![j].pc = "dropTemp"] ELSE run
    /\ UNCHANGED <<diskVars, row, up, rivals>>

AddByPath(name) ==
    /\ up
    /\ row[name] = None
    /\ row' = [row EXCEPT ![name] = Elsewhere]
    /\ UNCHANGED <<storeVars, run, diskVars, up, rivals>>

\* A new name for the row; the directory keeps the old one.
RenameProject(name, new) ==
    /\ up
    /\ row[name] # None
    /\ row[new] = None
    /\ row' = [row EXCEPT ![new] = row[name], ![name] = None]
    /\ UNCHANGED <<storeVars, run, diskVars, up, rivals>>

-----------------------------------------------------------------------------
(* The clone, up to the rename *)

Prepare(j) ==
    LET name == run[j].name IN
    /\ run[j].pc = "prepare"
    /\ homes' = homes \cup {name}
    /\ Goto(j, IF Occupied(name) THEN "remove"
               ELSE IF job[j].state = "cancelled" THEN "dropTemp" ELSE "git")
    /\ temp' = IF Occupied(name) THEN temp ELSE [temp EXCEPT ![j] = name]
    /\ UNCHANGED <<storeVars, repo, row, up, rivals>>

\* A line of git's progress.
GitReports(j) ==
    /\ run[j].pc = "git"
    /\ Progress(j)
    /\ UNCHANGED <<run, diskVars, row, up, rivals>>

\* git exits, or says nothing for DEFAULT_SILENCE_MS.
GitEnds(j) ==
    /\ run[j].pc = "git"
    /\ \E pc \in {"origin", "dropTemp"} : Goto(j, pc)
    /\ UNCHANGED <<storeVars, diskVars, row, up, rivals>>

RewriteOrigin(j) ==
    /\ run[j].pc = "origin"
    /\ \E pc \in {"resolve", "dropTemp"} : Goto(j, pc)
    /\ UNCHANGED <<storeVars, diskVars, row, up, rivals>>

ResolveTarget(j) ==
    /\ run[j].pc = "resolve"
    /\ \E name \in Names :
         /\ Available(run[j].wanted, name)
         /\ run' = [run EXCEPT ![j] =
                      IF name = run[j].name
                      THEN [run[j] EXCEPT !.pc = "rename"]
                      ELSE [run[j] EXCEPT !.pc = "relocate", !.name = name,
                                          !.abandoned = {run[j].name}]]
    /\ UNCHANGED <<storeVars, diskVars, row, up, rivals>>

\* `landed` is told before the rename that is about to happen.
Relocate(j) ==
    LET name == run[j].name IN
    /\ run[j].pc = "relocate"
    /\ homes' = homes \cup {name}
    /\ run' = [run EXCEPT ![j] =
                 IF Occupied(name)
                 THEN [run[j] EXCEPT !.pc = "dropTemp"]
                 ELSE [run[j] EXCEPT !.pc = "rename", !.landed = name]]
    /\ UNCHANGED <<storeVars, temp, repo, row, up, rivals>>

Rename(j) ==
    LET name == run[j].name IN
    /\ run[j].pc = "rename"
    /\ IF CanLand(name)
       THEN /\ repo' = [repo EXCEPT ![name] = j]
            /\ temp' = [temp EXCEPT ![j] = None]
            /\ Goto(j, "renamed")
       ELSE Goto(j, "dropTemp") /\ UNCHANGED <<repo, temp>>
    /\ UNCHANGED <<storeVars, homes, row, up, rivals>>

DropTemp(j) ==
    /\ run[j].pc = "dropTemp"
    /\ temp' = [temp EXCEPT ![j] = None]
    /\ Goto(j, "remove")
    /\ UNCHANGED <<storeVars, repo, homes, row, up, rivals>>

-----------------------------------------------------------------------------
(* The registration *)

\* A job cancelled after git ended is refused here, and the error cleans up.
Renamed(j) ==
    LET landed == [run[j] EXCEPT !.landed = run[j].name, !.base = run[j].name] IN
    /\ run[j].pc = "renamed"
    /\ IF job[j].state = "cancelled"
       THEN /\ run' = [run EXCEPT ![j] = [landed EXCEPT !.pc = "remove"]]
            /\ UNCHANGED storeVars
       ELSE /\ run' = [run EXCEPT ![j] = [landed EXCEPT !.pc = "register"]]
            /\ Becomes(j, "registering")
    /\ UNCHANGED <<diskVars, row, up, rivals>>

\* Not a repository, or one without a branch to resolve.
RegisterRefused(j) ==
    /\ run[j].pc = "register"
    /\ Goto(j, "remove")
    /\ UNCHANGED <<storeVars, diskVars, row, up, rivals>>

RegisterDuplicate(j) ==
    /\ run[j].pc = "register"
    /\ Duplicate(run[j].name, run[j].landed)
    /\ run' = [run EXCEPT ![j].pc = "retry", ![j].attempt = @ + 1]
    /\ UNCHANGED <<storeVars, diskVars, row, up, rivals>>

Register(j) ==
    /\ run[j].pc = "register"
    /\ Occupied(run[j].landed)
    /\ ~Duplicate(run[j].name, run[j].landed)
    /\ row' = [row EXCEPT ![run[j].name] = run[j].landed]
    /\ Goto(j, "finish")
    /\ UNCHANGED <<storeVars, diskVars, up, rivals>>

\* The next free name, from the one the registration started with.
Retry(j) ==
    /\ run[j].pc = "retry"
    /\ \E name \in Names :
         /\ Available(run[j].base, name)
         /\ homes' = homes \cup {name}
         /\ run' = [run EXCEPT ![j].name = name,
                               ![j].pc = IF Occupied(name) THEN "remove" ELSE "move"]
    /\ UNCHANGED <<storeVars, temp, repo, row, up, rivals>>

\* MUTANT of Moved: the loop has no end.
MovedAgain(j, landed) ==
    [run[j] EXCEPT !.landed = landed, !.abandoned = @ \cup {run[j].landed},
                   !.pc = "register"]

\* The last attempt throws once it has moved.
Moved(j, landed) ==
    [run[j] EXCEPT !.landed = landed, !.abandoned = @ \cup {run[j].landed},
                   !.pc = IF run[j].attempt = Attempts THEN "remove" ELSE "register"]

\* MUTANT of Move: the caller is not told where the bytes went.
MoveUntold(j) ==
    LET from == run[j].landed  to == run[j].name IN
    /\ run[j].pc = "move"
    /\ IF CanLand(to) /\ Occupied(from)
       THEN /\ repo' = [repo EXCEPT ![to] = repo[from], ![from] = None]
            /\ run' = [run EXCEPT ![j] = Moved(j, from)]
       ELSE Goto(j, "remove") /\ UNCHANGED repo
    /\ UNCHANGED <<storeVars, temp, homes, row, up, rivals>>

Move(j) ==
    LET from == run[j].landed  to == run[j].name IN
    /\ run[j].pc = "move"
    /\ IF CanLand(to) /\ Occupied(from)
       THEN /\ repo' = [repo EXCEPT ![to] = repo[from], ![from] = None]
            /\ run' = [run EXCEPT ![j] = Moved(j, to)]
       ELSE Goto(j, "remove") /\ UNCHANGED repo
    /\ UNCHANGED <<storeVars, temp, homes, row, up, rivals>>

Finish(j) ==
    /\ run[j].pc = "finish"
    /\ homes' = Swept(run[j].abandoned)
    /\ Becomes(j, "done")
    /\ Goto(j, "ended")
    /\ UNCHANGED <<temp, repo, row, up, rivals>>

-----------------------------------------------------------------------------
(* The way out of an error *)

\* MUTANT of Remove: it deletes what was planned.
RemovePlanned(j) ==
    /\ run[j].pc = "remove"
    /\ repo' = [repo EXCEPT ![run[j].wanted] = None]
    /\ Goto(j, "settle")
    /\ UNCHANGED <<storeVars, temp, homes, row, up, rivals>>

\* Whatever is in the directory the run believes to be its own.
Remove(j) ==
    /\ run[j].pc = "remove"
    /\ repo' = IF run[j].landed = None THEN repo
               ELSE [repo EXCEPT ![run[j].landed] = None]
    /\ Goto(j, "settle")
    /\ UNCHANGED <<storeVars, temp, homes, row, up, rivals>>

\* MUTANT of Settle: a cancelled job is marked as failed on top.
SettleFails(j) ==
    /\ run[j].pc = "settle"
    /\ homes' = Swept(run[j].abandoned)
    /\ Becomes(j, "failed")
    /\ Goto(j, "ended")
    /\ UNCHANGED <<temp, repo, row, up, rivals>>

Settle(j) ==
    /\ run[j].pc = "settle"
    /\ homes' = Swept(run[j].abandoned)
    /\ IF job[j].state = "cancelled" THEN UNCHANGED storeVars ELSE Becomes(j, "failed")
    /\ Goto(j, "ended")
    /\ UNCHANGED <<temp, repo, row, up, rivals>>

-----------------------------------------------------------------------------
(* The daemon dies, and comes back *)

Crash ==
    /\ up
    /\ up' = FALSE
    /\ job' = [j \in Jobs |-> IF job[j].state = "unused" THEN job[j]
                              ELSE [job[j] EXCEPT !.state = "lost"]]
    /\ run' = [j \in Jobs |-> IF j \in Alive THEN [run[j] EXCEPT !.pc = "ended"] ELSE run[j]]
    /\ sub' = [s \in Subs |-> IF sub[s].at = "new" THEN sub[s] ELSE Gone]
    /\ paced' = {}
    /\ timer' = {}
    /\ UNCHANGED <<diskVars, row, rivals>>

\* MUTANT of Boot: no sweep.
BootUnswept ==
    /\ ~up
    /\ up' = TRUE
    /\ UNCHANGED <<storeVars, run, diskVars, row, rivals>>

\* reconcileClones: everything with the prefix goes, and nothing else.
Boot ==
    /\ ~up
    /\ up' = TRUE
    /\ temp' = [j \in Jobs |-> None]
    /\ UNCHANGED <<storeVars, run, repo, homes, row, rivals>>

-----------------------------------------------------------------------------
Run(j) ==
    \/ Prepare(j) \/ GitEnds(j) \/ RewriteOrigin(j) \/ ResolveTarget(j)
    \/ Relocate(j) \/ Rename(j) \/ DropTemp(j) \/ Renamed(j)
    \/ RegisterRefused(j) \/ RegisterDuplicate(j) \/ Register(j)
    \/ Retry(j) \/ Move(j) \/ Finish(j) \/ Remove(j) \/ Settle(j)

Pace(j) ==
    /\ WindowElapses(j) \/ TimerFires(j)
    /\ UNCHANGED <<run, diskVars, row, up, rivals>>

Stream(s) ==
    /\ AskNext(s) \/ Wake(s) \/ CloseStream(s)
    /\ UNCHANGED <<run, diskVars, row, up, rivals>>

Watch(s) ==
    /\ Abort(s) \/ \E j \in Jobs : Subscribe(s, j)
    /\ UNCHANGED <<run, diskVars, row, up, rivals>>

Next ==
    \/ \E j \in Jobs : Run(j) \/ Pace(j) \/ GitReports(j) \/ Cancel(j)
    \/ \E j \in Jobs, name \in Names : Clone(j, name)
    \/ \E name \in Names : AddByPath(name)
    \/ \E name, new \in Names : RenameProject(name, new)
    \/ \E s \in Subs : Stream(s) \/ Watch(s)
    \/ Crash \/ Boot

\* The daemon goes on by itself; nobody is obliged to ask for anything.  A
\* client that is still there takes what it is given.
Fairness ==
    /\ \A j \in Jobs : WF_vars(Run(j)) /\ WF_vars(Pace(j))
    /\ \A s \in Subs : WF_vars(Stream(s))

Spec == Init /\ [][Next]_vars /\ Fairness

-----------------------------------------------------------------------------
(* What must hold *)

TypeOK ==
    /\ StoreTypeOK
    /\ run \in [Jobs -> RunRows]
    /\ temp \in [Jobs -> Names \cup {None}]
    /\ repo \in [Names -> Jobs \cup {None}]
    /\ homes \subseteq Names
    /\ row \in [Names -> Names \cup {Elsewhere, None}]
    /\ up \in BOOLEAN
    /\ rivals \subseteq Jobs

\* A clone that failed or was cancelled, at whatever await the error or the
\* cancellation found it, ends with no temporary and no repository of its own
\* on disk, moved or not (the `catch` of runCloneJob and of cloneRepository).
\* Only a cancelled run can be alive together with another (`rivals`), and
\* then one of them may carry off the bytes of the other.
NothingLeftBehind ==
    \A j \in Jobs \ rivals :
        run[j].pc = "ended" /\ job[j].state \in {"failed", "cancelled"} =>
            temp[j] = None /\ \A n \in Names : repo[n] # j

\* While the daemon is up, every temporary on disk belongs to a run that will
\* still delete or rename it: what a crash left is swept before (reconcileClones).
TempsAreOwned == up => \A j \in Jobs : temp[j] # None => j \in Alive

\* As long as no two runs were alive together, a person who was told
\* "cancelled" never sees the project appear, also when the cancellation came
\* between the rename and the registration.  (With three alive, the bytes of a
\* cancelled one may land under a row whose own bytes another's cleanup took.)
CancelledIsNotRegistered ==
    rivals = {} =>
        \A j \in Jobs : job[j].state = "cancelled" =>
            \A n, path \in Names : row[n] = path => repo[path] # j

\* As long as no two runs were alive together, a registered path holds a
\* repository, and a job that is done has put its own there: no cleanup
\* deletes what a row points at.
RegisteredIsThere ==
    rivals = {} =>
        /\ \A n \in Names : row[n] \in Names => Occupied(row[n])
        /\ \A j \in Jobs : job[j].state = "done" =>
              /\ repo[run[j].landed] = j
              /\ \E n \in Names : row[n] = run[j].landed

\* What a stream has yielded last and what is queued for it.
Told(s) == <<sub[s].got>> \o sub[s].queue

\* What a stream was given last is the job as it is, or a trailing delivery is
\* pending: no progress, and no end, is lost to the window (`publish`).
NothingLostToTheWindow ==
    \A s \in Subs, j \in Jobs : Listening(s, j) =>
        \/ Told(s)[Len(Told(s))] = job[j]
        \/ j \in timer

\* A stream tells the story in order: lines never go back, and nothing comes
\* after the terminal snapshot.
StoryInOrder ==
    \A s \in Subs :
        \A i \in 1 .. Len(Told(s)) - 1 :
            /\ Told(s)[i].state \notin TERMINAL
            /\ Told(s)[i].line <= Told(s)[i + 1].line

\* Every clone comes to an end, unless the daemon dies.
RunsEnd == \A j \in Jobs : (j \in Alive) ~> (j \notin Alive)

\* Every stream ends and releases its listener: with the job, or when the
\* client went away, even if it did so while the generator was not waiting.
StreamsEnd == \A s \in Subs : (sub[s].at # "new") ~> (sub[s].at = "gone")
=============================================================================
