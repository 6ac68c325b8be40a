---------------------------- MODULE ClonesProofs ----------------------------
(***************************************************************************)
(* For any number of jobs, streams, names and attempts: the types of       *)
(* Clones; that no temporary outlives its run or the next boot; that a     *)
(* clone that did not end well leaves nothing of its own behind; that,     *)
(* while runs come one at a time, the table of projects never points at    *)
(* what was deleted, nor at what a cancelled clone brought; and that every *)
(* stream tells the story of its job in order, and is given all of it.     *)
(*                                                                         *)
(* The order of the module: what an operation of the store does; the types *)
(* (TypeInv); what each step changes, field by field, so that the record   *)
(* updates are expanded once; then the three layers of the inductive       *)
(* invariant, Orderly, Traceable and Standing, each resting on those       *)
(* before it; and last, on the types alone, the invariant of the streams.  *)
(***************************************************************************)
EXTENDS Clones, SequenceTheorems, TLAPS

-----------------------------------------------------------------------------
(* The store *)

\* A job with another state, or one more line, is a job.
LEMMA JobRowTypes ==
    ASSUME NEW r \in JobRows
    PROVE  /\ \A state \in CloneStates \cup {"lost"} : [r EXCEPT !.state = state] \in JobRows
           /\ \A state \in CloneStates : [r EXCEPT !.state = state] \in Snapshots
           /\ [r EXCEPT !.line = @ + 1] \in JobRows
           /\ r.state \in CloneStates => r \in Snapshots
           /\ r.state = "cloning" => [r EXCEPT !.line = @ + 1] \in Snapshots
<1>1. r.line + 1 \in Nat
  BY DEF JobRows
<1> QED
  BY <1>1 DEF JobRows, Snapshots, CloneStates

\* What an emission leaves of a stream is a stream.
LEMMA EmittedType ==
    ASSUME sub \in [Subs -> SubRows], NEW j, NEW snapshot \in Snapshots
    PROVE  Emitted(j, snapshot) \in [Subs -> SubRows]
<1> SUFFICES ASSUME NEW s \in Subs
             PROVE  [sub[s] EXCEPT !.queue = Append(sub[s].queue, snapshot),
                                   !.woken = (sub[s].at = "waiting")] \in SubRows
  BY DEF Emitted
<1>1. sub[s] \in SubRows
  OBVIOUS
<1>2. Append(sub[s].queue, snapshot) \in Seq(Snapshots)
  BY <1>1 DEF SubRows
<1> QED
  BY <1>1, <1>2 DEF SubRows

\* The store: its types, and a delivery is pending only for a job that exists.
StoreOK == StoreTypeOK /\ \A j \in timer : job[j].state \in CloneStates

\* Publishing keeps the types of what it writes.
LEMMA PublishTypes ==
    ASSUME StoreOK, NEW j \in Jobs, NEW snapshot \in Snapshots,
           PublishPaced(j, snapshot) \/ PublishNow(j, snapshot)
    PROVE  paced' \subseteq Jobs /\ timer' \subseteq timer \cup {j} /\ sub' \in [Subs -> SubRows]
BY EmittedType DEF StoreOK, StoreTypeOK, PublishPaced, PublishNow

\* A transition changes the state of one job, and keeps the types.
LEMMA BecomesStep ==
    ASSUME StoreOK, NEW j \in Jobs, NEW state \in CloneStates, Becomes(j, state)
    PROVE  /\ StoreOK'
           /\ job'[j].state = state
           /\ \A k \in Jobs \ {j} : job'[k] = job[k]
<1>1. job[j] \in JobRows
  BY DEF StoreOK, StoreTypeOK
<1> DEFINE after == [job[j] EXCEPT !.state = state]
<1>2. after \in JobRows /\ after \in Snapshots /\ after.state = state
  BY <1>1, JobRowTypes DEF JobRows
<1>3. job' = [job EXCEPT ![j] = after] /\ (PublishNow(j, after) \/ PublishPaced(j, after))
  BY DEF Becomes
<1>4. paced' \subseteq Jobs /\ timer' \subseteq timer \cup {j} /\ sub' \in [Subs -> SubRows]
  BY <1>2, <1>3, PublishTypes
<1> HIDE DEF after
<1> QED
  BY <1>2, <1>3, <1>4 DEF StoreOK, StoreTypeOK

\* So does a cancellation.
LEMMA CancelStep ==
    ASSUME StoreOK, NEW j \in Jobs, Cancel(j)
    PROVE  /\ StoreOK'
           /\ job[j].state = "cloning"
           /\ job'[j].state = "cancelled"
           /\ \A k \in Jobs \ {j} : job'[k] = job[k]
<1>1. job[j] \in JobRows
  BY DEF StoreOK, StoreTypeOK
<1> DEFINE after == [job[j] EXCEPT !.state = "cancelled"]
<1>2. after \in JobRows /\ after \in Snapshots /\ after.state = "cancelled"
  BY <1>1, JobRowTypes DEF JobRows, CloneStates, TERMINAL
<1>3. job' = [job EXCEPT ![j] = after] /\ PublishNow(j, after) /\ job[j].state = "cloning"
  BY DEF Cancel, MayCancel
<1>4. paced' \subseteq Jobs /\ timer' \subseteq timer \cup {j} /\ sub' \in [Subs -> SubRows]
  BY <1>2, <1>3, PublishTypes
<1> HIDE DEF after
<1> QED
  BY <1>2, <1>3, <1>4 DEF StoreOK, StoreTypeOK, CloneStates, TERMINAL

\* A line of progress changes no state.
LEMMA ProgressStep ==
    ASSUME StoreOK, NEW j \in Jobs, Progress(j)
    PROVE  StoreOK' /\ \A k \in Jobs : job'[k].state = job[k].state
<1>1. job[j] \in JobRows /\ job[j].state = "cloning"
  BY DEF StoreOK, StoreTypeOK, Progress
<1> DEFINE after == [job[j] EXCEPT !.line = @ + 1]
<1>2. after \in JobRows /\ after \in Snapshots /\ after.state = job[j].state
  BY <1>1, JobRowTypes DEF JobRows
<1>3. job' = [job EXCEPT ![j] = after] /\ PublishPaced(j, after)
  BY DEF Progress
<1>4. paced' \subseteq Jobs /\ timer' \subseteq timer \cup {j} /\ sub' \in [Subs -> SubRows]
  BY <1>2, <1>3, PublishTypes
<1> HIDE DEF after
<1> QED
  BY <1>1, <1>2, <1>3, <1>4 DEF StoreOK, StoreTypeOK, CloneStates

\* A job that starts was not in use, and none was active.
LEMMA StartStep ==
    ASSUME StoreOK, NEW j \in Jobs, Start(j)
    PROVE  /\ StoreOK'
           /\ job[j].state = "unused" /\ job'[j].state = "cloning"
           /\ \A k \in Jobs \ {j} : job'[k] = job[k]
<1>1. [job[j] EXCEPT !.state = "cloning"] \in JobRows
  BY JobRowTypes DEF StoreOK, StoreTypeOK, CloneStates
<1> QED
  BY <1>1 DEF Start, StoreOK, StoreTypeOK, JobRows

\* The generator's next turn leaves a stream.
LEMMA DrainedType ==
    ASSUME NEW r \in SubRows
    PROVE  Drained(r) \in SubRows
<1>1. CASE r.queue # <<>>
  <2>1. Head(r.queue) \in Snapshots /\ Tail(r.queue) \in Seq(Snapshots)
    BY <1>1 DEF SubRows
  <2> QED
    BY <1>1, <2>1 DEF Drained, SubRows
<1>2. CASE r.queue = <<>>
  BY <1>2 DEF Drained, SubRows
<1> QED
  BY <1>1, <1>2

\* A stream nobody called, and one that has ended.
LEMMA FreshSubs == NewSub \in SubRows /\ Gone \in SubRows
<1>1. <<>> \in Seq(Snapshots)
  OBVIOUS
<1>2. NewSub \in SubRows
  BY <1>1 DEF NewSub, SubRows
<1> QED
  BY <1>2 DEF Gone, SubRows

\* The steps of a stream touch no job.
LEMMA StreamStep ==
    ASSUME StoreOK, NEW s \in Subs, Stream(s) \/ Watch(s)
    PROVE  StoreOK' /\ job' = job
<1>0. sub[s] \in SubRows /\ Gone \in SubRows
  BY FreshSubs DEF StoreOK, StoreTypeOK
<1>1. CASE AskNext(s)
  BY <1>0, <1>1, DrainedType DEF AskNext, StoreOK, StoreTypeOK
<1>2. CASE Wake(s)
  <2>1. [sub[s] EXCEPT !.woken = FALSE] \in SubRows
    BY <1>0 DEF SubRows
  <2>2. Drained([sub[s] EXCEPT !.woken = FALSE]) \in SubRows
    BY <2>1, DrainedType
  <2> QED
    BY <1>0, <1>2, <2>2 DEF Wake, StoreOK, StoreTypeOK
<1>3. CASE CloseStream(s)
  BY <1>0, <1>3 DEF CloseStream, StoreOK, StoreTypeOK
<1>4. CASE Abort(s)
  <2>1. [sub[s] EXCEPT !.aborted = TRUE, !.woken = sub[s].woken \/ sub[s].at = "waiting"] \in SubRows
    BY <1>0 DEF SubRows
  <2> QED
    BY <1>4, <2>1 DEF Abort, StoreOK, StoreTypeOK
<1>5. ASSUME NEW j \in Jobs, Subscribe(s, j) PROVE StoreOK' /\ job' = job
  <2>1. job[j] \in Snapshots
    BY <1>5, JobRowTypes DEF Subscribe, StoreOK, StoreTypeOK
  <2>2. [sub[s] EXCEPT !.at = "yielded", !.job = j, !.got = job[j]] \in SubRows
    BY <1>0, <2>1 DEF SubRows
  <2> QED
    BY <1>5, <2>2 DEF Subscribe, StoreOK, StoreTypeOK
<1> QED
  BY <1>1, <1>2, <1>3, <1>4, <1>5 DEF Stream, Watch

\* The window and its timer touch no job.
LEMMA PaceStep ==
    ASSUME StoreOK, NEW j \in Jobs, Pace(j)
    PROVE  StoreOK' /\ job' = job
<1>1. CASE WindowElapses(j)
  BY <1>1 DEF WindowElapses, StoreOK, StoreTypeOK
<1>2. CASE TimerFires(j)
  <2>1. job[j] \in Snapshots
    BY <1>2, JobRowTypes DEF TimerFires, StoreOK, StoreTypeOK
  <2> QED
    BY <1>2, <2>1, EmittedType DEF TimerFires, StoreOK, StoreTypeOK
<1> QED
  BY <1>1, <1>2 DEF Pace

-----------------------------------------------------------------------------
(* Types *)

\* What a run carries at each of its steps: it has a name, a registration has
\* a place on disk, and is tried only while an attempt is left.
CarriesOn ==
    \A j \in Jobs :
        /\ run[j].pc # "none" => run[j].name \in Names
        /\ run[j].pc \in {"register", "retry", "move", "finish"} => run[j].landed \in Names
        /\ run[j].pc = "register" => run[j].attempt < Attempts
        /\ run[j].pc \in {"none", "prepare", "git", "origin", "resolve", "relocate",
                         "rename", "renamed"} => run[j].attempt = 0

TypeInv == TypeOK /\ StoreOK /\ CarriesOn

\* A run that goes on, or begins, is a run.
LEMMA RunTypes ==
    ASSUME NEW r \in RunRows, NEW name \in Names, r.name \in Names, NEW pc \in Steps \cup {"ended"}
    PROVE  /\ [r EXCEPT !.pc = pc] \in RunRows
           /\ [r EXCEPT !.pc = pc, !.name = name, !.abandoned = {r.name}] \in RunRows
           /\ [r EXCEPT !.name = name, !.pc = pc] \in RunRows
           /\ [r EXCEPT !.pc = pc, !.landed = r.name] \in RunRows
           /\ r.landed \in Names =>
                [r EXCEPT !.landed = name, !.abandoned = r.abandoned \cup {r.landed},
                          !.pc = pc] \in RunRows
<1>1. r.landed \in Names => r.abandoned \cup {r.landed} \in SUBSET Names
  BY DEF RunRows
<1>2. {r.name} \in SUBSET Names
  OBVIOUS
<1> QED
  BY <1>1, <1>2 DEF RunRows

LEMMA NewRunType ==
    ASSUME NEW name \in Names
    PROVE  NewRun(name) \in RunRows
<1>1. 0 \in 0 .. Attempts
  BY CloneAssumption
<1> QED
  BY <1>1 DEF RunRows, NewRun, Steps

\* The rest of the state, apart from the jobs and the runs.
PlacesOK ==
    /\ temp \in [Jobs -> Names \cup {None}]
    /\ repo \in [Names -> Jobs \cup {None}]
    /\ homes \subseteq Names
    /\ row \in [Names -> Names \cup {Elsewhere, None}]
    /\ up \in BOOLEAN
    /\ rivals \subseteq Jobs

\* What one run carries.
Carries(r) ==
    /\ r.pc # "none" => r.name \in Names
    /\ r.pc \in {"register", "retry", "move", "finish"} => r.landed \in Names
    /\ r.pc = "register" => r.attempt < Attempts
    /\ r.pc \in {"none", "prepare", "git", "origin", "resolve", "relocate",
                 "rename", "renamed"} => r.attempt = 0

LEMMA RunOf ==
    ASSUME TypeInv, NEW j \in Jobs
    PROVE  run[j] \in RunRows /\ Carries(run[j]) /\ run \in [Jobs -> RunRows]
BY DEF TypeInv, TypeOK, CarriesOn, Carries

LEMMA PlacesOf ==
    ASSUME TypeInv
    PROVE  PlacesOK /\ StoreOK
BY DEF TypeInv, TypeOK, PlacesOK

\* A step of one run is typed if its new row is.
LEMMA RunStep ==
    ASSUME TypeInv, NEW j \in Jobs, NEW r \in RunRows, Carries(r),
           run' = [run EXCEPT ![j] = r], PlacesOK', StoreOK'
    PROVE  TypeInv'
<1>1. run' \in [Jobs -> RunRows]
  BY RunOf
<1>2. \A k \in Jobs : Carries(run'[k])
  BY RunOf
<1>3. CarriesOn'
  BY <1>2 DEF CarriesOn, Carries
<1> QED
  BY <1>1, <1>3 DEF TypeInv, TypeOK, PlacesOK, StoreOK, StoreTypeOK

\* So is a step of none.
LEMMA OtherStep ==
    ASSUME TypeInv, run' = run, PlacesOK', StoreOK'
    PROVE  TypeInv'
BY DEF TypeInv, TypeOK, PlacesOK, StoreOK, StoreTypeOK, CarriesOn

\* Going to another step keeps what a run carries, if the step asks for no more.
LEMMA GotoStep ==
    ASSUME TypeInv, NEW j \in Jobs, NEW pc \in Steps \cup {"ended"}, Goto(j, pc),
           run[j].pc # "none", Carries([run[j] EXCEPT !.pc = pc]), PlacesOK', StoreOK'
    PROVE  TypeInv'
<1> DEFINE r == [run[j] EXCEPT !.pc = pc]
<1>1. r \in RunRows
  BY RunOf, RunTypes DEF Carries
<1>2. run' = [run EXCEPT ![j] = r]
  BY DEF Goto
<1>3. Carries(r)
  OBVIOUS
<1> HIDE DEF r
<1> QED
  BY <1>1, <1>2, <1>3, RunStep

LEMMA StoreUnchanged ==
    ASSUME StoreOK, UNCHANGED storeVars
    PROVE  StoreOK'
BY DEF StoreOK, StoreTypeOK, storeVars

\* The steps of a run up to the rename.
LEMMA CloningTypes ==
    ASSUME TypeInv, NEW j \in Jobs,
           \/ Prepare(j) \/ GitEnds(j) \/ RewriteOrigin(j) \/ ResolveTarget(j)
           \/ Relocate(j) \/ Rename(j) \/ DropTemp(j)
    PROVE  TypeInv'
<1> USE RunOf, PlacesOf
<1>0. StoreOK'
  BY StoreUnchanged DEF Prepare, GitEnds, RewriteOrigin, ResolveTarget, Relocate,
                        Rename, DropTemp, storeVars
<1>1. CASE Prepare(j)
  <2>1. PlacesOK'
    BY <1>1 DEF Prepare, PlacesOK, Carries
  <2>2. \E pc \in {"remove", "dropTemp", "git"} : Goto(j, pc)
    BY <1>1 DEF Prepare
  <2> QED
    BY <1>0, <1>1, <2>1, <2>2, GotoStep DEF Prepare, Carries, Steps, RunRows
<1>2. CASE GitEnds(j)
  <2>1. PlacesOK'
    BY <1>2 DEF GitEnds, PlacesOK, diskVars
  <2> QED
    BY <1>0, <1>2, <2>1, GotoStep DEF GitEnds, Carries, Steps, RunRows
<1>3. CASE RewriteOrigin(j)
  <2>1. PlacesOK'
    BY <1>3 DEF RewriteOrigin, PlacesOK, diskVars
  <2> QED
    BY <1>0, <1>3, <2>1, GotoStep DEF RewriteOrigin, Carries, Steps, RunRows
<1>4. CASE ResolveTarget(j)
  <2>1. PlacesOK'
    BY <1>4 DEF ResolveTarget, PlacesOK, diskVars
  <2>2. PICK name \in Names : run' = [run EXCEPT ![j] =
                      IF name = run[j].name
                      THEN [run[j] EXCEPT !.pc = "rename"]
                      ELSE [run[j] EXCEPT !.pc = "relocate", !.name = name,
                                          !.abandoned = {run[j].name}]]
    BY <1>4 DEF ResolveTarget
  <2>3. run[j].pc = "resolve" /\ run[j].name \in Names
    BY <1>4 DEF ResolveTarget, Carries
  <2> DEFINE r == IF name = run[j].name
                  THEN [run[j] EXCEPT !.pc = "rename"]
                  ELSE [run[j] EXCEPT !.pc = "relocate", !.name = name,
                                      !.abandoned = {run[j].name}]
  <2>4. r \in RunRows
    BY <2>3, RunTypes DEF Steps
  <2>5. Carries(r)
    BY <2>3 DEF Carries, RunRows
  <2> HIDE DEF r
  <2> QED
    BY <1>0, <2>1, <2>2, <2>4, <2>5, RunStep DEF r
<1>5. CASE Relocate(j)
  <2>1. run[j].pc = "relocate" /\ run[j].name \in Names
    BY <1>5 DEF Relocate, Carries
  <2>2. PlacesOK'
    BY <1>5, <2>1 DEF Relocate, PlacesOK
  <2> DEFINE r == IF Occupied(run[j].name)
                  THEN [run[j] EXCEPT !.pc = "dropTemp"]
                  ELSE [run[j] EXCEPT !.pc = "rename", !.landed = run[j].name]
  <2>3. r \in RunRows
    BY <2>1, RunTypes DEF Steps
  <2>4. Carries(r)
    BY <2>1 DEF Carries, RunRows
  <2>5. run' = [run EXCEPT ![j] = r]
    BY <1>5 DEF Relocate
  <2> HIDE DEF r
  <2> QED
    BY <1>0, <2>2, <2>3, <2>4, <2>5, RunStep
<1>6. CASE Rename(j)
  <2>1. PlacesOK'
    BY <1>6 DEF Rename, PlacesOK
  <2>2. \E pc \in {"renamed", "dropTemp"} : Goto(j, pc)
    BY <1>6 DEF Rename
  <2> QED
    BY <1>0, <1>6, <2>1, <2>2, GotoStep DEF Rename, Carries, Steps, RunRows
<1>7. CASE DropTemp(j)
  <2>1. PlacesOK'
    BY <1>7 DEF DropTemp, PlacesOK
  <2> QED
    BY <1>0, <1>7, <2>1, GotoStep DEF DropTemp, Carries, Steps, RunRows
<1> QED
  BY <1>1, <1>2, <1>3, <1>4, <1>5, <1>6, <1>7

\* The steps of the registration, and of the way out.
LEMMA RegisteringTypes ==
    ASSUME TypeInv, NEW j \in Jobs,
           \/ Renamed(j) \/ RegisterRefused(j) \/ RegisterDuplicate(j) \/ Register(j)
           \/ Retry(j) \/ Move(j) \/ Finish(j) \/ Remove(j) \/ Settle(j)
    PROVE  TypeInv'
<1> USE RunOf, PlacesOf
<1>1. CASE Renamed(j)
  <2>0. "registering" \in CloneStates
    BY DEF CloneStates
  <2>1. run[j].pc = "renamed" /\ run[j].name \in Names /\ run[j].attempt = 0
    BY <1>1 DEF Renamed, Carries
  <2>2. PlacesOK'
    BY <1>1 DEF Renamed, PlacesOK, diskVars
  <2>3. StoreOK'
    BY <1>1, <2>0, BecomesStep, StoreUnchanged DEF Renamed
  <2>4. PICK pc \in {"remove", "register"} :
          run' = [run EXCEPT ![j] =
                    [[run[j] EXCEPT !.landed = run[j].name, !.base = run[j].name] EXCEPT !.pc = pc]]
    BY <1>1 DEF Renamed
  <2> DEFINE r == [[run[j] EXCEPT !.landed = run[j].name, !.base = run[j].name] EXCEPT !.pc = pc]
  <2>5. r \in RunRows
    <3>1. [run[j] EXCEPT !.landed = run[j].name, !.base = run[j].name] \in RunRows
      BY <2>1 DEF RunRows
    <3> QED
      BY <3>1 DEF RunRows, Steps
  <2>6. Carries(r)
    BY <2>1, CloneAssumption DEF Carries, RunRows
  <2> HIDE DEF r
  <2> QED
    BY <2>2, <2>3, <2>4, <2>5, <2>6, RunStep DEF r
<1>2. CASE RegisterRefused(j)
  <2>1. PlacesOK' /\ StoreOK'
    BY <1>2, StoreUnchanged DEF RegisterRefused, PlacesOK, diskVars
  <2> QED
    BY <1>2, <2>1, GotoStep DEF RegisterRefused, Carries, Steps, RunRows
<1>3. CASE RegisterDuplicate(j)
  <2>1. PlacesOK' /\ StoreOK'
    BY <1>3, StoreUnchanged DEF RegisterDuplicate, PlacesOK, diskVars
  <2> DEFINE r == [run[j] EXCEPT !.pc = "retry", !.attempt = run[j].attempt + 1]
  <2>2. run[j].pc = "register" /\ run[j].attempt < Attempts /\ run[j].landed \in Names /\ run[j].name \in Names
    BY <1>3 DEF RegisterDuplicate, Carries
  <2>3. run[j].attempt + 1 \in 0 .. Attempts
    BY <2>2, CloneAssumption DEF RunRows
  <2>4. r \in RunRows
    BY <2>3 DEF RunRows, Steps
  <2>5. Carries(r)
    BY <2>2 DEF Carries, RunRows
  <2>6. run' = [run EXCEPT ![j] = r]
    BY <1>3 DEF RegisterDuplicate
  <2> HIDE DEF r
  <2> QED
    BY <2>1, <2>4, <2>5, <2>6, RunStep
<1>4. CASE Register(j)
  <2>1. PlacesOK' /\ StoreOK'
    BY <1>4, StoreUnchanged DEF Register, PlacesOK, diskVars, Carries
  <2> QED
    BY <1>4, <2>1, GotoStep DEF Register, Carries, Steps, RunRows
<1>5. CASE Retry(j)
  <2>1. PICK name \in Names :
          /\ homes' = homes \cup {name}
          /\ run' = [run EXCEPT ![j].name = name,
                                ![j].pc = IF Occupied(name) THEN "remove" ELSE "move"]
    BY <1>5 DEF Retry
  <2>2. PlacesOK' /\ StoreOK'
    BY <1>5, <2>1, StoreUnchanged DEF Retry, PlacesOK
  <2>3. run[j].pc = "retry" /\ run[j].landed \in Names /\ run[j].name \in Names
    BY <1>5 DEF Retry, Carries
  <2> DEFINE pc == IF Occupied(name) THEN "remove" ELSE "move"
  <2> DEFINE r == [run[j] EXCEPT !.name = name, !.pc = pc]
  <2>4. r \in RunRows
    BY <2>3, RunTypes DEF Steps
  <2>5. Carries(r)
    BY <2>3 DEF Carries, RunRows
  <2>6. run' = [run EXCEPT ![j] = r]
    BY <2>1
  <2> HIDE DEF r
  <2> QED
    BY <2>2, <2>4, <2>5, <2>6, RunStep
<1>6. CASE Move(j)
  <2>1. run[j].pc = "move" /\ run[j].landed \in Names /\ run[j].name \in Names
    BY <1>6 DEF Move, Carries
  <2>2. PlacesOK' /\ StoreOK'
    BY <1>6, <2>1, StoreUnchanged DEF Move, PlacesOK
  <2>3. CASE Goto(j, "remove")
    BY <2>1, <2>2, <2>3, GotoStep DEF Carries, Steps, RunRows
  <2>4. CASE run' = [run EXCEPT ![j] = Moved(j, run[j].name)]
    <3>1. Moved(j, run[j].name) \in RunRows
      BY <2>1, RunTypes DEF Moved, Steps
    <3>2. Carries(Moved(j, run[j].name))
      BY <2>1, CloneAssumption DEF Carries, RunRows, Moved
    <3> QED
      BY <2>2, <2>4, <3>1, <3>2, RunStep
  <2> QED
    BY <1>6, <2>3, <2>4 DEF Move
<1>7. CASE Finish(j)
  <2>1. StoreOK'
    BY <1>7, BecomesStep DEF Finish, CloneStates, TERMINAL
  <2>2. PlacesOK'
    BY <1>7 DEF Finish, PlacesOK, Swept
  <2> QED
    BY <1>7, <2>1, <2>2, GotoStep DEF Finish, Carries, Steps, RunRows
<1>8. CASE Remove(j)
  <2>1. PlacesOK' /\ StoreOK'
    BY <1>8, StoreUnchanged DEF Remove, PlacesOK
  <2> QED
    BY <1>8, <2>1, GotoStep DEF Remove, Carries, Steps, RunRows
<1>9. CASE Settle(j)
  <2>1. StoreOK'
    BY <1>9, BecomesStep, StoreUnchanged DEF Settle, CloneStates, TERMINAL
  <2>2. PlacesOK'
    BY <1>9 DEF Settle, PlacesOK, Swept
  <2> QED
    BY <1>9, <2>1, <2>2, GotoStep DEF Settle, Carries, Steps, RunRows
<1> QED
  BY <1>1, <1>2, <1>3, <1>4, <1>5, <1>6, <1>7, <1>8, <1>9

\* What people ask for, and what git says.
LEMMA RequestTypes ==
    ASSUME TypeInv,
           \/ \E j \in Jobs : GitReports(j) \/ Cancel(j)
           \/ \E j \in Jobs, name \in Names : Clone(j, name)
           \/ \E name \in Names : AddByPath(name)
           \/ \E name, new \in Names : RenameProject(name, new)
    PROVE  TypeInv'
<1> USE RunOf, PlacesOf
<1>1. ASSUME NEW j \in Jobs, GitReports(j) PROVE TypeInv'
  <2>1. PlacesOK' /\ StoreOK' /\ run' = run
    BY <1>1, ProgressStep DEF GitReports, PlacesOK, diskVars
  <2> QED
    BY <2>1, OtherStep
<1>2. ASSUME NEW j \in Jobs, Cancel(j) PROVE TypeInv'
  <2>1. PlacesOK' /\ StoreOK'
    BY <1>2, CancelStep DEF Cancel, PlacesOK, diskVars
  <2>2. CASE run[j].pc = "git"
    <3>1. Goto(j, "dropTemp")
      BY <1>2, <2>2 DEF Cancel, Goto
    <3> QED
      BY <2>1, <2>2, <3>1, GotoStep DEF Carries, Steps, RunRows
  <2>3. CASE run[j].pc # "git"
    BY <1>2, <2>1, <2>3, OtherStep DEF Cancel
  <2> QED
    BY <2>2, <2>3
<1>3. ASSUME NEW j \in Jobs, NEW name \in Names, Clone(j, name) PROVE TypeInv'
  <2>1. PlacesOK' /\ StoreOK'
    BY <1>3, StartStep DEF Clone, PlacesOK, diskVars, Alive
  <2>2. NewRun(name) \in RunRows
    BY NewRunType
  <2>3. Carries(NewRun(name))
    BY DEF Carries, NewRun
  <2> QED
    BY <1>3, <2>1, <2>2, <2>3, RunStep DEF Clone
<1>4. ASSUME NEW name \in Names, AddByPath(name) PROVE TypeInv'
  <2>1. PlacesOK' /\ StoreOK' /\ run' = run
    BY <1>4, StoreUnchanged DEF AddByPath, PlacesOK, diskVars
  <2> QED
    BY <2>1, OtherStep
<1>5. ASSUME NEW name \in Names, NEW new \in Names, RenameProject(name, new) PROVE TypeInv'
  <2>1. PlacesOK' /\ StoreOK' /\ run' = run
    BY <1>5, StoreUnchanged DEF RenameProject, PlacesOK, diskVars
  <2> QED
    BY <2>1, OtherStep
<1> QED
  BY <1>1, <1>2, <1>3, <1>4, <1>5

\* Streams, timers, and the daemon's death and return.
LEMMA OtherTypes ==
    ASSUME TypeInv,
           \/ \E j \in Jobs : Pace(j)
           \/ \E s \in Subs : Stream(s) \/ Watch(s)
           \/ Crash \/ Boot \/ UNCHANGED vars
    PROVE  TypeInv'
<1> USE RunOf, PlacesOf
<1>1. ASSUME NEW j \in Jobs, Pace(j) PROVE TypeInv'
  <2>1. PlacesOK' /\ StoreOK' /\ run' = run
    BY <1>1, PaceStep DEF Pace, PlacesOK, diskVars
  <2> QED
    BY <2>1, OtherStep
<1>2. ASSUME NEW s \in Subs, Stream(s) \/ Watch(s) PROVE TypeInv'
  <2>1. PlacesOK' /\ run' = run
    BY <1>2 DEF Stream, Watch, PlacesOK, diskVars
  <2>2. StoreOK'
    BY <1>2, StreamStep
  <2> QED
    BY <2>1, <2>2, OtherStep
<1>3. CASE Crash
  <2>1. PlacesOK'
    BY <1>3 DEF Crash, PlacesOK, diskVars
  <2>2. job' \in [Jobs -> JobRows]
    BY <1>3, JobRowTypes DEF Crash, StoreOK, StoreTypeOK
  <2>3. sub' \in [Subs -> SubRows]
    BY <1>3, FreshSubs DEF Crash, StoreOK, StoreTypeOK
  <2>4. StoreOK'
    BY <1>3, <2>2, <2>3 DEF Crash, StoreOK, StoreTypeOK
  <2>5. \A j \in Jobs : run'[j] \in RunRows /\ Carries(run'[j])
    <3> SUFFICES ASSUME NEW j \in Jobs PROVE run'[j] \in RunRows /\ Carries(run'[j])
      OBVIOUS
    <3>1. run[j] \in RunRows /\ Carries(run[j])
      OBVIOUS
    <3>2. CASE j \in Alive
      <4>1. run'[j] = [run[j] EXCEPT !.pc = "ended"] /\ run[j].name \in Names
        BY <1>3, <3>1, <3>2 DEF Crash, Alive, Carries, Steps
      <4>2. run'[j] \in RunRows
        BY <3>1, <4>1 DEF RunRows
      <4> QED
        BY <3>1, <4>1, <4>2 DEF Carries, RunRows
    <3>3. CASE j \notin Alive
      BY <1>3, <3>1, <3>3 DEF Crash
    <3> QED
      BY <3>2, <3>3
  <2>6. run' \in [Jobs -> RunRows]
    BY <1>3, <2>5 DEF Crash
  <2>7. CarriesOn'
    BY <2>5 DEF CarriesOn, Carries
  <2> QED
    BY <2>1, <2>4, <2>6, <2>7 DEF TypeInv, TypeOK, PlacesOK, StoreOK, StoreTypeOK
<1>4. CASE Boot
  <2>1. PlacesOK' /\ StoreOK' /\ run' = run
    BY <1>4, StoreUnchanged DEF Boot, PlacesOK
  <2> QED
    BY <2>1, OtherStep
<1>5. CASE UNCHANGED vars
  <2>1. PlacesOK' /\ StoreOK' /\ run' = run
    BY <1>5, StoreUnchanged DEF vars, PlacesOK, diskVars
  <2> QED
    BY <2>1, OtherStep
<1> QED
  BY <1>1, <1>2, <1>3, <1>4, <1>5

LEMMA TypeInvInit == Init => TypeInv
<1> SUFFICES ASSUME Init PROVE TypeInv
  OBVIOUS
<1>1. job \in [Jobs -> JobRows] /\ sub \in [Subs -> SubRows]
  BY FreshSubs DEF Init, StoreInit, JobRows
<1>2. StoreOK
  BY <1>1 DEF Init, StoreInit, StoreOK, StoreTypeOK
<1>3. [NewRun(None) EXCEPT !.pc = "none"] \in RunRows
  <2>1. 0 \in 0 .. Attempts
    BY CloneAssumption
  <2> QED
    BY <2>1 DEF NewRun, RunRows
<1>4. run \in [Jobs -> RunRows]
  BY <1>3 DEF Init
<1>5. CarriesOn
  BY DEF Init, CarriesOn, NewRun
<1>6. PlacesOK
  BY DEF Init, PlacesOK
<1> QED
  BY <1>2, <1>4, <1>5, <1>6 DEF TypeInv, TypeOK, PlacesOK, StoreOK

LEMMA TypeInvNext == TypeInv /\ [Next]_vars => TypeInv'
<1> SUFFICES ASSUME TypeInv, [Next]_vars PROVE TypeInv'
  OBVIOUS
<1>1. ASSUME NEW j \in Jobs, Run(j) PROVE TypeInv'
  BY <1>1, CloningTypes, RegisteringTypes DEF Run
<1> QED
  BY <1>1, RequestTypes, OtherTypes DEF Next

\* Types: in particular a registration never counts past its five attempts,
\* and every step after the rename has a home to delete if it fails.
THEOREM TypeCorrect == Spec => []TypeOK
<1>1. TypeInv => TypeOK
  BY DEF TypeInv
<1> QED
  BY <1>1, TypeInvInit, TypeInvNext, PTL DEF Spec

-----------------------------------------------------------------------------
(* One step of one run, field by field *)

\* Nothing of another job, nor of the daemon, is touched.
Only(j) ==
    /\ up' = up /\ rivals' = rivals
    /\ \A k \in Jobs \ {j} : run'[k] = run[k] /\ job'[k] = job[k] /\ temp'[k] = temp[k]

SameHome(j) == run'[j].name = run[j].name /\ run'[j].landed = run[j].landed

From(j, before, after) == run[j].pc = before /\ run'[j].pc \in after

LEMMA RunOnly ==
    ASSUME TypeInv, NEW j \in Jobs, Run(j)
    PROVE  Only(j)
<1>1. ASSUME NEW state \in CloneStates, Becomes(j, state)
      PROVE  \A k \in Jobs \ {j} : job'[k] = job[k]
  BY <1>1, PlacesOf, BecomesStep
<1>2. {"registering", "done", "failed"} \subseteq CloneStates
  BY DEF CloneStates, TERMINAL
<1>3. run \in [Jobs -> RunRows] /\ temp \in [Jobs -> Names \cup {None}]
  BY RunOf, PlacesOf DEF PlacesOK
<1>4. CASE \/ Prepare(j) \/ GitEnds(j) \/ RewriteOrigin(j) \/ ResolveTarget(j)
           \/ Relocate(j) \/ Rename(j) \/ DropTemp(j)
  BY <1>3, <1>4 DEF Only, Prepare, GitEnds, RewriteOrigin, ResolveTarget, Relocate,
       Rename, DropTemp, Goto, storeVars, diskVars
<1>5. CASE \/ RegisterRefused(j) \/ RegisterDuplicate(j) \/ Register(j)
           \/ Retry(j) \/ Move(j) \/ Remove(j)
  BY <1>3, <1>5 DEF Only, RegisterRefused, RegisterDuplicate, Register, Retry, Move,
       Remove, Goto, storeVars, diskVars
<1>6. CASE Renamed(j)
  BY <1>1, <1>2, <1>3, <1>6 DEF Only, Renamed, storeVars, diskVars
<1>7. CASE Finish(j) \/ Settle(j)
  BY <1>1, <1>2, <1>3, <1>7 DEF Only, Finish, Settle, Goto, storeVars
<1> QED
  BY <1>4, <1>5, <1>6, <1>7 DEF Run

\* Up to the rename.
LEMMA CloningEffect ==
    ASSUME TypeInv, NEW j \in Jobs
    PROVE  /\ Prepare(j) =>
                /\ From(j, "prepare", {"remove", "dropTemp", "git"}) /\ SameHome(j)
                /\ run'[j].pc = "remove" => temp'[j] = temp[j]
                /\ UNCHANGED <<job, repo, row>>
           /\ GitEnds(j) =>
                /\ From(j, "git", {"origin", "dropTemp"}) /\ SameHome(j)
                /\ UNCHANGED <<job, temp, repo, row>>
           /\ RewriteOrigin(j) =>
                /\ From(j, "origin", {"resolve", "dropTemp"}) /\ SameHome(j)
                /\ UNCHANGED <<job, temp, repo, row>>
           /\ ResolveTarget(j) =>
                /\ From(j, "resolve", {"rename", "relocate"})
                /\ run'[j].landed = run[j].landed
                /\ UNCHANGED <<job, temp, repo, row>>
           /\ Relocate(j) =>
                /\ From(j, "relocate", {"rename", "dropTemp"})
                /\ \/ run'[j].landed = run[j].landed
                   \/ run'[j].landed \in Names /\ repo[run'[j].landed] = None
                /\ UNCHANGED <<job, temp, repo, row>>
           /\ Rename(j) =>
                /\ From(j, "rename", {"renamed", "dropTemp"}) /\ SameHome(j)
                /\ run[j].name \in Names
                /\ run'[j].pc = "dropTemp" => UNCHANGED <<repo, temp>>
                /\ run'[j].pc = "renamed" =>
                     /\ repo[run[j].name] = None /\ temp'[j] = None
                     /\ repo' = [repo EXCEPT ![run[j].name] = j]
                /\ UNCHANGED <<job, row>>
           /\ DropTemp(j) =>
                /\ From(j, "dropTemp", {"remove"}) /\ SameHome(j)
                /\ temp'[j] = None
                /\ UNCHANGED <<job, repo, row>>
<1> USE RunOf, PlacesOf DEF From, SameHome, RunRows, PlacesOK, storeVars, diskVars, Goto
<1>1. ASSUME Prepare(j)
      PROVE  /\ From(j, "prepare", {"remove", "dropTemp", "git"}) /\ SameHome(j)
             /\ run'[j].pc = "remove" => temp'[j] = temp[j]
             /\ UNCHANGED <<job, repo, row>>
  BY <1>1 DEF Prepare
<1>2. ASSUME GitEnds(j)
      PROVE  /\ From(j, "git", {"origin", "dropTemp"}) /\ SameHome(j)
             /\ UNCHANGED <<job, temp, repo, row>>
  BY <1>2 DEF GitEnds
<1>3. ASSUME RewriteOrigin(j)
      PROVE  /\ From(j, "origin", {"resolve", "dropTemp"}) /\ SameHome(j)
             /\ UNCHANGED <<job, temp, repo, row>>
  BY <1>3 DEF RewriteOrigin
<1>4. ASSUME ResolveTarget(j)
      PROVE  /\ From(j, "resolve", {"rename", "relocate"})
             /\ run'[j].landed = run[j].landed
             /\ UNCHANGED <<job, temp, repo, row>>
  BY <1>4 DEF ResolveTarget
<1>5. ASSUME Relocate(j)
      PROVE  /\ From(j, "relocate", {"rename", "dropTemp"})
             /\ \/ run'[j].landed = run[j].landed
                \/ run'[j].landed \in Names /\ repo[run'[j].landed] = None
             /\ UNCHANGED <<job, temp, repo, row>>
  BY <1>5 DEF Relocate, Occupied, Carries
<1>6. ASSUME Rename(j)
      PROVE  /\ From(j, "rename", {"renamed", "dropTemp"}) /\ SameHome(j)
             /\ run[j].name \in Names
             /\ run'[j].pc = "dropTemp" => UNCHANGED <<repo, temp>>
             /\ run'[j].pc = "renamed" =>
                  /\ repo[run[j].name] = None /\ temp'[j] = None
                  /\ repo' = [repo EXCEPT ![run[j].name] = j]
             /\ UNCHANGED <<job, row>>
  BY <1>6 DEF Rename, CanLand, Carries
<1>7. ASSUME DropTemp(j)
      PROVE  /\ From(j, "dropTemp", {"remove"}) /\ SameHome(j)
             /\ temp'[j] = None
             /\ UNCHANGED <<job, repo, row>>
  BY <1>7 DEF DropTemp
<1> HIDE DEF From, SameHome, RunRows, PlacesOK, storeVars, diskVars, Goto
<1> QED
  BY <1>1, <1>2, <1>3, <1>4, <1>5, <1>6, <1>7

\* From the rename to the end.
LEMMA RegisteringEffect ==
    ASSUME TypeInv, NEW j \in Jobs
    PROVE  /\ Renamed(j) =>
                /\ From(j, "renamed", {"remove", "register"})
                /\ run'[j].landed = run[j].name
                /\ run'[j].pc = "remove" => job' = job
                /\ run'[j].pc = "register" => job'[j].state = "registering"
                /\ UNCHANGED <<temp, repo, row>>
           /\ RegisterRefused(j) =>
                /\ From(j, "register", {"remove"}) /\ SameHome(j)
                /\ UNCHANGED <<job, temp, repo, row>>
           /\ RegisterDuplicate(j) =>
                /\ From(j, "register", {"retry"}) /\ SameHome(j)
                /\ UNCHANGED <<job, temp, repo, row>>
           /\ Register(j) =>
                /\ From(j, "register", {"finish"}) /\ SameHome(j)
                /\ run[j].name \in Names /\ repo[run[j].landed] # None
                /\ row[run[j].name] = None
                /\ row' = [row EXCEPT ![run[j].name] = run[j].landed]
                /\ UNCHANGED <<job, temp, repo>>
           /\ Retry(j) =>
                /\ From(j, "retry", {"remove", "move"})
                /\ run'[j].landed = run[j].landed
                /\ UNCHANGED <<job, temp, repo, row>>
           /\ Move(j) =>
                /\ run[j].pc = "move"
                /\ \/ /\ run'[j].pc = "remove" /\ SameHome(j)
                      /\ repo' = repo
                   \/ /\ run'[j].pc \in {"remove", "register"}
                      /\ run'[j].landed = run[j].name /\ run[j].name \in Names
                      /\ repo[run[j].name] = None /\ repo[run[j].landed] # None
                      /\ repo' = [repo EXCEPT ![run[j].name] = repo[run[j].landed],
                                              ![run[j].landed] = None]
                /\ UNCHANGED <<job, temp, row>>
           /\ Finish(j) =>
                /\ From(j, "finish", {"ended"}) /\ SameHome(j)
                /\ job'[j].state = "done"
                /\ UNCHANGED <<temp, repo, row>>
           /\ Remove(j) =>
                /\ From(j, "remove", {"settle"}) /\ SameHome(j)
                /\ \/ run[j].landed = None /\ repo' = repo
                   \/ /\ run[j].landed \in Names
                      /\ repo' = [repo EXCEPT ![run[j].landed] = None]
                /\ UNCHANGED <<job, temp, row>>
           /\ Settle(j) =>
                /\ From(j, "settle", {"ended"}) /\ SameHome(j)
                /\ job'[j].state \in {"cancelled", "failed"}
                /\ UNCHANGED <<temp, repo, row>>
<1> USE RunOf, PlacesOf DEF From, SameHome, RunRows, PlacesOK, storeVars, diskVars, Goto
<1>1. ASSUME Renamed(j)
      PROVE  /\ From(j, "renamed", {"remove", "register"})
             /\ run'[j].landed = run[j].name
             /\ run'[j].pc = "remove" => job' = job
             /\ run'[j].pc = "register" => job'[j].state = "registering"
             /\ UNCHANGED <<temp, repo, row>>
  <2>1. "registering" \in CloneStates
    BY DEF CloneStates
  <2>2. Becomes(j, "registering") => job'[j].state = "registering"
    BY <2>1, BecomesStep
  <2>3. PICK pc \in {"remove", "register"} :
          /\ run' = [run EXCEPT ![j] =
                       [[run[j] EXCEPT !.landed = run[j].name, !.base = run[j].name] EXCEPT !.pc = pc]]
          /\ pc = "remove" => UNCHANGED storeVars
          /\ pc = "register" => Becomes(j, "registering")
    BY <1>1 DEF Renamed
  <2> DEFINE r == [[run[j] EXCEPT !.landed = run[j].name, !.base = run[j].name] EXCEPT !.pc = pc]
  <2>4. r.pc = pc /\ r.landed = run[j].name
    OBVIOUS
  <2>5. run'[j] = r
    BY <2>3
  <2> HIDE DEF r
  <2>6. run'[j].pc = pc /\ run'[j].landed = run[j].name
    BY <2>4, <2>5
  <2>7. run[j].pc = "renamed" /\ UNCHANGED <<temp, repo, row>>
    BY <1>1 DEF Renamed
  <2> QED
    BY <2>2, <2>3, <2>6, <2>7
<1>2. ASSUME RegisterRefused(j)
      PROVE  /\ From(j, "register", {"remove"}) /\ SameHome(j)
             /\ UNCHANGED <<job, temp, repo, row>>
  BY <1>2 DEF RegisterRefused
<1>3. ASSUME RegisterDuplicate(j)
      PROVE  /\ From(j, "register", {"retry"}) /\ SameHome(j)
             /\ UNCHANGED <<job, temp, repo, row>>
  BY <1>3 DEF RegisterDuplicate
<1>4. ASSUME Register(j)
      PROVE  /\ From(j, "register", {"finish"}) /\ SameHome(j)
             /\ run[j].name \in Names /\ repo[run[j].landed] # None
             /\ row[run[j].name] = None
             /\ row' = [row EXCEPT ![run[j].name] = run[j].landed]
             /\ UNCHANGED <<job, temp, repo>>
  BY <1>4 DEF Register, Occupied, Duplicate, Carries
<1>5. ASSUME Retry(j)
      PROVE  /\ From(j, "retry", {"remove", "move"})
             /\ run'[j].landed = run[j].landed
             /\ UNCHANGED <<job, temp, repo, row>>
  BY <1>5 DEF Retry
<1>6. ASSUME Move(j)
      PROVE  /\ run[j].pc = "move"
             /\ \/ /\ run'[j].pc = "remove" /\ SameHome(j)
                   /\ repo' = repo
                \/ /\ run'[j].pc \in {"remove", "register"}
                   /\ run'[j].landed = run[j].name /\ run[j].name \in Names
                   /\ repo[run[j].name] = None /\ repo[run[j].landed] # None
                   /\ repo' = [repo EXCEPT ![run[j].name] = repo[run[j].landed],
                                           ![run[j].landed] = None]
             /\ UNCHANGED <<job, temp, row>>
  <2>1. /\ run[j].pc = "move" /\ run[j].name \in Names
        /\ UNCHANGED <<job, temp, row>>
    BY <1>6 DEF Move, Carries
  <2>2. CASE Goto(j, "remove") /\ UNCHANGED repo
    BY <2>1, <2>2
  <2>3. CASE /\ CanLand(run[j].name) /\ Occupied(run[j].landed)
             /\ repo' = [repo EXCEPT ![run[j].name] = repo[run[j].landed],
                                     ![run[j].landed] = None]
             /\ run' = [run EXCEPT ![j] = Moved(j, run[j].name)]
    <3>1. /\ Moved(j, run[j].name).pc \in {"remove", "register"}
          /\ Moved(j, run[j].name).landed = run[j].name
      BY DEF Moved
    <3> QED
      BY <2>1, <2>3, <3>1 DEF CanLand, Occupied
  <2> QED
    BY <1>6, <2>2, <2>3 DEF Move
<1>7. ASSUME Finish(j)
      PROVE  /\ From(j, "finish", {"ended"}) /\ SameHome(j)
             /\ job'[j].state = "done"
             /\ UNCHANGED <<temp, repo, row>>
  <2>1. job'[j].state = "done"
    BY <1>7, BecomesStep DEF Finish, CloneStates, TERMINAL
  <2> QED
    BY <1>7, <2>1 DEF Finish
<1>8. ASSUME Remove(j)
      PROVE  /\ From(j, "remove", {"settle"}) /\ SameHome(j)
             /\ \/ run[j].landed = None /\ repo' = repo
                \/ /\ run[j].landed \in Names
                   /\ repo' = [repo EXCEPT ![run[j].landed] = None]
             /\ UNCHANGED <<job, temp, row>>
  BY <1>8 DEF Remove
<1>9. ASSUME Settle(j)
      PROVE  /\ From(j, "settle", {"ended"}) /\ SameHome(j)
             /\ job'[j].state \in {"cancelled", "failed"}
             /\ UNCHANGED <<temp, repo, row>>
  <2>1. Becomes(j, "failed") => job'[j].state = "failed"
    BY BecomesStep DEF CloneStates, TERMINAL
  <2> QED
    BY <1>9, <2>1 DEF Settle
<1> HIDE DEF From, SameHome, RunRows, PlacesOK, storeVars, diskVars, Goto
<1> QED
  BY <1>1, <1>2, <1>3, <1>4, <1>5, <1>6, <1>7, <1>8, <1>9

-----------------------------------------------------------------------------
(* The other steps, field by field *)

\* Nothing the invariants speak of changes.
LEMMA QuietEffect ==
    ASSUME TypeInv,
           \/ \E j \in Jobs : GitReports(j) \/ Pace(j)
           \/ \E s \in Subs : Stream(s) \/ Watch(s)
           \/ UNCHANGED vars
    PROVE  /\ UNCHANGED <<run, temp, repo, row, up, rivals>>
           /\ \A k \in Jobs : job'[k].state = job[k].state
<1>1. ASSUME NEW j \in Jobs, GitReports(j)
      PROVE  /\ UNCHANGED <<run, temp, repo, row, up, rivals>>
             /\ \A k \in Jobs : job'[k].state = job[k].state
  BY <1>1, PlacesOf, ProgressStep DEF GitReports, diskVars
<1>2. ASSUME NEW j \in Jobs, Pace(j)
      PROVE  /\ UNCHANGED <<run, temp, repo, row, up, rivals>>
             /\ \A k \in Jobs : job'[k].state = job[k].state
  BY <1>2, PlacesOf, PaceStep DEF Pace, diskVars
<1>3. ASSUME NEW s \in Subs, Stream(s) \/ Watch(s)
      PROVE  /\ UNCHANGED <<run, temp, repo, row, up, rivals>>
             /\ \A k \in Jobs : job'[k].state = job[k].state
  <2>1. UNCHANGED <<run, temp, repo, row, up, rivals>>
    BY <1>3 DEF Stream, Watch, diskVars
  <2> QED
    BY <1>3, <2>1, PlacesOf, StreamStep
<1>4. CASE UNCHANGED vars
  BY <1>4 DEF vars, storeVars, diskVars
<1> QED
  BY <1>1, <1>2, <1>3, <1>4

LEMMA CancelEffect ==
    ASSUME TypeInv, NEW j \in Jobs, Cancel(j)
    PROVE  /\ Only(j) /\ SameHome(j)
           /\ job[j].state = "cloning" /\ job'[j].state = "cancelled"
           /\ run'[j].pc = run[j].pc \/ From(j, "git", {"dropTemp"})
           /\ UNCHANGED <<temp, repo, row>>
<1>1. run \in [Jobs -> RunRows]
  BY RunOf
<1>2. /\ job[j].state = "cloning" /\ job'[j].state = "cancelled"
      /\ \A k \in Jobs \ {j} : job'[k] = job[k]
  BY PlacesOf, CancelStep
<1> QED
  BY <1>1, <1>2 DEF Cancel, Only, SameHome, From, RunRows, diskVars

LEMMA CloneEffect ==
    ASSUME TypeInv, NEW j \in Jobs, NEW name \in Names, Clone(j, name)
    PROVE  /\ up /\ up'
           /\ \A k \in Jobs \ {j} : run'[k] = run[k] /\ job'[k] = job[k]
           /\ job[j].state = "unused" /\ job'[j].state = "cloning"
           /\ run'[j].pc = "prepare" /\ run'[j].landed = None
           /\ rivals' = IF Alive = {} THEN rivals ELSE rivals \cup Alive \cup {j}
           /\ UNCHANGED <<temp, repo, row>>
<1>1. run \in [Jobs -> RunRows]
  BY RunOf
<1>2. /\ job[j].state = "unused" /\ job'[j].state = "cloning"
      /\ \A k \in Jobs \ {j} : job'[k] = job[k]
  BY PlacesOf, StartStep DEF Clone
<1> QED
  BY <1>1, <1>2 DEF Clone, NewRun, diskVars

LEMMA CrashEffect ==
    ASSUME TypeInv, Crash
    PROVE  /\ ~up'
           /\ \A k \in Jobs :
                /\ run'[k].pc = IF run[k].pc \in Steps THEN "ended" ELSE run[k].pc
                /\ run'[k].name = run[k].name /\ run'[k].landed = run[k].landed
                /\ job'[k].state = IF job[k].state = "unused" THEN "unused" ELSE "lost"
           /\ UNCHANGED <<temp, repo, row, rivals>>
<1> USE RunOf, PlacesOf
<1>1. \A k \in Jobs : job[k] \in JobRows
  BY DEF StoreOK, StoreTypeOK
<1>2. \A k \in Jobs : job'[k].state = IF job[k].state = "unused" THEN "unused" ELSE "lost"
  BY <1>1 DEF Crash, JobRows
<1>3. ASSUME NEW k \in Jobs
      PROVE  /\ run'[k].pc = IF run[k].pc \in Steps THEN "ended" ELSE run[k].pc
             /\ run'[k].name = run[k].name /\ run'[k].landed = run[k].landed
  <2>1. run[k] \in RunRows /\ run'[k] = IF k \in Alive THEN [run[k] EXCEPT !.pc = "ended"] ELSE run[k]
    BY DEF Crash
  <2> QED
    BY <2>1 DEF RunRows, Alive
<1> QED
  BY <1>2, <1>3 DEF Crash, diskVars

-----------------------------------------------------------------------------
(* Where runs, jobs and temporaries stand *)

\* The steps in which a run has a temporary.
TempSteps == {"git", "origin", "resolve", "relocate", "rename", "dropTemp"}

\* The steps in which it has a repository of its own and is registering it.
RegisterSteps == {"register", "retry", "move", "finish"}

\* The job and its run agree, nothing runs in a dead daemon, and temporaries
\* are held by runs.
Orderly ==
    /\ ~up => \A j \in Jobs : run[j].pc \notin Steps /\ job[j].state \in {"unused", "lost"}
    /\ \A j \in Jobs : job[j].state = "unused" => run[j].pc = "none"
    /\ \A j \in Jobs : run[j].pc \in RegisterSteps => job[j].state = "registering"
    /\ \A j \in Jobs : job[j].state = "done" => run[j].pc = "ended"
    /\ up => \A j \in Jobs : temp[j] # None => run[j].pc \in TempSteps

LEMMA OrderlyRun ==
    ASSUME TypeInv, Orderly, NEW j \in Jobs, Run(j)
    PROVE  Orderly'
<1> USE DEF Orderly, Only, From, Steps, TempSteps, RegisterSteps
<1>1. Only(j)
  BY RunOnly
<1>2. CASE Prepare(j)
  BY <1>1, <1>2, CloningEffect
<1>3. CASE GitEnds(j) \/ RewriteOrigin(j) \/ ResolveTarget(j) \/ Relocate(j)
  BY <1>1, <1>3, CloningEffect
<1>4. CASE Rename(j)
  BY <1>1, <1>4, CloningEffect
<1>5. CASE DropTemp(j)
  BY <1>1, <1>5, CloningEffect
<1>6. CASE Renamed(j)
  BY <1>1, <1>6, RegisteringEffect
<1>7. CASE RegisterRefused(j) \/ RegisterDuplicate(j) \/ Register(j) \/ Retry(j)
  BY <1>1, <1>7, RegisteringEffect
<1>8. CASE Move(j)
  BY <1>1, <1>8, RegisteringEffect
<1>9. CASE Finish(j) \/ Settle(j)
  BY <1>1, <1>9, RegisteringEffect
<1>10. CASE Remove(j)
  BY <1>1, <1>10, RegisteringEffect
<1> QED
  BY <1>2, <1>3, <1>4, <1>5, <1>6, <1>7, <1>8, <1>9, <1>10 DEF Run

LEMMA OrderlyNext ==
    ASSUME TypeInv, Orderly, [Next]_vars
    PROVE  Orderly'
<1> USE DEF Orderly
<1>1. ASSUME NEW j \in Jobs, Run(j) PROVE Orderly'
  BY <1>1, OrderlyRun
<1>2. CASE \/ \E j \in Jobs : GitReports(j) \/ Pace(j)
           \/ \E s \in Subs : Stream(s) \/ Watch(s)
           \/ UNCHANGED vars
  BY <1>2, QuietEffect
<1>3. ASSUME NEW j \in Jobs, Cancel(j) PROVE Orderly'
  BY <1>3, CancelEffect DEF Only, From, Steps, TempSteps, RegisterSteps
<1>4. ASSUME NEW j \in Jobs, NEW name \in Names, Clone(j, name) PROVE Orderly'
  BY <1>4, CloneEffect DEF Steps, TempSteps, RegisterSteps
<1>5. CASE \/ \E name \in Names : AddByPath(name)
           \/ \E name, new \in Names : RenameProject(name, new)
  <2>1. UNCHANGED <<run, temp, up, job>>
    BY <1>5 DEF AddByPath, RenameProject, storeVars, diskVars
  <2> QED
    BY <2>1
<1>6. CASE Crash
  BY <1>6, CrashEffect DEF Steps, RegisterSteps
<1>7. CASE Boot
  <2>1. /\ ~up /\ up' /\ run' = run /\ job' = job
        /\ \A j \in Jobs : temp'[j] = None
    BY <1>7 DEF Boot, storeVars
  <2> QED
    BY <2>1
<1> QED
  BY <1>1, <1>2, <1>3, <1>4, <1>5, <1>6, <1>7 DEF Next

LEMMA OrderlyInit == Init => Orderly
BY DEF Init, StoreInit, Orderly, NewRun, Steps, RegisterSteps

LEMMA TempsOrder == Orderly => TempsAreOwned
BY DEF Orderly, TempsAreOwned, Alive, TempSteps, Steps

\* Whatever way a run takes out of git, the rename or an error, its temporary
\* is gone when it ends; and after a crash none is seen before the sweep.
THEOREM NoOrphanTemps == Spec => []TempsAreOwned
<1>1. TypeInv /\ Orderly /\ [Next]_vars => (TypeInv /\ Orderly)'
  BY TypeInvNext, OrderlyNext
<1> QED
  BY <1>1, TypeInvInit, OrderlyInit, TempsOrder, PTL DEF Spec

-----------------------------------------------------------------------------
(* Whose bytes are where *)

\* The repositories a run has on disk are where its cleanup will look for them.
Traceable ==
    \A j \in Jobs \ rivals :
        /\ j \in Alive => Alive = {j}
        /\ \A n \in Names : repo[n] = j =>
             \/ run[j].pc = "renamed" /\ n = run[j].name
             \/ run[j].pc \in RegisterSteps \cup {"remove"} /\ n = run[j].landed
             \/ run[j].pc = "ended" /\ job[j].state \in {"done", "lost"}

\* A run that is alive together with another is a rival.
LEMMA AliveStep ==
    ASSUME TypeInv, NEW j \in Jobs, Only(j), run[j].pc \in Steps
    PROVE  Alive' \subseteq Alive /\ j \in Alive
BY DEF Only, Alive

\* The part of it that is about one job whose run takes a step.
LEMMA TraceableOwn ==
    ASSUME TypeInv, Orderly, Traceable, NEW j \in Jobs \ rivals, Run(j),
           NEW n \in Names, repo'[n] = j
    PROVE  \/ run'[j].pc = "renamed" /\ n = run'[j].name
           \/ run'[j].pc \in RegisterSteps \cup {"remove"} /\ n = run'[j].landed
           \/ run'[j].pc = "ended" /\ job'[j].state \in {"done", "lost"}
<1> USE DEF Traceable, From, SameHome, RegisterSteps
<1>0. repo \in [Names -> Jobs \cup {None}] /\ None \notin Jobs /\ None \notin Names
  BY PlacesOf, CloneAssumption DEF PlacesOK, Names
<1>1. CASE Prepare(j) \/ GitEnds(j) \/ RewriteOrigin(j) \/ ResolveTarget(j) \/ Relocate(j) \/ DropTemp(j)
  BY <1>1, CloningEffect
<1>2. CASE Rename(j)
  BY <1>0, <1>2, CloningEffect
<1>3. CASE Renamed(j)
  BY <1>3, RegisteringEffect
<1>4. CASE RegisterRefused(j) \/ RegisterDuplicate(j) \/ Register(j) \/ Retry(j)
  BY <1>4, RegisteringEffect
<1>5. CASE Move(j)
  BY <1>0, <1>5, RegisteringEffect
<1>6. CASE Finish(j)
  BY <1>6, RegisteringEffect
<1>7. CASE Remove(j)
  BY <1>0, <1>7, RegisteringEffect
<1>8. CASE Settle(j)
  BY <1>8, RegisteringEffect
<1> QED
  BY <1>1, <1>2, <1>3, <1>4, <1>5, <1>6, <1>7, <1>8 DEF Run

\* No step of a run gives bytes of its own to a job that is not taking it:
\* what it moves, it moves as it finds it.
LEMMA MovesBytes ==
    ASSUME TypeInv, NEW k \in Jobs, Run(k), NEW j \in Jobs \ {k},
           NEW n \in Names, repo'[n] = j
    PROVE  \E m \in Names : repo[m] = j
<1>0. repo \in [Names -> Jobs \cup {None}] /\ None \notin Jobs /\ None \notin Names
  BY PlacesOf, CloneAssumption DEF PlacesOK, Names
<1>1. CASE \/ Prepare(k) \/ GitEnds(k) \/ RewriteOrigin(k) \/ ResolveTarget(k)
           \/ Relocate(k) \/ DropTemp(k)
  BY <1>1, CloningEffect
<1>2. CASE Rename(k)
  BY <1>0, <1>2, CloningEffect DEF From
<1>3. CASE \/ Renamed(k) \/ RegisterRefused(k) \/ RegisterDuplicate(k) \/ Register(k)
           \/ Retry(k) \/ Finish(k) \/ Settle(k)
  BY <1>3, RegisteringEffect
<1>4. CASE Move(k)
  <2>1. run[k].landed \in Names
    BY <1>4, RunOf DEF Move, Carries
  <2> QED
    BY <1>0, <1>4, <2>1, RegisteringEffect
<1>5. CASE Remove(k)
  BY <1>0, <1>5, RegisteringEffect
<1> QED
  BY <1>1, <1>2, <1>3, <1>4, <1>5 DEF Run

\* What one job contributes to Traceable.
Traces(j) ==
    /\ j \in Alive => Alive = {j}
    /\ \A n \in Names : repo[n] = j =>
         \/ run[j].pc = "renamed" /\ n = run[j].name
         \/ run[j].pc \in RegisterSteps \cup {"remove"} /\ n = run[j].landed
         \/ run[j].pc = "ended" /\ job[j].state \in {"done", "lost"}

LEMMA TraceableRun ==
    ASSUME TypeInv, Orderly, Traceable, NEW k \in Jobs, Run(k)
    PROVE  Traceable'
<1> SUFFICES ASSUME NEW j \in Jobs \ rivals PROVE Traces(j)'
  BY RunOnly DEF Only, Traceable, Traces
<1>0. Only(k) /\ run[k].pc \in Steps
  BY RunOnly, CloningEffect, RegisteringEffect DEF Run, From, Steps
<1>1. Alive' \subseteq Alive /\ k \in Alive
  BY <1>0, AliveStep
<1>2. (j \in Alive => Alive = {j})'
  <2>1. j \in Alive' => Alive = {j}
    BY <1>1 DEF Traceable
  <2> QED
    BY <1>1, <2>1
<1>3. CASE j = k
  BY <1>2, <1>3, TraceableOwn DEF Traces
<1>4. ASSUME j # k, NEW n \in Names, repo'[n] = j
      PROVE  run'[j].pc = "ended" /\ job'[j].state \in {"done", "lost"}
  <2>1. PICK m \in Names : repo[m] = j
    BY <1>4, MovesBytes
  <2>2. j \notin Alive
    BY <1>1, <1>4 DEF Traceable
  <2>3. run[j].pc = "ended" /\ job[j].state \in {"done", "lost"}
    BY <2>1, <2>2 DEF Traceable, Alive, RegisterSteps, Steps
  <2> QED
    BY <1>0, <1>4, <2>3 DEF Only
<1> QED
  BY <1>2, <1>3, <1>4 DEF Traces

LEMMA TraceableNext ==
    ASSUME TypeInv, Orderly, Traceable, [Next]_vars
    PROVE  Traceable'
<1>1. ASSUME NEW j \in Jobs, Run(j) PROVE Traceable'
  BY <1>1, TraceableRun
<1>2. CASE \/ \E j \in Jobs : GitReports(j) \/ Pace(j)
           \/ \E s \in Subs : Stream(s) \/ Watch(s)
           \/ UNCHANGED vars
  BY <1>2, QuietEffect DEF Traceable, Alive
<1>3. ASSUME NEW k \in Jobs, Cancel(k) PROVE Traceable'
  <2>1. /\ Only(k) /\ SameHome(k) /\ repo' = repo
        /\ run'[k].pc = run[k].pc \/ From(k, "git", {"dropTemp"})
        /\ job[k].state = "cloning"
    BY <1>3, CancelEffect
  <2>2. Alive' = Alive
    BY <2>1 DEF Only, From, Alive, Steps
  <2> QED
    BY <2>1, <2>2 DEF Traceable, Only, SameHome, From, RegisterSteps
<1>4. ASSUME NEW k \in Jobs, NEW name \in Names, Clone(k, name) PROVE Traceable'
  <2>1. /\ \A i \in Jobs \ {k} : run'[i] = run[i] /\ job'[i] = job[i]
        /\ run[k].pc = "none" /\ run'[k].pc = "prepare" /\ repo' = repo
        /\ rivals' = IF Alive = {} THEN rivals ELSE rivals \cup Alive \cup {k}
    BY <1>4, CloneEffect DEF Orderly
  <2>2. Alive' = Alive \cup {k}
    BY <2>1 DEF Alive, Steps
  <2>3. ASSUME NEW j \in Jobs \ rivals' PROVE Traces(j)'
    <3>1. j \in Jobs \ rivals
      BY <2>1
    <3>2. (j \in Alive => Alive = {j})'
      BY <2>1, <2>2
    <3>3. CASE j = k
      BY <2>1, <3>1, <3>2, <3>3 DEF Traceable, Traces, RegisterSteps
    <3>4. CASE j # k
      BY <2>1, <3>1, <3>2, <3>4 DEF Traceable, Traces
    <3> QED
      BY <3>3, <3>4
  <2> QED
    BY <2>3 DEF Traceable, Traces
<1>5. CASE \/ \E name \in Names : AddByPath(name)
           \/ \E name, new \in Names : RenameProject(name, new)
           \/ Boot
  <2>1. UNCHANGED <<run, repo, job, rivals>>
    BY <1>5 DEF AddByPath, RenameProject, Boot, storeVars, diskVars
  <2> QED
    BY <2>1 DEF Traceable, Alive
<1>6. CASE Crash
  <2>1. Alive' = {}
    BY <1>6, CrashEffect DEF Alive, Steps
  <2> QED
    BY <1>6, <2>1, CrashEffect DEF Traceable, Orderly, RegisterSteps, Steps
<1> QED
  BY <1>1, <1>2, <1>3, <1>4, <1>5, <1>6 DEF Next

LEMMA TraceableInit == Init => Traceable
<1> SUFFICES ASSUME Init PROVE Traceable
  OBVIOUS
<1>1. None \notin Jobs
  BY CloneAssumption
<1> QED
  BY <1>1 DEF Init, Traceable, Alive, NewRun, Steps

Inv == TypeInv /\ Orderly /\ Traceable

LEMMA InvNext == Inv /\ [Next]_vars => Inv'
BY TypeInvNext, OrderlyNext, TraceableNext DEF Inv

LEMMA InvInit == Init => Inv
BY TypeInvInit, OrderlyInit, TraceableInit DEF Inv

\* A clone that failed or was cancelled has left neither a temporary nor a
\* repository, whichever await the error came from, as long as its run was
\* never alive together with another.
THEOREM CleansUp == Spec => []NothingLeftBehind
<1>1. Inv => NothingLeftBehind
  <2> SUFFICES ASSUME Inv, NEW j \in Jobs \ rivals,
                      run[j].pc = "ended" /\ job[j].state \in {"failed", "cancelled"}
               PROVE  temp[j] = None /\ \A n \in Names : repo[n] # j
    BY DEF NothingLeftBehind
  <2>1. temp[j] = None
    BY PlacesOf DEF Inv, Orderly, TempSteps, PlacesOK
  <2> QED
    BY <2>1 DEF Inv, Traceable, RegisterSteps
<1> QED
  BY <1>1, InvInit, InvNext, PTL DEF Spec

-----------------------------------------------------------------------------
(* What a row points at *)

Registered(path) == \E n \in Names : row[n] = path

\* While no two runs have been alive together: the run that is going on has
\* only its own bytes, or none, at the place it would delete; a registered
\* path holds the bytes of a run that is past deleting; and so does a job
\* that is done.
Going(j) ==
    /\ run[j].landed # None => repo[run[j].landed] \in {j, None}
    /\ run[j].pc = "renamed" => repo[run[j].name] = j
    /\ run[j].pc = "finish" => repo[run[j].landed] = j /\ Registered(run[j].landed)

Settled(path) == repo[path] \in Jobs /\ run[repo[path]].pc \in {"finish", "ended"}

Placed(j) == run[j].landed \in Names /\ repo[run[j].landed] = j /\ Registered(run[j].landed)

Standing ==
    rivals = {} =>
        /\ \A j \in Alive : Going(j)
        /\ \A n \in Names : row[n] \in Names => Settled(row[n])
        /\ \A j \in Jobs : job[j].state = "done" => Placed(j)

LEMMA NamesOf ==
    ASSUME TypeInv
    PROVE  /\ repo \in [Names -> Jobs \cup {None}]
           /\ row \in [Names -> Names \cup {Elsewhere, None}]
           /\ None \notin Jobs /\ None \notin Names /\ Elsewhere \notin Names
           /\ \A j \in Jobs : run[j].landed \in Names \cup {None}
           /\ \A j \in Jobs : run[j].pc # "none" => run[j].name \in Names
           /\ \A j \in Jobs : run[j].pc \in RegisterSteps => run[j].landed \in Names
<1>1. \A j \in Jobs : run[j] \in RunRows /\ Carries(run[j])
  BY RunOf
<1> QED
  BY <1>1, PlacesOf, CloneAssumption DEF PlacesOK, Names, RunRows, Carries, RegisterSteps

\* A step of a run that leaves the repositories and the rows alone.
LEMMA StandingStill ==
    ASSUME Inv, Standing, rivals = {}, NEW k \in Jobs, Only(k), UNCHANGED <<repo, row>>,
           run[k].pc \in Steps, run[k].pc # "finish", run'[k].pc \in Steps \cup {"ended"},
           Alive' \subseteq {k},
           k \in Alive' => Going(k)', job'[k].state # "done"
    PROVE  Standing'
<1> USE NamesOf DEF Inv
<1>1. k \in Alive /\ Alive = {k}
  BY DEF Traceable, Alive
<1>2. \A j \in Alive' : Going(j)'
  OBVIOUS
<1>3. ASSUME NEW n \in Names, row'[n] \in Names PROVE Settled(row[n])'
  <2>1. Settled(row[n])
    BY <1>3 DEF Standing
  <2>2. repo[row[n]] # k
    BY <2>1 DEF Settled, Steps
  <2> QED
    BY <2>1, <2>2 DEF Only, Settled
<1>4. ASSUME NEW j \in Jobs, job'[j].state = "done" PROVE Placed(j)'
  <2>1. j # k /\ Placed(j)
    BY <1>4 DEF Only, Standing
  <2> QED
    BY <2>1 DEF Only, Placed, Registered
<1> QED
  BY <1>2, <1>3, <1>4 DEF Standing, Only

\* The one run that is alive takes a step.
LEMMA StandingRun ==
    ASSUME Inv, Standing, NEW k \in Jobs, Run(k)
    PROVE  Standing'
<1> SUFFICES ASSUME rivals = {} PROVE Standing'
  BY RunOnly DEF Only, Standing, Inv
<1> USE NamesOf, RunOnly, CloningEffect, RegisteringEffect DEF Inv
<1>0. /\ Only(k) /\ run[k].pc \in Steps
      /\ run'[k].pc \in Steps \cup {"ended"}
  BY DEF Run, From, Steps
<1>1. Alive = {k} /\ Alive' \subseteq {k} /\ Going(k)
  BY <1>0, AliveStep DEF Traceable, Standing
<1>2. job[k].state # "done"
  BY <1>0 DEF Orderly, Steps
<1>3. CASE \/ Prepare(k) \/ GitEnds(k) \/ RewriteOrigin(k) \/ ResolveTarget(k)
           \/ Relocate(k) \/ DropTemp(k)
  <2>1. UNCHANGED <<job, repo, row>> /\ run[k].pc # "finish"
    BY <1>3 DEF From
  <2>2. Going(k)'
    BY <1>1, <1>3, <2>1 DEF Going, From, SameHome
  <2> QED
    BY <1>0, <1>1, <1>2, <2>1, <2>2, StandingStill
<1>4. CASE \/ Renamed(k) \/ RegisterRefused(k) \/ RegisterDuplicate(k) \/ Retry(k) \/ Settle(k)
  <2>1. UNCHANGED <<repo, row>> /\ run[k].pc # "finish" /\ job'[k].state # "done"
    BY <1>2, <1>4 DEF From
  <2>2. Going(k)'
    BY <1>1, <1>4, <2>1 DEF Going, From, SameHome
  <2> QED
    BY <1>0, <1>1, <2>1, <2>2, StandingStill
<1>5. CASE Rename(k)
  <2>1. CASE run'[k].pc = "dropTemp"
    <3>1. UNCHANGED <<job, repo, row>> /\ run[k].pc # "finish"
      BY <1>5, <2>1 DEF From
    <3>2. Going(k)'
      BY <1>1, <1>5, <2>1, <3>1 DEF Going, SameHome
    <3> QED
      BY <1>0, <1>1, <1>2, <3>1, <3>2, StandingStill
  <2>2. CASE run'[k].pc = "renamed"
    <3>1. /\ repo' = [repo EXCEPT ![run[k].name] = k] /\ repo[run[k].name] = None
          /\ run[k].name \in Names /\ SameHome(k) /\ UNCHANGED <<job, row>>
          /\ run[k].pc = "rename"
      BY <1>5, <2>2 DEF From
    <3>2. Going(k)'
      BY <1>1, <2>2, <3>1 DEF Going, SameHome
    <3>3. \A n \in Names : row'[n] \in Names => Settled(row[n])'
      BY <1>0, <3>1 DEF Standing, Settled, Only
    <3>4. \A j \in Jobs : job'[j].state = "done" => Placed(j)'
      BY <1>0, <1>2, <3>1 DEF Standing, Placed, Registered, Only
    <3> QED
      BY <1>0, <1>1, <3>2, <3>3, <3>4 DEF Standing, Only
  <2> QED
    BY <1>5, <2>1, <2>2 DEF From
<1>6. CASE Register(k)
  <2>1. /\ run[k].pc = "register" /\ run'[k].pc = "finish" /\ SameHome(k)
        /\ run[k].name \in Names /\ run[k].landed \in Names
        /\ repo[run[k].landed] # None /\ row[run[k].name] = None
        /\ row' = [row EXCEPT ![run[k].name] = run[k].landed]
        /\ UNCHANGED <<job, repo>>
    BY <1>6 DEF From, RegisterSteps
  <2>2. repo[run[k].landed] = k
    BY <1>1, <2>1 DEF Going
  <2>3. Going(k)'
    BY <2>1, <2>2 DEF Going, SameHome, Registered
  <2>4. (\A n \in Names : row[n] \in Names => Settled(row[n]))'
    BY <1>0, <2>1, <2>2 DEF Standing, Settled, Only
  <2>5. \A j \in Jobs : job'[j].state = "done" => Placed(j)'
    BY <1>0, <1>2, <2>1 DEF Standing, Placed, Registered, Only
  <2> QED
    BY <1>0, <1>1, <2>3, <2>4, <2>5 DEF Standing, Only
<1>7. CASE Move(k)
  <2>0. run[k].pc = "move" /\ UNCHANGED <<job, row>> /\ run[k].landed \in Names
    BY <1>7 DEF RegisterSteps
  <2>1. CASE run'[k].pc = "remove" /\ SameHome(k) /\ repo' = repo
    <3>1. Going(k)'
      BY <1>1, <2>1 DEF Going, SameHome
    <3> QED
      BY <1>0, <1>1, <1>2, <2>0, <2>1, <3>1, StandingStill
  <2>2. CASE /\ run'[k].pc \in {"remove", "register"}
             /\ run'[k].landed = run[k].name /\ run[k].name \in Names
             /\ repo[run[k].name] = None /\ repo[run[k].landed] # None
             /\ repo' = [repo EXCEPT ![run[k].name] = repo[run[k].landed],
                                     ![run[k].landed] = None]
    <3>1. repo[run[k].landed] = k
      BY <1>1, <2>0, <2>2 DEF Going
    <3>2. Going(k)'
      BY <2>0, <2>2, <3>1 DEF Going
    <3>3. \A n \in Names : row'[n] \in Names => Settled(row[n])'
      BY <1>0, <2>0, <2>2, <3>1 DEF Standing, Settled, Only
    <3>4. \A j \in Jobs : job'[j].state = "done" => Placed(j)'
      BY <1>0, <1>2, <2>0, <2>2, <3>1 DEF Standing, Placed, Registered, Only
    <3> QED
      BY <1>0, <1>1, <2>0, <3>2, <3>3, <3>4 DEF Standing, Only
  <2> QED
    BY <1>7, <2>1, <2>2
<1>8. CASE Finish(k)
  <2>1. /\ run[k].pc = "finish" /\ run'[k].pc = "ended" /\ SameHome(k)
        /\ run[k].landed \in Names /\ UNCHANGED <<repo, row>>
    BY <1>8 DEF From, RegisterSteps
  <2>2. k \notin Alive'
    BY <2>1 DEF Alive, Steps
  <2>3. \A n \in Names : row'[n] \in Names => Settled(row[n])'
    BY <1>0, <2>1 DEF Standing, Settled, Only
  <2>4. Placed(k)'
    BY <1>1, <2>1 DEF Going, Placed, SameHome, Registered
  <2>5. \A j \in Jobs : job'[j].state = "done" => Placed(j)'
    BY <1>0, <2>1, <2>4 DEF Standing, Placed, Registered, Only
  <2> QED
    BY <1>0, <1>1, <2>1, <2>2, <2>3, <2>5 DEF Standing, Only
<1>9. CASE Remove(k)
  <2>1. /\ run[k].pc = "remove" /\ run'[k].pc = "settle" /\ SameHome(k)
        /\ UNCHANGED <<job, row>>
    BY <1>9 DEF From
  <2>2. CASE repo' = repo
    <3>1. Going(k)'
      BY <1>1, <2>1, <2>2 DEF Going, SameHome
    <3> QED
      BY <1>0, <1>1, <1>2, <2>1, <2>2, <3>1, StandingStill
  <2>3. CASE /\ run[k].landed \in Names
             /\ repo' = [repo EXCEPT ![run[k].landed] = None]
    <3>1. repo[run[k].landed] \in {k, None}
      BY <1>1, <2>3 DEF Going
    <3>2. Going(k)'
      BY <2>1, <2>3 DEF Going, SameHome
    <3>3. \A n \in Names : row'[n] \in Names => Settled(row[n])'
      BY <1>0, <2>1, <2>3, <3>1 DEF Standing, Settled, Only
    <3>4. \A j \in Jobs : job'[j].state = "done" => Placed(j)'
      BY <1>0, <1>2, <2>1, <2>3, <3>1 DEF Standing, Placed, Registered, Only
    <3> QED
      BY <1>0, <1>1, <2>1, <3>2, <3>3, <3>4 DEF Standing, Only
  <2> QED
    BY <1>9, <2>2, <2>3
<1> QED
  BY <1>3, <1>4, <1>5, <1>6, <1>7, <1>8, <1>9 DEF Run

\* A change of the rows that forgets no path keeps Standing, if a new path is
\* none of the workspace's homes.
LEMMA StandingRows ==
    ASSUME Inv, Standing, UNCHANGED <<job, run, repo, rivals>>,
           \A path \in Names : Registered(path) => Registered(path)',
           \A n \in Names : row'[n] \in Names => \E m \in Names : row[m] = row'[n]
    PROVE  Standing'
<1> USE NamesOf DEF Inv
<1>1. Alive' = Alive
  BY DEF Alive
<1>2. ASSUME NEW j \in Jobs, Going(j) PROVE Going(j)'
  <2>1. run[j].pc = "finish" => run[j].landed \in Names
    BY DEF RegisterSteps
  <2> QED
    BY <1>2, <2>1 DEF Going
<1>3. ASSUME NEW n \in Names, row'[n] \in Names, rivals = {} PROVE Settled(row[n])'
  BY <1>3 DEF Standing, Settled
<1>4. ASSUME NEW j \in Jobs, Placed(j) PROVE Placed(j)'
  BY <1>4 DEF Placed
<1> QED
  BY <1>1, <1>2, <1>3, <1>4 DEF Standing, Alive

LEMMA StandingNext ==
    ASSUME Inv, Standing, [Next]_vars
    PROVE  Standing'
<1> USE NamesOf DEF Inv
<1>1. ASSUME NEW j \in Jobs, Run(j) PROVE Standing'
  BY <1>1, StandingRun
<1>2. CASE \/ \E j \in Jobs : GitReports(j) \/ Pace(j)
           \/ \E s \in Subs : Stream(s) \/ Watch(s)
           \/ UNCHANGED vars
  BY <1>2, QuietEffect DEF Standing, Alive, Going, Settled, Placed, Registered
<1>3. ASSUME NEW k \in Jobs, Cancel(k) PROVE Standing'
  <2>1. /\ Only(k) /\ SameHome(k) /\ UNCHANGED <<repo, row>>
        /\ run'[k].pc = run[k].pc \/ From(k, "git", {"dropTemp"})
        /\ job'[k].state = "cancelled"
    BY <1>3, CancelEffect
  <2>2. Alive' = Alive
    BY <2>1 DEF Only, From, Alive, Steps
  <2>3. ASSUME NEW j \in Alive, Going(j) PROVE Going(j)'
    BY <2>1, <2>3 DEF Only, From, SameHome, Going, Registered, Alive
  <2>4. ASSUME NEW path \in Names, Settled(path) PROVE Settled(path)'
    BY <2>1, <2>4 DEF Only, From, Settled
  <2>5. ASSUME NEW j \in Jobs, job'[j].state = "done", rivals = {} PROVE Placed(j)'
    BY <2>1, <2>5 DEF Only, Standing, Placed, Registered
  <2> QED
    BY <2>1, <2>2, <2>3, <2>4, <2>5 DEF Standing, Only
<1>4. ASSUME NEW k \in Jobs, NEW name \in Names, Clone(k, name) PROVE Standing'
  <2>1. /\ \A i \in Jobs \ {k} : run'[i] = run[i] /\ job'[i] = job[i]
        /\ run[k].pc = "none" /\ run'[k].pc = "prepare" /\ run'[k].landed = None
        /\ job'[k].state = "cloning" /\ UNCHANGED <<repo, row>>
        /\ rivals' = IF Alive = {} THEN rivals ELSE rivals \cup Alive \cup {k}
    BY <1>4, CloneEffect DEF Orderly
  <2> SUFFICES ASSUME rivals' = {} PROVE Standing'
    BY DEF Standing
  <2>2. rivals = {} /\ Alive = {} /\ Alive' = {k}
    BY <2>1 DEF Alive, Steps
  <2>3. Going(k)'
    BY <2>1 DEF Going
  <2>4. ASSUME NEW path \in Names, Settled(path) PROVE Settled(path)'
    BY <2>1, <2>4 DEF Settled
  <2>5. ASSUME NEW j \in Jobs, job'[j].state = "done" PROVE Placed(j)'
    BY <2>1, <2>2, <2>5 DEF Standing, Placed, Registered
  <2> QED
    BY <2>1, <2>2, <2>3, <2>4, <2>5 DEF Standing
<1>5. ASSUME NEW name \in Names, AddByPath(name) PROVE Standing'
  <2>1. /\ UNCHANGED <<job, run, repo, rivals>> /\ row[name] = None
        /\ row' = [row EXCEPT ![name] = Elsewhere]
    BY <1>5 DEF AddByPath, storeVars, diskVars
  <2>2. ASSUME NEW path \in Names, Registered(path) PROVE Registered(path)'
    BY <2>1, <2>2 DEF Registered
  <2>3. \A n \in Names : row'[n] \in Names => \E m \in Names : row[m] = row'[n]
    BY <2>1
  <2> QED
    BY <2>1, <2>2, <2>3, StandingRows
<1>6. ASSUME NEW name \in Names, NEW new \in Names, RenameProject(name, new) PROVE Standing'
  <2>1. /\ UNCHANGED <<job, run, repo, rivals>> /\ row[name] # None /\ row[new] = None
        /\ row' = [row EXCEPT ![new] = row[name], ![name] = None]
    BY <1>6 DEF RenameProject, storeVars, diskVars
  <2>2. ASSUME NEW path \in Names, Registered(path) PROVE Registered(path)'
    BY <2>1, <2>2 DEF Registered
  <2>3. ASSUME NEW n \in Names, row'[n] \in Names PROVE \E m \in Names : row[m] = row'[n]
    BY <2>1, <2>3
  <2> QED
    BY <2>1, <2>2, <2>3, StandingRows
<1>7. CASE Crash
  <2>1. Alive' = {} /\ UNCHANGED <<repo, row, rivals>>
    BY <1>7, CrashEffect DEF Alive, Steps
  <2>2. \A j \in Jobs : job'[j].state # "done"
    BY <1>7, CrashEffect
  <2>3. ASSUME NEW path \in Names, Settled(path) PROVE Settled(path)'
    BY <1>7, <2>1, <2>3, CrashEffect DEF Settled, Steps
  <2> QED
    BY <2>1, <2>2, <2>3 DEF Standing
<1>8. CASE Boot
  BY <1>8 DEF Boot, storeVars, Standing, Alive, Going, Settled, Placed, Registered
<1> QED
  BY <1>1, <1>2, <1>3, <1>4, <1>5, <1>6, <1>7, <1>8 DEF Next

LEMMA StandingInit == Init => Standing
<1> SUFFICES ASSUME Init PROVE Standing
  OBVIOUS
<1>1. Alive = {} /\ (\A n \in Names : row[n] = None) /\ \A j \in Jobs : job[j].state = "unused"
  BY DEF Init, StoreInit, Alive, NewRun, Steps
<1>2. None \notin Names
  BY CloneAssumption DEF Names
<1> QED
  BY <1>1, <1>2 DEF Standing

\* While runs come one at a time, a registered path holds a repository, and
\* that of a job that is done is its own, for any number of names already
\* taken, of attempts and of crashes.
THEOREM RegisteredStays == Spec => []RegisteredIsThere
<1>1. Inv /\ Standing => RegisteredIsThere
  <2> SUFFICES ASSUME Inv, Standing, rivals = {} PROVE RegisteredIsThere
    BY DEF RegisteredIsThere
  <2>1. \A n \in Names : row[n] \in Names => Occupied(row[n])
    BY CloneAssumption DEF Standing, Settled, Occupied
  <2>2. \A j \in Jobs : job[j].state = "done" => Placed(j)
    BY DEF Standing
  <2> QED
    BY <2>1, <2>2 DEF RegisteredIsThere, Placed, Registered
<1>2. Inv /\ Standing /\ [Next]_vars => (Inv /\ Standing)'
  BY InvNext, StandingNext
<1> QED
  BY <1>1, <1>2, InvInit, StandingInit, PTL DEF Spec

\* A job that was cancelled, even past git, never has its repository in the
\* table of projects.
THEOREM CancelledStaysOut == Spec => []CancelledIsNotRegistered
<1>1. Inv /\ Standing => CancelledIsNotRegistered
  <2> SUFFICES ASSUME Inv, Standing, rivals = {}, NEW j \in Jobs, job[j].state = "cancelled",
                      NEW n \in Names, NEW path \in Names, row[n] = path, repo[path] = j
               PROVE  FALSE
    BY DEF CancelledIsNotRegistered
  <2>1. run[j].pc \in {"finish", "ended"}
    BY DEF Standing, Settled
  <2>2. run[j].pc # "finish"
    BY DEF Inv, Orderly, RegisterSteps
  <2>3. run[j].pc # "ended"
    BY DEF Inv, Traceable, RegisterSteps
  <2> QED
    BY <2>1, <2>2, <2>3
<1>2. Inv /\ Standing /\ [Next]_vars => (Inv /\ Standing)'
  BY InvNext, StandingNext
<1> QED
  BY <1>1, <1>2, InvInit, StandingInit, PTL DEF Spec

-----------------------------------------------------------------------------
(* What the streams tell *)

\* A snapshot and the queue behind it, as one sequence.
LEMMA FirstAndQueue ==
    ASSUME NEW S, NEW g \in S, NEW q \in Seq(S)
    PROVE  /\ <<g>> \o q \in Seq(S)
           /\ Len(<<g>> \o q) = Len(q) + 1
           /\ (<<g>> \o q)[1] = g
           /\ \A i \in 1 .. Len(q) : (<<g>> \o q)[i + 1] = q[i]
<1>1. <<g>> \in Seq(S) /\ Len(<<g>>) = 1 /\ <<g>>[1] = g /\ Len(q) \in Nat
  BY LenProperties
<1>2. /\ <<g>> \o q \in Seq(S)
      /\ Len(<<g>> \o q) = 1 + Len(q)
      /\ \A i \in 1 .. 1 + Len(q) : (<<g>> \o q)[i] = IF i <= 1 THEN <<g>>[i] ELSE q[i - 1]
  BY <1>1, ConcatProperties
<1>3. \A i \in 1 .. Len(q) : i + 1 \in 1 .. 1 + Len(q) /\ ~(i + 1 <= 1) /\ (i + 1) - 1 = i
  BY <1>1
<1> QED
  BY <1>1, <1>2, <1>3

\* A snapshot queued behind the others comes last.
LEMMA QueuedLast ==
    ASSUME NEW S, NEW g \in S, NEW q \in Seq(S), NEW x \in S
    PROVE  <<g>> \o Append(q, x) = Append(<<g>> \o q, x)
<1> DEFINE left == <<g>> \o Append(q, x)
           told == <<g>> \o q
           right == Append(told, x)
<1>1. Append(q, x) \in Seq(S) /\ Len(Append(q, x)) = Len(q) + 1 /\ Len(q) \in Nat
      /\ \A i \in 1 .. Len(q) : Append(q, x)[i] = q[i]
      /\ Append(q, x)[Len(q) + 1] = x
  BY AppendProperties, LenProperties
<1>2. /\ left \in Seq(S) /\ Len(left) = Len(q) + 2 /\ left[1] = g
      /\ \A i \in 1 .. Len(q) + 1 : left[i + 1] = Append(q, x)[i]
  BY <1>1, FirstAndQueue
<1>3. /\ told \in Seq(S) /\ Len(told) = Len(q) + 1 /\ told[1] = g
      /\ \A i \in 1 .. Len(q) : told[i + 1] = q[i]
  BY FirstAndQueue
<1> HIDE DEF told, left
<1>4. /\ right \in Seq(S) /\ Len(right) = Len(q) + 2
      /\ \A i \in 1 .. Len(q) + 1 : right[i] = told[i]
      /\ right[Len(q) + 2] = x
  BY <1>1, <1>3, AppendProperties
<1> HIDE DEF right
<1>5. ASSUME NEW i \in 1 .. Len(q) + 2 PROVE left[i] = right[i]
  <2>1. CASE i = 1
    BY <2>1, <1>1, <1>2, <1>3, <1>4
  <2>2. CASE i \in 2 .. Len(q) + 1
    <3>1. i - 1 \in 1 .. Len(q) /\ (i - 1) + 1 = i
      BY <2>2, <1>1
    <3>2. left[i] = q[i - 1] /\ told[i] = q[i - 1]
      BY <3>1, <1>1, <1>2, <1>3
    <3> QED
      BY <3>2, <2>2, <1>1, <1>4
  <2>3. CASE i = Len(q) + 2
    <3>1. left[i] = Append(q, x)[Len(q) + 1]
      BY <2>3, <1>1, <1>2
    <3> QED
      BY <3>1, <2>3, <1>1, <1>4
  <2> QED
    BY <2>1, <2>2, <2>3, <1>1
<1>6. left = right
  BY <1>2, <1>4, <1>5, SeqEqual
<1> QED
  BY <1>6 DEF left, right, told

\* Of a row r, a story: no line of it is beyond r's, lines never go back, and a
\* terminal snapshot is the last and is r.
Story(T, r) ==
    /\ \A i \in 1 .. Len(T) : T[i].line <= r.line
    /\ \A i \in 1 .. Len(T) : T[i].state \in TERMINAL => i = Len(T) /\ T[i] = r
    /\ \A i \in 1 .. Len(T) - 1 : T[i].line <= T[i + 1].line

\* What a row of a stream tells, and its newest snapshot.
Tells(stream) == <<stream.got>> \o stream.queue
Newest(stream) == Tells(stream)[Len(Tells(stream))]

\* A row that tells a story of the job as it is now.
Follows(stream, now) ==
    /\ now \in Snapshots
    /\ stream.got \in Snapshots
    /\ Story(Tells(stream), now)

\* Nothing is pending for a job that ended; a stream that is not open holds
\* nothing; and an open one tells a story of its job, up to the job as it is
\* unless a delivery is pending.
StreamsInv ==
    /\ \A j \in timer : job[j].state \notin TERMINAL
    /\ \A s \in Subs : IF sub[s].at \in {"yielded", "waiting"}
                       THEN sub[s].job \in Jobs
                       ELSE sub[s] \in {NewSub, Gone}
    /\ \A s \in Subs, j \in Jobs : Listening(s, j) =>
          /\ Follows(sub[s], job[j])
          /\ Newest(sub[s]) = job[j] \/ j \in timer

\* A story goes on when the job does.
LEMMA StoryGoesOn ==
    ASSUME NEW T \in Seq(Snapshots), NEW r \in JobRows, NEW x \in Snapshots,
           Story(T, r), r.state \notin TERMINAL, r.line <= x.line
    PROVE  /\ Story(T, x)
           /\ Story(Append(T, x), x)
           /\ Append(T, x)[Len(Append(T, x))] = x
<1>1. /\ Len(T) \in Nat /\ Len(Append(T, x)) = Len(T) + 1
      /\ \A i \in 1 .. Len(T) : Append(T, x)[i] = T[i]
      /\ Append(T, x)[Len(T) + 1] = x
      /\ \A i \in 1 .. Len(T) : T[i] \in Snapshots
  BY AppendProperties, LenProperties, ElementOfSeq
<1>2. r.line \in Nat /\ x.line \in Nat /\ \A i \in 1 .. Len(T) : T[i].line \in Nat
  BY <1>1 DEF JobRows, Snapshots
<1>3. ASSUME NEW i \in 1 .. Len(T) PROVE T[i].state \notin TERMINAL /\ T[i].line <= x.line
  <2>1. T[i].line <= r.line /\ (T[i].state \in TERMINAL => T[i] = r)
    BY DEF Story
  <2> QED
    BY <1>1, <1>2, <2>1
<1>4. \A i \in 1 .. Len(T) - 1 : T[i].line <= T[i + 1].line
  BY DEF Story
<1>5. Story(T, x)
  BY <1>3, <1>4 DEF Story
<1> DEFINE U == Append(T, x)
<1> HIDE DEF U
<1>6. /\ Len(U) = Len(T) + 1 /\ U[Len(T) + 1] = x
      /\ \A i \in 1 .. Len(T) : U[i] = T[i]
  BY <1>1 DEF U
<1>7. \A i \in 1 .. Len(U) : i \in 1 .. Len(T) \/ i = Len(U)
  BY <1>1, <1>6
<1>8. \A i \in 1 .. Len(U) : U[i].line <= x.line
  BY <1>2, <1>3, <1>6, <1>7
<1>9. \A i \in 1 .. Len(U) : U[i].state \in TERMINAL => i = Len(U) /\ U[i] = x
  BY <1>3, <1>6, <1>7
<1>10. ASSUME NEW i \in 1 .. Len(U) - 1 PROVE U[i].line <= U[i + 1].line
  <2>1. i \in 1 .. Len(T)
    BY <1>1, <1>6
  <2>2. CASE i = Len(T)
    BY <1>3, <1>6, <2>1, <2>2
  <2>3. CASE i # Len(T)
    <3>1. i \in 1 .. Len(T) - 1 /\ i + 1 \in 1 .. Len(T)
      BY <1>1, <2>1, <2>3
    <3> QED
      BY <1>4, <1>6, <2>1, <3>1
  <2> QED
    BY <2>2, <2>3
<1>11. Story(U, x)
  BY <1>8, <1>9, <1>10 DEF Story
<1> QED
  BY <1>5, <1>6, <1>11 DEF U

\* Nor is it spoiled by leaving its first snapshot behind.
LEMMA StoryTold ==
    ASSUME NEW g \in Snapshots, NEW q \in Seq(Snapshots), NEW r, Story(<<g>> \o q, r), q # <<>>
    PROVE  /\ <<Head(q)>> \o Tail(q) = q
           /\ Story(q, r)
           /\ q[Len(q)] = (<<g>> \o q)[Len(<<g>> \o q)]
<1> DEFINE T == <<g>> \o q
           U == <<Head(q)>> \o Tail(q)
<1>1. /\ Len(q) \in Nat \ {0}
      /\ Len(T) = Len(q) + 1 /\ \A i \in 1 .. Len(q) : T[i + 1] = q[i]
  BY FirstAndQueue, EmptySeq
<1>2. /\ Head(q) \in Snapshots /\ Tail(q) \in Seq(Snapshots) /\ Len(Tail(q)) = Len(q) - 1
      /\ \A i \in 1 .. Len(q) - 1 : Tail(q)[i] = q[i + 1]
      /\ Head(q) = q[1]
  BY HeadTailProperties
<1>3. /\ U \in Seq(Snapshots) /\ Len(U) = Len(q) /\ U[1] = q[1]
      /\ \A i \in 1 .. Len(q) - 1 : U[i + 1] = Tail(q)[i]
  BY <1>1, <1>2, FirstAndQueue
<1> HIDE DEF U, T
<1>4. ASSUME NEW i \in 1 .. Len(q) PROVE U[i] = q[i]
  <2>1. CASE i = 1
    BY <1>3, <2>1
  <2>2. CASE i # 1
    <3>1. i - 1 \in 1 .. Len(q) - 1 /\ (i - 1) + 1 = i
      BY <1>1, <2>2
    <3> QED
      BY <1>2, <1>3, <3>1
  <2> QED
    BY <2>1, <2>2
<1>5. U = q
  BY <1>3, <1>4, SeqEqual
<1>6. Story(T, r)
  BY DEF T
<1>7. ASSUME NEW i \in 1 .. Len(q)
      PROVE  /\ q[i].line <= r.line
             /\ q[i].state \in TERMINAL => i = Len(q) /\ q[i] = r
  <2>1. i + 1 \in 1 .. Len(T) /\ T[i + 1] = q[i] /\ (i + 1 = Len(T) => i = Len(q))
    BY <1>1
  <2> QED
    BY <1>6, <2>1 DEF Story
<1>8. ASSUME NEW i \in 1 .. Len(q) - 1 PROVE q[i].line <= q[i + 1].line
  <2>1. /\ i \in 1 .. Len(q) /\ i + 1 \in 1 .. Len(q) /\ i + 1 \in 1 .. Len(T) - 1
    BY <1>1
  <2>2. T[i + 1].line <= T[(i + 1) + 1].line
    BY <1>6, <2>1 DEF Story
  <2> QED
    BY <1>1, <2>1, <2>2
<1>9. Story(q, r)
  BY <1>7, <1>8 DEF Story
<1>10. Len(q) \in 1 .. Len(q) /\ q[Len(q)] = T[Len(T)]
  BY <1>1
<1> QED
  BY <1>5, <1>9, <1>10 DEF U, T

\* A row that is given a snapshot follows the job to it, and so does, behind
\* its back, one that is not.
LEMMA RowHears ==
    ASSUME NEW stream \in SubRows, NEW now \in JobRows, NEW x \in Snapshots, NEW woken \in BOOLEAN,
           Follows(stream, now), now.state \notin TERMINAL, now.line <= x.line
    PROVE  /\ Follows(stream, x)
           /\ Follows([stream EXCEPT !.queue = Append(stream.queue, x), !.woken = woken], x)
           /\ Newest([stream EXCEPT !.queue = Append(stream.queue, x), !.woken = woken]) = x
<1> DEFINE after == [stream EXCEPT !.queue = Append(stream.queue, x), !.woken = woken]
           T == Tells(stream)
<1>1. stream.got \in Snapshots /\ stream.queue \in Seq(Snapshots) /\ T \in Seq(Snapshots)
  BY FirstAndQueue DEF Follows, SubRows, Tells
<1>2. after.got = stream.got /\ after.queue = Append(stream.queue, x)
  BY DEF SubRows
<1>3. Tells(after) = Append(T, x)
  BY <1>1, <1>2, QueuedLast DEF Tells
<1>4. Story(T, now)
  BY DEF Follows
<1> HIDE DEF after, T
<1>5. /\ Story(T, x)
      /\ Story(Append(T, x), x)
      /\ Append(T, x)[Len(Append(T, x))] = x
  BY <1>1, <1>4, StoryGoesOn
<1>6. Follows(stream, x)
  BY <1>1, <1>5 DEF Follows, T
<1>7. Follows(after, x) /\ Newest(after) = x
  BY <1>1, <1>2, <1>3, <1>5 DEF Follows, Newest
<1> QED
  BY <1>6, <1>7 DEF after

\* So does one that yields the next snapshot.
LEMMA RowYields ==
    ASSUME NEW stream \in SubRows, NEW now, Follows(stream, now)
    PROVE  Follows(Drained(stream), now) /\ Newest(Drained(stream)) = Newest(stream)
<1>1. CASE stream.queue # <<>>
  <2> DEFINE after == [stream EXCEPT !.at = "yielded", !.queue = Tail(stream.queue),
                                     !.got = Head(stream.queue)]
             q == stream.queue
  <2>1. stream.got \in Snapshots /\ q \in Seq(Snapshots) /\ Head(q) \in Snapshots
    BY <1>1 DEF Follows, SubRows
  <2>2. after.got = Head(q) /\ after.queue = Tail(q) /\ Drained(stream) = after
    BY <1>1 DEF SubRows, Drained
  <2>3. Story(<<stream.got>> \o q, now)
    BY DEF Follows, Tells
  <2>4. Tells(after) = q /\ Story(q, now) /\ q[Len(q)] = Newest(stream)
    BY <1>1, <2>1, <2>2, <2>3, StoryTold DEF Tells, Newest
  <2> HIDE DEF after, q
  <2>5. Newest(after) = q[Len(q)]
    BY <2>4 DEF Newest
  <2> QED
    BY <2>1, <2>2, <2>4, <2>5 DEF Follows
<1>2. CASE stream.queue = <<>>
  BY <1>2 DEF Drained, Follows, Tells, Newest, SubRows
<1> QED
  BY <1>1, <1>2

\* Publishing at once: everybody who listens is told.
LEMMA Emits ==
    ASSUME StoreOK, StreamsInv, NEW j \in Jobs, NEW x \in Snapshots,
           job[j].state \notin TERMINAL, job[j].line <= x.line,
           job' = [job EXCEPT ![j] = x], sub' = Emitted(j, x),
           timer' \subseteq timer, timer \ {j} \subseteq timer', x.state \in TERMINAL => j \notin timer'
    PROVE  StreamsInv'
<1>1. job \in [Jobs -> JobRows] /\ timer \subseteq Jobs /\ \A s \in Subs : sub[s] \in SubRows
  BY DEF StoreOK, StoreTypeOK
<1>2. job'[j] = x /\ \A k \in Jobs \ {j} : job'[k] = job[k]
  BY <1>1
<1>3. ASSUME NEW s \in Subs
      PROVE  /\ Listening(s, j) => sub'[s] = [sub[s] EXCEPT !.queue = Append(sub[s].queue, x),
                                                           !.woken = (sub[s].at = "waiting")]
             /\ ~Listening(s, j) => sub'[s] = sub[s]
             /\ sub'[s].at = sub[s].at /\ sub'[s].job = sub[s].job
             /\ (sub[s].at = "waiting") \in BOOLEAN
  BY <1>1 DEF Emitted, SubRows
<1>4. \A k \in timer' : job'[k].state \notin TERMINAL
  BY <1>1, <1>2 DEF StreamsInv
<1>5. ASSUME NEW s \in Subs
      PROVE  IF sub'[s].at \in {"yielded", "waiting"}
             THEN sub'[s].job \in Jobs
             ELSE sub'[s] \in {NewSub, Gone}
  BY <1>3, <1>5 DEF Listening, StreamsInv
<1>6. ASSUME NEW s \in Subs, NEW k \in Jobs, Listening(s, k)'
      PROVE  Follows(sub'[s], job'[k]) /\ (Newest(sub'[s]) = job'[k] \/ k \in timer')
  <2>1. Listening(s, k)
    BY <1>3, <1>6 DEF Listening
  <2>2. Follows(sub[s], job[k]) /\ (Newest(sub[s]) = job[k] \/ k \in timer)
    BY <2>1 DEF StreamsInv
  <2>3. CASE k = j
    <3> DEFINE woken == sub[s].at = "waiting"
    <3>1. woken \in BOOLEAN /\ job[j] \in JobRows /\ sub[s] \in SubRows
      BY <1>1, <1>3
    <3> DEFINE after == [sub[s] EXCEPT !.queue = Append(sub[s].queue, x), !.woken = woken]
    <3>2. sub'[s] = after
      BY <1>3, <2>1, <2>3
    <3> HIDE DEF woken
    <3>3. Follows(after, x) /\ Newest(after) = x
      BY <2>2, <2>3, <3>1, RowHears
    <3> HIDE DEF after
    <3> QED
      BY <1>2, <2>3, <3>2, <3>3
  <2>4. CASE k # j
    <3>1. ~Listening(s, j)
      BY <2>1, <2>4 DEF Listening
    <3>2. sub'[s] = sub[s] /\ job'[k] = job[k]
      BY <1>2, <1>3, <2>4, <3>1
    <3>3. k \in timer => k \in timer'
      BY <2>4
    <3> QED
      BY <2>2, <3>2, <3>3
  <2> QED
    BY <2>3, <2>4
<1> QED
  BY <1>4, <1>5, <1>6 DEF StreamsInv

\* Publishing within the window: nobody is told, and the delivery is pending.
LEMMA Defers ==
    ASSUME StoreOK, StreamsInv, NEW j \in Jobs, NEW x \in Snapshots,
           job[j].state \notin TERMINAL, job[j].line <= x.line, x.state \notin TERMINAL,
           job' = [job EXCEPT ![j] = x], sub' = sub, timer' = timer \cup {j}
    PROVE  StreamsInv'
<1>1. job \in [Jobs -> JobRows] /\ timer \subseteq Jobs /\ \A s \in Subs : sub[s] \in SubRows
  BY DEF StoreOK, StoreTypeOK
<1>2. job'[j] = x /\ \A k \in Jobs \ {j} : job'[k] = job[k]
  BY <1>1
<1>3. \A k \in timer' : job'[k].state \notin TERMINAL
  BY <1>1, <1>2 DEF StreamsInv
<1>4. ASSUME NEW s \in Subs, NEW k \in Jobs, Listening(s, k)'
      PROVE  Follows(sub'[s], job'[k]) /\ (Newest(sub'[s]) = job'[k] \/ k \in timer')
  <2>1. Follows(sub[s], job[k]) /\ (Newest(sub[s]) = job[k] \/ k \in timer)
    BY <1>4 DEF StreamsInv, Listening
  <2>2. CASE k = j
    <3>1. job[j] \in JobRows /\ sub[s] \in SubRows /\ TRUE \in BOOLEAN
      BY <1>1
    <3>2. Follows(sub[s], x)
      BY <2>1, <2>2, <3>1, RowHears
    <3> QED
      BY <1>2, <2>2, <3>2
  <2>3. CASE k # j
    BY <1>2, <2>1, <2>3
  <2> QED
    BY <2>2, <2>3
<1> QED
  BY <1>3, <1>4 DEF StreamsInv

\* Both ways of publishing, then.
LEMMA Publishes ==
    ASSUME StoreOK, StreamsInv, NEW j \in Jobs, NEW x \in Snapshots,
           job[j].state \notin TERMINAL, job[j].line <= x.line, job' = [job EXCEPT ![j] = x],
           PublishNow(j, x) \/ (x.state \notin TERMINAL /\ PublishPaced(j, x))
    PROVE  StreamsInv'
<1>1. CASE PublishNow(j, x)
  BY <1>1, Emits DEF PublishNow
<1>2. CASE x.state \notin TERMINAL /\ PublishPaced(j, x) /\ j \in paced
  BY <1>2, Defers DEF PublishPaced
<1>3. CASE x.state \notin TERMINAL /\ PublishPaced(j, x) /\ j \notin paced
  BY <1>3, Emits DEF PublishPaced
<1> QED
  BY <1>1, <1>2, <1>3

\* A transition is published, whichever way.
LEMMA BecomesTold ==
    ASSUME StoreOK, StreamsInv, NEW j \in Jobs, NEW state \in CloneStates, Becomes(j, state)
    PROVE  StreamsInv'
<1> DEFINE after == [job[j] EXCEPT !.state = state]
<1>1. job[j] \in JobRows
  BY DEF StoreOK, StoreTypeOK
<1>2. after \in Snapshots
  BY <1>1, JobRowTypes
<1>3. after.state = state /\ after.line = job[j].line /\ job[j].line \in Nat
  BY <1>1 DEF JobRows
<1>4. job[j].line <= after.line
  BY <1>3
<1>5. job[j].state \notin TERMINAL
  <2>1. state \in ALLOWED[job[j].state]
    BY DEF Becomes
  <2>2. \A t \in TERMINAL : ALLOWED[t] = {}
    BY DEF ALLOWED, TERMINAL, CloneStates
  <2> QED
    BY <2>1, <2>2
<1>6. /\ job' = [job EXCEPT ![j] = after]
      /\ PublishNow(j, after) \/ (state \notin TERMINAL /\ PublishPaced(j, after))
  BY DEF Becomes
<1> HIDE DEF after
<1> QED
  BY <1>2, <1>3, <1>4, <1>5, <1>6, Publishes

\* A cancellation, a line of progress and the trailing delivery, too.
LEMMA CancelTold ==
    ASSUME StoreOK, StreamsInv, NEW j \in Jobs, Cancel(j)
    PROVE  StreamsInv'
<1> DEFINE after == [job[j] EXCEPT !.state = "cancelled"]
<1>1. job[j] \in JobRows /\ job[j].state = "cloning"
  BY DEF StoreOK, StoreTypeOK, Cancel, MayCancel
<1>2. after \in Snapshots
  BY <1>1, JobRowTypes DEF CloneStates, TERMINAL
<1>3. after.line = job[j].line /\ job[j].line \in Nat
  BY <1>1 DEF JobRows
<1>4. job[j].line <= after.line /\ job[j].state \notin TERMINAL
  BY <1>1, <1>3 DEF TERMINAL
<1>5. job' = [job EXCEPT ![j] = after] /\ PublishNow(j, after)
  BY DEF Cancel
<1> HIDE DEF after
<1> QED
  BY <1>2, <1>4, <1>5, Publishes

LEMMA ProgressTold ==
    ASSUME StoreOK, StreamsInv, NEW j \in Jobs, Progress(j)
    PROVE  StreamsInv'
<1> DEFINE after == [job[j] EXCEPT !.line = @ + 1]
<1>1. job[j] \in JobRows /\ job[j].state = "cloning"
  BY DEF StoreOK, StoreTypeOK, Progress
<1>2. after \in Snapshots
  BY <1>1, JobRowTypes
<1>3. after.line = job[j].line + 1 /\ job[j].line \in Nat /\ after.state = "cloning"
  BY <1>1 DEF JobRows
<1>4. job[j].line <= after.line /\ job[j].state \notin TERMINAL /\ after.state \notin TERMINAL
  BY <1>1, <1>3 DEF TERMINAL
<1>5. job' = [job EXCEPT ![j] = after] /\ PublishPaced(j, after)
  BY DEF Progress
<1> HIDE DEF after
<1> QED
  BY <1>2, <1>4, <1>5, Publishes

LEMMA PaceTold ==
    ASSUME StoreOK, StreamsInv, NEW j \in Jobs, Pace(j)
    PROVE  StreamsInv'
<1>1. CASE WindowElapses(j)
  BY <1>1 DEF WindowElapses, StreamsInv, Listening
<1>2. CASE TimerFires(j)
  <2>1. job[j] \in JobRows /\ job[j].state \in CloneStates /\ job \in [Jobs -> JobRows]
    BY <1>2 DEF TimerFires, StoreOK, StoreTypeOK
  <2>2. job[j] \in Snapshots /\ job[j].line \in Nat
    BY <2>1, JobRowTypes DEF JobRows
  <2>3. job[j].line <= job[j].line /\ job[j].state \notin TERMINAL
    BY <1>2, <2>2 DEF TimerFires, StreamsInv
  <2>4. job' = [job EXCEPT ![j] = job[j]]
    BY <1>2, <2>1 DEF TimerFires
  <2>5. sub' = Emitted(j, job[j]) /\ timer' \subseteq timer /\ timer \ {j} \subseteq timer'
    BY <1>2 DEF TimerFires
  <2> QED
    BY <2>2, <2>3, <2>4, <2>5, Emits
<1> QED
  BY <1>1, <1>2 DEF Pace

\* Nobody listens to an id that was not given out, so a start needs no telling.
LEMMA StartTold ==
    ASSUME StoreOK, StreamsInv, NEW j \in Jobs, Start(j)
    PROVE  StreamsInv'
<1>1. \A k \in Jobs \ {j} : job'[k] = job[k]
  BY StartStep
<1>2. job[j].state = "unused" /\ sub' = sub /\ timer' = timer
  BY DEF Start
<1>3. "unused" \notin CloneStates
  BY DEF CloneStates, TERMINAL
<1>4. j \notin timer /\ timer \subseteq Jobs
  BY <1>2, <1>3 DEF StoreOK, StoreTypeOK
<1>5. \A s \in Subs : ~Listening(s, j)
  BY <1>2, <1>3 DEF StreamsInv, Follows, Snapshots
<1>6. \A s \in Subs, k \in Jobs : Listening(s, k)' => Listening(s, k) /\ k # j
  BY <1>2, <1>5 DEF Listening
<1> QED
  BY <1>1, <1>2, <1>4, <1>6 DEF StreamsInv

\* A step of one stream is right if its new row is.
LEMMA RowStep ==
    ASSUME StoreOK, StreamsInv, NEW s \in Subs, NEW stream,
           sub' = [sub EXCEPT ![s] = stream], job' = job, timer' = timer,
           IF stream.at \in {"yielded", "waiting"} THEN stream.job \in Jobs ELSE stream \in {NewSub, Gone},
           stream.at \in {"yielded", "waiting"} =>
             /\ Follows(stream, job[stream.job])
             /\ Newest(stream) = job[stream.job] \/ stream.job \in timer
    PROVE  StreamsInv'
<1>1. sub'[s] = stream /\ \A t \in Subs \ {s} : sub'[t] = sub[t]
  BY DEF StoreOK, StoreTypeOK
<1>2. ASSUME NEW t \in Subs, NEW j \in Jobs, Listening(t, j)'
      PROVE  Follows(sub'[t], job'[j]) /\ (Newest(sub'[t]) = job'[j] \/ j \in timer')
  BY <1>1, <1>2 DEF StreamsInv, Listening
<1> QED
  BY <1>1, <1>2 DEF StreamsInv

\* A stream that ends is right.
LEMMA GoneStep ==
    ASSUME StoreOK, StreamsInv, NEW s \in Subs, sub' = [sub EXCEPT ![s] = Gone],
           job' = job, timer' = timer
    PROVE  StreamsInv'
<1>1. Gone.at = "gone"
  BY DEF Gone, NewSub
<1> HIDE DEF Gone
<1> QED
  BY <1>1, RowStep

\* So is one that has its next turn.
LEMMA DrainedStep ==
    ASSUME StoreOK, StreamsInv, NEW s \in Subs, NEW stream \in SubRows,
           sub[s].at \in {"yielded", "waiting"}, stream.at = sub[s].at, stream.job = sub[s].job,
           stream.got = sub[s].got, stream.queue = sub[s].queue,
           sub' = [sub EXCEPT ![s] = Drained(stream)], job' = job, timer' = timer
    PROVE  StreamsInv'
<1> DEFINE j == sub[s].job
           after == Drained(stream)
<1>1. j \in Jobs /\ Listening(s, j)
  BY DEF StreamsInv, Listening
<1>2. Follows(sub[s], job[j]) /\ (Newest(sub[s]) = job[j] \/ j \in timer)
  BY <1>1 DEF StreamsInv
<1>3. Follows(stream, job[j]) /\ Newest(stream) = Newest(sub[s])
  BY <1>2 DEF Follows, Newest, Tells
<1>4. Follows(after, job[j]) /\ Newest(after) = Newest(stream)
  BY <1>3, RowYields
<1>5. after.at \in {"yielded", "waiting"} /\ after.job = j
  BY DEF Drained, SubRows
<1> HIDE DEF after, j
<1> QED
  BY <1>1, <1>2, <1>3, <1>4, <1>5, RowStep DEF after

\* Every step of a stream, then.
LEMMA StreamTold ==
    ASSUME StoreOK, StreamsInv, NEW s \in Subs, Stream(s) \/ Watch(s)
    PROVE  StreamsInv'
<1>0. sub[s] \in SubRows
  BY DEF StoreOK, StoreTypeOK
<1>1. CASE AskNext(s) /\ Ends(sub[s])
  BY <1>1, GoneStep DEF AskNext
<1>2. CASE AskNext(s) /\ ~Ends(sub[s])
  BY <1>0, <1>2, DrainedStep DEF AskNext
<1>3. CASE Wake(s)
  <2> DEFINE stream == [sub[s] EXCEPT !.woken = FALSE]
  <2>1. /\ stream \in SubRows /\ stream.at = sub[s].at /\ stream.job = sub[s].job
        /\ stream.got = sub[s].got /\ stream.queue = sub[s].queue
    BY <1>0 DEF SubRows
  <2>2. /\ sub' = [sub EXCEPT ![s] = IF stream.aborted THEN Gone ELSE Drained(stream)]
        /\ sub[s].at = "waiting" /\ job' = job /\ timer' = timer
    BY <1>3 DEF Wake
  <2> HIDE DEF stream
  <2>3. CASE stream.aborted
    BY <2>2, <2>3, GoneStep
  <2>4. CASE ~stream.aborted
    BY <2>1, <2>2, <2>4, DrainedStep
  <2> QED
    BY <2>3, <2>4
<1>4. CASE CloseStream(s)
  BY <1>4, GoneStep DEF CloseStream
<1>5. CASE Abort(s)
  <2> DEFINE stream == [sub[s] EXCEPT !.aborted = TRUE,
                                      !.woken = sub[s].woken \/ sub[s].at = "waiting"]
  <2>1. /\ stream.at = sub[s].at /\ stream.job = sub[s].job
        /\ stream.got = sub[s].got /\ stream.queue = sub[s].queue
    BY <1>0 DEF SubRows
  <2>2. sub' = [sub EXCEPT ![s] = stream] /\ job' = job /\ timer' = timer
    BY <1>5 DEF Abort
  <2>3. sub[s].at \in {"yielded", "waiting"} /\ sub[s].job \in Jobs /\ Listening(s, sub[s].job)
    BY <1>5 DEF Abort, StreamsInv, Listening
  <2>4. /\ Follows(sub[s], job[sub[s].job])
        /\ Newest(sub[s]) = job[sub[s].job] \/ sub[s].job \in timer
    BY <2>3 DEF StreamsInv
  <2> HIDE DEF stream
  <2>5. Follows(stream, job[stream.job]) /\ Newest(stream) = Newest(sub[s])
    BY <2>1, <2>4 DEF Follows, Newest, Tells
  <2> QED
    BY <2>1, <2>2, <2>3, <2>4, <2>5, RowStep
<1>6. ASSUME NEW j \in Jobs, Subscribe(s, j) PROVE StreamsInv'
  <2> DEFINE stream == [NewSub EXCEPT !.at = "yielded", !.job = j, !.got = job[j]]
  <2>1. sub[s] = NewSub
    <3>1. sub[s] \in {NewSub, Gone} /\ sub[s].at = "new"
      BY <1>6 DEF Subscribe, StreamsInv
    <3>2. Gone.at = "gone"
      BY DEF Gone, NewSub
    <3> QED
      BY <3>1, <3>2
  <2>2. sub' = [sub EXCEPT ![s] = stream] /\ job' = job /\ timer' = timer
    BY <1>6, <2>1 DEF Subscribe, StoreOK, StoreTypeOK
  <2>3. job[j] \in Snapshots /\ job[j].line \in Nat
    BY <1>6, JobRowTypes DEF Subscribe, StoreOK, StoreTypeOK, JobRows
  <2>4. stream.at = "yielded" /\ stream.job = j /\ stream.got = job[j] /\ stream.queue = <<>>
    BY DEF NewSub
  <2>5. Tells(stream) = <<job[j]>>
    <3>1. <<job[j]>> \in Seq(Snapshots)
      BY <2>3
    <3> HIDE DEF stream
    <3> QED
      BY <2>4, <3>1, ConcatEmptySeq DEF Tells
  <2> HIDE DEF stream
  <2>6. Newest(stream) = job[j]
    BY <2>5 DEF Newest
  <2>7. Story(<<job[j]>>, job[j])
    BY <2>3 DEF Story
  <2>8. Follows(stream, job[j])
    BY <2>3, <2>4, <2>5, <2>7 DEF Follows
  <2> QED
    BY <2>2, <2>4, <2>6, <2>8, RowStep
<1> QED
  BY <1>1, <1>2, <1>3, <1>4, <1>5, <1>6 DEF Stream, Watch

LEMMA StreamsNext == TypeInv /\ StreamsInv /\ [Next]_vars => StreamsInv'
<1> SUFFICES ASSUME TypeInv, StreamsInv, [Next]_vars PROVE StreamsInv'
  OBVIOUS
<1>0. StoreOK
  BY DEF TypeInv
<1>1. ASSUME UNCHANGED storeVars PROVE StreamsInv'
  BY <1>1 DEF storeVars, StreamsInv, Listening
<1>2. ASSUME NEW j \in Jobs, NEW state \in CloneStates, Becomes(j, state) PROVE StreamsInv'
  BY <1>0, <1>2, BecomesTold
<1>3. "registering" \in CloneStates /\ "done" \in CloneStates /\ "failed" \in CloneStates
  BY DEF CloneStates, TERMINAL
<1>4. ASSUME NEW j \in Jobs, Run(j) PROVE StreamsInv'
  <2>1. CASE Renamed(j)
    BY <1>1, <1>2, <1>3, <2>1 DEF Renamed
  <2>2. CASE Finish(j)
    BY <1>2, <1>3, <2>2 DEF Finish
  <2>3. CASE Settle(j)
    BY <1>1, <1>2, <1>3, <2>3 DEF Settle
  <2>4. CASE ~(Renamed(j) \/ Finish(j) \/ Settle(j))
    <3>1. UNCHANGED storeVars
      BY <1>4, <2>4 DEF Run, Prepare, GitEnds, RewriteOrigin, ResolveTarget, Relocate, Rename,
                        DropTemp, RegisterRefused, RegisterDuplicate, Register, Retry, Move, Remove
    <3> QED
      BY <1>1, <3>1
  <2> QED
    BY <2>1, <2>2, <2>3, <2>4
<1>5. ASSUME NEW j \in Jobs, Pace(j) PROVE StreamsInv'
  BY <1>0, <1>5, PaceTold
<1>6. ASSUME NEW j \in Jobs, GitReports(j) \/ Cancel(j) PROVE StreamsInv'
  BY <1>0, <1>6, ProgressTold, CancelTold DEF GitReports
<1>7. ASSUME NEW j \in Jobs, NEW name \in Names, Clone(j, name) PROVE StreamsInv'
  BY <1>0, <1>7, StartTold DEF Clone
<1>8. ASSUME NEW name \in Names, AddByPath(name) PROVE StreamsInv'
  BY <1>1, <1>8 DEF AddByPath
<1>9. ASSUME NEW name \in Names, NEW new \in Names, RenameProject(name, new) PROVE StreamsInv'
  BY <1>1, <1>9 DEF RenameProject
<1>10. ASSUME NEW s \in Subs, Stream(s) \/ Watch(s) PROVE StreamsInv'
  BY <1>0, <1>10, StreamTold
<1>11. CASE Crash
  <2>1. NewSub.at = "new" /\ Gone.at = "gone"
    BY DEF NewSub, Gone
  <2>2. ASSUME NEW s \in Subs PROVE sub'[s] \in {NewSub, Gone}
    <3>1. sub[s].at = "new" => sub[s] = NewSub
      BY <2>1 DEF StreamsInv
    <3> QED
      BY <1>11, <3>1 DEF Crash
  <2>3. \A s \in Subs, j \in Jobs : ~Listening(s, j)'
    BY <2>1, <2>2 DEF Listening
  <2>4. timer' = {}
    BY <1>11 DEF Crash
  <2> QED
    BY <2>1, <2>2, <2>3, <2>4 DEF StreamsInv
<1>12. CASE Boot
  BY <1>1, <1>12 DEF Boot
<1>13. CASE UNCHANGED vars
  BY <1>1, <1>13 DEF vars
<1> QED
  BY <1>4, <1>5, <1>6, <1>7, <1>8, <1>9, <1>10, <1>11, <1>12, <1>13 DEF Next

LEMMA StreamsInit == Init => StreamsInv
<1> SUFFICES ASSUME Init PROVE StreamsInv
  OBVIOUS
<1>1. timer = {} /\ \A s \in Subs : sub[s] = NewSub
  BY DEF Init, StoreInit
<1>2. NewSub.at = "new"
  BY DEF NewSub
<1> QED
  BY <1>1, <1>2 DEF StreamsInv, Listening

\* Whatever is published while a window is open, a stream has been given the
\* job as it is, or the trailing delivery that will give it is still armed:
\* no change of a job, and not its end, is lost to `publish`.
THEOREM WindowsLoseNothing == Spec => []NothingLostToTheWindow
<1>1. StreamsInv => NothingLostToTheWindow
  BY DEF StreamsInv, NothingLostToTheWindow, Told, Newest, Tells
<1>2. TypeInv /\ StreamsInv /\ [Next]_vars => (TypeInv /\ StreamsInv)'
  BY TypeInvNext, StreamsNext
<1> QED
  BY <1>1, <1>2, TypeInvInit, StreamsInit, PTL DEF Spec

\* What a stream yields, and will yield, is a story of its job in order: lines
\* never go back, and the terminal snapshot is the last.
THEOREM StoriesAreInOrder == Spec => []StoryInOrder
<1>1. TypeInv /\ StreamsInv => StoryInOrder
  <2> SUFFICES ASSUME TypeInv, StreamsInv, NEW s \in Subs, NEW i \in 1 .. Len(Told(s)) - 1
               PROVE  Told(s)[i].state \notin TERMINAL /\ Told(s)[i].line <= Told(s)[i + 1].line
    BY DEF StoryInOrder
  <2>1. CASE sub[s].at \in {"yielded", "waiting"}
    <3> DEFINE T == Told(s)
    <3>1. Follows(sub[s], job[sub[s].job])
      BY <2>1 DEF StreamsInv, Listening
    <3>2. Story(T, job[sub[s].job])
      BY <3>1 DEF Follows, Tells, Told
    <3>3. Len(T) \in Nat
      <4>1. sub[s].queue \in Seq(Snapshots) /\ sub[s].got \in Snapshots
        BY <3>1 DEF TypeInv, StoreOK, StoreTypeOK, SubRows, Follows
      <4>2. T \in Seq(Snapshots)
        BY <4>1, FirstAndQueue DEF Told
      <4> QED
        BY <4>2, LenProperties
    <3> HIDE DEF T
    <3>4. i \in 1 .. Len(T) /\ i # Len(T) /\ i \in 1 .. Len(T) - 1
      BY <3>3 DEF T
    <3>5. T[i].state \notin TERMINAL /\ T[i].line <= T[i + 1].line
      BY <3>2, <3>4 DEF Story
    <3> QED
      BY <3>5 DEF T
  <2>2. CASE sub[s].at \notin {"yielded", "waiting"}
    <3>1. sub[s] \in {NewSub, Gone}
      BY <2>2 DEF StreamsInv
    <3>2. sub[s].queue = <<>> /\ sub[s].got = None
      BY <3>1 DEF NewSub, Gone
    <3>3. Told(s) = <<None>>
      BY <3>2 DEF Told
    <3>4. Len(<<None>>) - 1 = 0
      OBVIOUS
    <3> QED
      BY <3>3, <3>4
  <2> QED
    BY <2>1, <2>2
<1>2. TypeInv /\ StreamsInv /\ [Next]_vars => (TypeInv /\ StreamsInv)'
  BY TypeInvNext, StreamsNext
<1> QED
  BY <1>1, <1>2, TypeInvInit, StreamsInit, PTL DEF Spec
=============================================================================
