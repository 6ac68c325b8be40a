------------------------------- MODULE PrCache -------------------------------
(***************************************************************************)
(* The cache of the pull requests of a project (pr/PrCache.ts) and the     *)
(* parties that ask it: the bar and the sidebar (routers/pr.ts), the merge *)
(* and create routes, and the conveyor when it opens a pull request and    *)
(* when it publishes the notes of a review (tasks/conveyor-ports.ts).      *)
(*                                                                         *)
(* The host is external: `history[p]` lists what `gh` would have said of   *)
(* the one branch that matters in project p, oldest first.  A read begun   *)
(* when the history was `since` long answers with an entry no older than   *)
(* that, or fails.  Ages are abstract: `fresh` stands for                  *)
(* now() < freshUntil, and Ages is the passing of the TTL, whatever length *)
(* ttlOf gave it.                                                          *)
(***************************************************************************)
EXTENDS Naturals, Sequences

CONSTANTS
  Projects,
  Screens,           \* calls from the client: the bar, the sidebar, the routes
  Conveyors,         \* calls from a run of the conveyor
  PrStates,          \* the facts the host can report of the branch
  NoPr,              \* the one of them that says: no pull request
  MaxHistory,        \* bound: entries of a history
  MaxWant            \* bound: invalidations of a project

\* A pull request as the adapter reports it, with its checks and reviews
\* counted: failed and running say whether any check is in that group.
Facts == [state : {"OPEN", "MERGED", "CLOSED"}, draft : BOOLEAN,
          mergeable : {"MERGEABLE", "CONFLICTING", "UNKNOWN"},
          mergeState : {"CLEAN", "BLOCKED", "DIRTY", "BEHIND", "UNSTABLE", "HAS_HOOKS", "UNKNOWN"},
          review : {"", "APPROVED", "CHANGES_REQUESTED", "REVIEW_REQUIRED"},
          failed : BOOLEAN, running : BOOLEAN]

ASSUME ProjectsAssumption == Projects # {}
ASSUME NoPrAssumption == NoPr \in PrStates
ASSUME FactsAssumption == PrStates \ {NoPr} \subseteq Facts
ASSUME BoundsAssumption == MaxHistory \in Nat /\ MaxWant \in Nat
ASSUME CallersAssumption == Screens \cap Conveyors = {}

Callers == Screens \cup Conveyors

VARIABLES
  history,   \* external: what the host would have said of each project
  slot,      \* slots.get(p), or Vacant before anybody asked
  call,      \* what each caller asked, waits for and was told
  floor      \* history variable: Len(history[p]) at the last invalidation

vars == <<history, slot, call, floor>>

-----------------------------------------------------------------------------
(* The verdict (pr/verdict.ts, decide): the order is the algorithm. *)

DecideOpen(f) ==
  CASE f.draft -> "draft"
    [] ~f.draft /\ \/ f.mergeable = "CONFLICTING"
                   \/ f.mergeState = "DIRTY"
                   \/ f.failed
                   \/ f.review \in {"CHANGES_REQUESTED", "REVIEW_REQUIRED"}
                   \/ f.mergeState = "BEHIND"
         -> "blocked"
    [] OTHER ->
         IF f.running THEN "pending"
         ELSE IF f.mergeState = "BLOCKED" THEN "blocked"
         ELSE IF f.mergeable = "MERGEABLE" /\ f.mergeState \in {"CLEAN", "UNSTABLE", "HAS_HOOKS"}
              THEN "ready"
         ELSE "pending"

Decide(f) ==
  CASE f.state = "MERGED" -> "merged"
    [] f.state = "CLOSED" -> "closed"
    [] OTHER -> DecideOpen(f)

-----------------------------------------------------------------------------
(* The slot of a project. *)

NoFlight == [on |-> FALSE, want |-> 0, since |-> 0]
Flights == [on : BOOLEAN, want : Nat, since : Nat]

Slots == [there : BOOLEAN,    \* slots has an entry for the project
          snapshot : Nat,     \* index in the history, 0 for null
          failure : BOOLEAN,  \* the last read failed
          fresh : BOOLEAN,    \* now() < freshUntil
          want : Nat, served : Nat, inFlight : Flights]

Vacant == [there |-> FALSE, snapshot |-> 0, failure |-> FALSE, fresh |-> FALSE,
           want |-> 0, served |-> 0, inFlight |-> NoFlight]

Known(s) == s.snapshot # 0 \/ s.failure

\* get waits when nothing is known, and when a new read was asked for.
MustWait(s) == ~Known(s) \/ s.want > s.served

\* What the host said in the entry a slot or an answer points at.
Said(p, i) == history[p][i]
Now(p) == history[p][Len(history[p])]

-----------------------------------------------------------------------------
(* The callers. *)

\* joined: awaits the promise of the read in flight.
\* chained: awaits it, and calls start again afterwards (again).
\* writing: the host is executing the write this caller decided on.
Waiting == {"joined", "chained", "again"}
Pcs == {"idle", "answered", "writing", "wrote"} \cup Waiting

\* look: the bar, the sidebar, the gate.  merge and create: the routes.  open
\* and notes: the conveyor's openPullRequest and publishNotes.
Purposes == {"look", "merge", "create", "open", "notes"}

Calls == [pc : Pcs, for : Purposes, project : Projects,
          floor : Nat,        \* history variable: floor[p] when it asked
          asked : Nat,        \* history variable: Len(history[p]) when it asked;
                              \* 0 for a screen
          snapshot : Nat, failure : BOOLEAN,   \* the PrEntry it was given
          told : BOOLEAN]     \* pr.changed was emitted since it was given

NoCall == [pc |-> "idle", for |-> "look", project |-> CHOOSE p \in Projects : TRUE,
           floor |-> 0, asked |-> 0, snapshot |-> 0, failure |-> FALSE, told |-> FALSE]

Asking(pc, for, p, fl) ==
  [pc |-> pc, for |-> for, project |-> p, floor |-> fl,
   asked |-> IF for = "look" THEN 0 ELSE Len(history[p]),
   snapshot |-> 0, failure |-> FALSE, told |-> FALSE]

\* viewOf: the caller is given what the slot holds.
Given(k, s) == [k EXCEPT !.pc = "answered", !.snapshot = s.snapshot,
                         !.failure = s.failure, !.told = FALSE]

\* Who asks get for what.
Questions(c) == IF c \in Screens THEN {"look"} ELSE {"open", "notes"}

\* A screen asks as often as it likes; the others are done when they are done.
Free(c) == \/ call[c].pc = "idle"
           \/ call[c].pc = "answered" /\ call[c].for = "look"

Init ==
  /\ history \in [Projects -> {<<s>> : s \in PrStates}]
  /\ slot = [p \in Projects |-> Vacant]
  /\ call = [c \in Callers |-> NoCall]
  /\ floor = [p \in Projects |-> 0]

-----------------------------------------------------------------------------
(* The cache's own operations. *)

\* Mutant: a fresh value keeps start from reading.
FlyUnlessFresh(p, s) ==
  IF s.inFlight.on \/ s.fresh THEN s
  ELSE [s EXCEPT !.inFlight = [on |-> TRUE, want |-> s.want, since |-> Len(history[p])]]

\* start: the flight of slot s after it, and where the one who called it is.
Fly(p, s) ==
  IF s.inFlight.on THEN s
  ELSE [s EXCEPT !.inFlight = [on |-> TRUE, want |-> s.want, since |-> Len(history[p])]]

Joins(s) == IF ~s.inFlight.on \/ s.inFlight.want >= s.want THEN "joined" ELSE "chained"

\* invalidate, on a slot that is there.
Invalidated(s) == IF ~s.there THEN s ELSE [s EXCEPT !.fresh = FALSE, !.want = s.want + 1]

MayInvalidate(p) == slot[p].there => slot[p].want < MaxWant

\* get, called by c on the slot s of p: waits, or is told what is known, and
\* then a stale value is read again behind its back.
GetFrom(c, for, p, s, fl) ==
  LET here == [s EXCEPT !.there = TRUE] IN
  IF MustWait(here)
  THEN /\ slot' = [slot EXCEPT ![p] = Fly(p, here)]
       /\ call' = [call EXCEPT ![c] = Asking(Joins(here), for, p, fl)]
  ELSE /\ slot' = [slot EXCEPT ![p] = IF here.fresh THEN here ELSE Fly(p, here)]
       /\ call' = [call EXCEPT ![c] = Given(Asking("answered", for, p, fl), here)]

\* getByWorktree, listByProject, and the two questions of the conveyor.
Get(c, for, p) ==
  /\ Free(c)
  /\ GetFrom(c, for, p, slot[p], floor[p])
  /\ UNCHANGED <<history, floor>>

\* merge invalidates and asks in one stretch: what is known does not count.
AskToMerge(c, p) ==
  /\ Free(c)
  /\ MayInvalidate(p)
  /\ floor' = [floor EXCEPT ![p] = Len(history[p])]
  /\ GetFrom(c, "merge", p, Invalidated(slot[p]), Len(history[p]))
  /\ UNCHANGED history

\* refresh: the button that reads again.
Refresh(p) ==
  /\ MayInvalidate(p)
  /\ floor' = [floor EXCEPT ![p] = Len(history[p])]
  /\ slot' = [slot EXCEPT ![p] = Invalidated(slot[p])]
  /\ UNCHANGED <<history, call>>

\* Mutant: a finished read serves every request made so far.
LandedForAll(p, ok, i) ==
  LET s == slot[p] IN
  [s EXCEPT !.snapshot = IF ok THEN i ELSE s.snapshot, !.failure = ~ok,
            !.fresh = TRUE, !.served = s.want, !.inFlight = NoFlight]

\* What a finished read leaves in the slot.  The value stays when it fails,
\* and the request it was serving is served either way.
Landed(p, ok, i) ==
  LET s == slot[p] IN
  [s EXCEPT !.snapshot = IF ok THEN i ELSE s.snapshot,
            !.failure = ~ok,
            !.fresh = TRUE,
            !.served = IF s.inFlight.want > s.served THEN s.inFlight.want ELSE s.served,
            !.inFlight = NoFlight]

\* Mutant: the first data is not a change.
AnnouncesChanges(p, ok, i) ==
  ok /\ slot[p].snapshot # 0 /\ Said(p, i) # Said(p, slot[p].snapshot)

\* The digest of no snapshot is that of nothing the host can say.
Announces(p, ok, i) ==
  ok /\ (slot[p].snapshot = 0 \/ Said(p, i) # Said(p, slot[p].snapshot))

\* fetch ends: the slot, pr.changed when the data differs, and then the
\* callers: those who joined are answered, those who chained ask again.
ReadEnds(p, ok, i) ==
  /\ slot[p].inFlight.on
  /\ i \in slot[p].inFlight.since .. Len(history[p])
  /\ slot' = [slot EXCEPT ![p] = Landed(p, ok, i)]
  /\ call' = [c \in Callers |->
       CASE call[c].project = p /\ call[c].pc = "joined" ->
              Given(call[c], Landed(p, ok, i))
         [] call[c].project = p /\ call[c].pc = "chained" ->
              [call[c] EXCEPT !.pc = "again"]
         [] call[c].project = p /\ call[c].pc = "answered" /\ call[c].for = "look" ->
              [call[c] EXCEPT !.told = @ \/ Announces(p, ok, i)]
         [] OTHER -> call[c]]
  /\ UNCHANGED <<history, floor>>

\* current.promise.then(() => start(project, slot))
StartAgain(c) ==
  /\ call[c].pc = "again"
  /\ LET p == call[c].project IN
       /\ slot' = [slot EXCEPT ![p] = Fly(p, slot[p])]
       /\ call' = [call EXCEPT ![c].pc = Joins(slot[p])]
  /\ UNCHANGED <<history, floor>>

\* The TTL of what is known runs out.
Ages(p) ==
  /\ slot[p].fresh
  /\ slot' = [slot EXCEPT ![p].fresh = FALSE]
  /\ UNCHANGED <<history, call, floor>>

-----------------------------------------------------------------------------
(* What is done with the answer. *)

Done(c) == call' = [call EXCEPT ![c] = NoCall]

\* Mutant: the merge trusts the snapshot a failed read left in place.
MayMergeOnOldGreen(c) ==
  call[c].snapshot # 0
  /\ LET f == Said(call[c].project, call[c].snapshot) IN f # NoPr /\ Decide(f) = "ready"

\* The merge route goes to the host only on a known, unfailed, ready verdict,
\* and by a strategy the repository allows: that part is left to RefuseMerge.
MayMerge(c) ==
  /\ ~call[c].failure
  /\ call[c].snapshot # 0
  /\ LET f == Said(call[c].project, call[c].snapshot) IN f # NoPr /\ Decide(f) = "ready"

\* Also with a ready verdict: the repository may not allow the strategy that
\* was clicked.
RefuseMerge(c) ==
  /\ call[c].pc = "answered" /\ call[c].for = "merge"
  /\ Done(c)
  /\ UNCHANGED <<history, slot, floor>>

GoToMerge(c) ==
  /\ call[c].pc = "answered" /\ call[c].for = "merge" /\ MayMerge(c)
  /\ call' = [call EXCEPT ![c].pc = "writing"]
  /\ UNCHANGED <<history, slot, floor>>

\* The verdict as the conveyor reads it (verdictOfWorktree): null when there
\* is no snapshot, or no pull request in it.  It never looks at the failure.
ConveyorSeesNone(c) ==
  IF call[c].snapshot = 0 THEN TRUE
  ELSE Said(call[c].project, call[c].snapshot) = NoPr

\* openPullRequest: the guard against a second one is the cached verdict.
GoToCreate(c) ==
  /\ call[c].pc = "answered" /\ call[c].for = "open" /\ ConveyorSeesNone(c)
  /\ call' = [call EXCEPT ![c].pc = "writing"]
  /\ UNCHANGED <<history, slot, floor>>

SkipCreate(c) ==
  /\ call[c].pc = "answered" /\ call[c].for = "open" /\ ~ConveyorSeesNone(c)
  /\ Done(c)
  /\ UNCHANGED <<history, slot, floor>>

\* publishNotes: no number, no comment, and the notes stay where they were.
Publish(c) ==
  /\ call[c].pc = "answered" /\ call[c].for = "notes"
  /\ Done(c)
  /\ UNCHANGED <<history, slot, floor>>

\* External: the host executes the write.  It refuses to merge what is not
\* open and to create what exists.
Opened(f) == f # NoPr /\ f.state = "OPEN"
Merged == [state |-> "MERGED", draft |-> FALSE, mergeable |-> "UNKNOWN",
           mergeState |-> "UNKNOWN", review |-> "", failed |-> FALSE, running |-> FALSE]
FirstDraft == [state |-> "OPEN", draft |-> TRUE, mergeable |-> "MERGEABLE",
               mergeState |-> "BLOCKED", review |-> "", failed |-> FALSE, running |-> FALSE]

HostTakes(c) ==
  LET p == call[c].project IN
  /\ call[c].pc = "writing"
  /\ Len(history[p]) < MaxHistory
  /\ IF call[c].for = "merge"
     THEN Opened(Now(p)) /\ history' = [history EXCEPT ![p] = Append(@, Merged)]
     ELSE ~Opened(Now(p)) /\ history' = [history EXCEPT ![p] = Append(@, FirstDraft)]
  /\ call' = [call EXCEPT ![c].pc = "wrote"]
  /\ UNCHANGED <<slot, floor>>

\* The write failed, or worked and its answer was lost to the timeout:
\* GIT_FAILED, or a null url, and nothing is invalidated.
WriteFails(c) ==
  /\ call[c].pc \in {"writing", "wrote"}
  /\ Done(c)
  /\ UNCHANGED <<history, slot, floor>>

\* create: the route asks nothing of the cache before it goes to the host.
GoToCreateFromScreen(c, p) ==
  /\ Free(c)
  /\ call' = [call EXCEPT ![c] = Asking("writing", "create", p, floor[p])]
  /\ UNCHANGED <<history, slot, floor>>

\* The write is known to have worked: the routes invalidate, the conveyor
\* only marks the task.
RouteReturns(c) ==
  LET p == call[c].project IN
  /\ call[c].pc = "wrote" /\ call[c].for \in {"merge", "create"}
  /\ MayInvalidate(p)
  /\ slot' = [slot EXCEPT ![p] = Invalidated(slot[p])]
  /\ floor' = [floor EXCEPT ![p] = Len(history[p])]
  /\ Done(c)
  /\ UNCHANGED history

OpenReturns(c) ==
  /\ call[c].pc = "wrote" /\ call[c].for = "open"
  /\ Done(c)
  /\ UNCHANGED <<history, slot, floor>>

\* External: people and checks change the pull request.
HostChanges(p, f) ==
  /\ Len(history[p]) < MaxHistory
  /\ f # Now(p) /\ f # NoPr
  /\ history' = [history EXCEPT ![p] = Append(@, f)]
  /\ UNCHANGED <<slot, call, floor>>

-----------------------------------------------------------------------------
Next ==
  \/ \E p \in Projects :
       \/ Refresh(p)
       \/ Ages(p)
       \/ \E f \in PrStates : HostChanges(p, f)
       \/ \E ok \in BOOLEAN, i \in 1 .. MaxHistory : ReadEnds(p, ok, i)
       \/ \E c \in Screens : AskToMerge(c, p) \/ GoToCreateFromScreen(c, p)
       \/ \E c \in Callers : \E for \in Questions(c) : Get(c, for, p)
  \/ \E c \in Callers :
       \/ StartAgain(c)
       \/ RefuseMerge(c) \/ GoToMerge(c)
       \/ GoToCreate(c) \/ SkipCreate(c)
       \/ Publish(c)
       \/ HostTakes(c) \/ WriteFails(c)
       \/ RouteReturns(c) \/ OpenReturns(c)

\* gh is killed after 20 s (pr/exec.ts), so a read ends; the continuation of
\* a promise runs.
Fairness ==
  /\ \A p \in Projects :
       WF_vars(\E ok \in BOOLEAN, i \in 1 .. MaxHistory : ReadEnds(p, ok, i))
  /\ \A c \in Callers : WF_vars(StartAgain(c))

Spec == Init /\ [][Next]_vars /\ Fairness

-----------------------------------------------------------------------------
(* Properties. *)

TypeOK ==
  /\ history \in [Projects -> Seq(PrStates \cup {Merged, FirstDraft})]
  /\ slot \in [Projects -> Slots]
  /\ call \in [Callers -> Calls]
  /\ floor \in [Projects -> Nat]

\* An answer without a failure is no older than the last invalidation before
\* the question, whoever made the read and however many shared it: the
\* counters of `want` and `served` in pr/PrCache.ts exist for this.
AnswersRespectInvalidations ==
  \A c \in Callers :
    /\ call[c].pc \in {"answered", "writing", "wrote"}
    /\ call[c].for # "create"
    /\ ~call[c].failure
    => call[c].snapshot # 0 /\ call[c].snapshot >= call[c].floor

\* What is safe to merge, said of the facts and not of the verdict.
SafeToMerge(f) ==
  /\ f # NoPr
  /\ f.state = "OPEN" /\ ~f.draft
  /\ ~f.failed /\ ~f.running
  /\ f.mergeable = "MERGEABLE"
  /\ f.review \notin {"CHANGES_REQUESTED", "REVIEW_REQUIRED"}
  /\ f.mergeState \notin {"DIRTY", "BEHIND", "BLOCKED", "UNKNOWN"}

\* The host is asked to merge only because of something it said after the
\* click, and what it said was fit to merge: an old green never merges
\* (routers/pr.ts, the comment of merge).
MergesOnlyOnFreshGreen ==
  \A c \in Callers :
    call[c].pc \in {"writing", "wrote"} /\ call[c].for = "merge"
    => /\ call[c].snapshot >= call[c].asked
       /\ SafeToMerge(Said(call[c].project, call[c].snapshot))

\* A screen whose data is not what the cache holds has been sent pr.changed
\* since it was drawn, so it asks again (F6.3).
ScreensAreTold ==
  \A c \in Callers :
    LET s == slot[call[c].project] IN
    /\ call[c].pc = "answered" /\ call[c].for = "look"
    /\ s.snapshot # call[c].snapshot
    /\ call[c].snapshot # 0 =>
         Said(call[c].project, s.snapshot) # Said(call[c].project, call[c].snapshot)
    => call[c].told

\* Whoever waits is answered, one who chained to a read that began before its
\* invalidation included.
EveryQuestionIsAnswered ==
  \A c \in Callers : call[c].pc \in Waiting ~> call[c].pc \notin Waiting

\* What a call is in the promise of the cache: a question or none.
QuestionOf(k) ==
  CASE k.pc = "idle" \/ k.for = "create" -> [state |-> "none"]
    [] k.for # "create" /\ k.pc \in Waiting ->
         [state |-> "asked", project |-> k.project, floor |-> k.floor]
    [] OTHER ->
         [state |-> "told", project |-> k.project, floor |-> k.floor,
          failed |-> k.failure, snap |-> k.snapshot]

Fresh == INSTANCE FreshReads WITH
  Callers <- Callers,
  PrStates <- PrStates \cup {Merged, FirstDraft},
  question <- [c \in Callers |-> QuestionOf(call[c])]

\* This module keeps the promise of FreshReads.
ImplementsFreshReads == Fresh!FreshSpec
=============================================================================
