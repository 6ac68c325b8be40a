---------------------------- MODULE PrCacheProofs ----------------------------
(***************************************************************************)
(* Proofs about the cache of pull requests: for any projects, callers and  *)
(* histories, an answer without a failure is no older than the last        *)
(* invalidation, the merge route writes only on such an answer, a screen   *)
(* is told when what it drew is no longer what is known, and the cache     *)
(* implements the promise of FreshReads.                                   *)
(***************************************************************************)
EXTENDS PrCache, SequenceTheorems, TLAPS

Entries == PrStates \cup {Merged, FirstDraft}

(***************************************************************************)
(* The inductive invariant.  SlotInv is about one slot, a history of       *)
(* length n and a floor f: the flight serves a request between the ones    *)
(* served and the ones made, and one that serves the newest began after    *)
(* the last invalidation; what is known without a failure, with nothing    *)
(* left to serve, is no older than that.                                   *)
(***************************************************************************)
SlotInv(s, n, f) ==
  /\ s \in Slots
  /\ s.snapshot <= n /\ f <= n
  /\ s.served <= s.want
  /\ s.inFlight.on => /\ s.served <= s.inFlight.want /\ s.inFlight.want <= s.want
                      /\ 1 <= s.inFlight.since /\ s.inFlight.since <= n
                      /\ s.inFlight.want = s.want => f <= s.inFlight.since
  /\ s.snapshot # 0 /\ ~s.failure /\ s.served = s.want => f <= s.snapshot
  /\ ~s.there => s.snapshot = 0 /\ ~s.failure /\ ~s.inFlight.on

\* A caller k, the history's length n, the floor f and the slot s of its
\* project: who joined waits for a read that began after its floor.
CallInv(k, n, f, s) ==
  /\ k \in Calls
  /\ k.snapshot <= n /\ k.asked <= n /\ k.floor <= f
  /\ k.for = "merge" => k.asked = k.floor
  /\ k.pc = "joined" => s.inFlight.on /\ k.floor <= s.inFlight.since
  /\ k.pc \in Waiting => s.there
  /\ k.pc \in {"answered", "writing", "wrote"} /\ k.for # "create" /\ ~k.failure
       => k.snapshot # 0 /\ k.floor <= k.snapshot
  /\ k.pc \in {"writing", "wrote"} /\ k.for = "merge" => ~k.failure

SlotsInv == \A p \in Projects : SlotInv(slot[p], Len(history[p]), floor[p])

CallsInv ==
  \A c \in Callers :
    LET p == call[c].project IN
    CallInv(call[c], Len(history[p]), floor[p], slot[p])

\* What a merge is about to write was fit to merge when it was read.
WritesInv ==
  \A c \in Callers :
    call[c].pc \in {"writing", "wrote"} /\ call[c].for = "merge"
    => SafeToMerge(Said(call[c].project, call[c].snapshot))

Shape ==
  /\ history \in [Projects -> Seq(Entries)]
  /\ \A p \in Projects : Len(history[p]) >= 1
  /\ slot \in [Projects -> Slots]
  /\ call \in [Callers -> Calls]
  /\ floor \in [Projects -> Nat]

IInv == Shape /\ SlotsInv /\ CallsInv /\ WritesInv

-----------------------------------------------------------------------------
(* The operators on a slot. *)

\* A read that starts begins at the present end of the history; one that is
\* under way is left alone.
LEMMA FlyKeeps ==
  ASSUME NEW p, NEW s, NEW f \in Nat, Len(history[p]) \in Nat, Len(history[p]) >= 1,
         SlotInv(s, Len(history[p]), f), s.there
  PROVE  /\ SlotInv(Fly(p, s), Len(history[p]), f)
         /\ Fly(p, s).inFlight.on /\ Fly(p, s).there
         /\ s.inFlight.on => Fly(p, s) = s
         /\ Joins(s) \in {"joined", "chained"}
         /\ Joins(s) = "joined" => f <= Fly(p, s).inFlight.since
<1>1. CASE s.inFlight.on
  BY <1>1, SMTT(20) DEF Fly, Joins, SlotInv, Slots, Flights
<1>2. CASE ~s.inFlight.on
  <2> DEFINE fl == [on |-> TRUE, want |-> s.want, since |-> Len(history[p])]
             t == [s EXCEPT !.inFlight = fl]
  <2>1. Fly(p, s) = t
    BY <1>2 DEF Fly
  <2>0. s \in Slots /\ fl \in Flights
    BY DEF SlotInv, Slots, Flights
  <2> HIDE DEF fl
  <2>2. /\ t \in Slots /\ t.inFlight = fl /\ t.snapshot = s.snapshot /\ t.failure = s.failure
        /\ t.want = s.want /\ t.served = s.served /\ t.there = s.there
    BY <2>0 DEF Slots
  <2>3. fl.on /\ fl.want = s.want /\ fl.since = Len(history[p])
    BY DEF fl
  <2> HIDE DEF t
  <2>4. s \in Slots /\ s.want \in Nat /\ s.served \in Nat /\ s.snapshot \in Nat
    BY DEF SlotInv, Slots
  <2>5. SlotInv(t, Len(history[p]), f)
    BY <2>2, <2>3, <2>4 DEF SlotInv
  <2> QED
    BY <1>2, <2>1, <2>2, <2>3, <2>5 DEF Joins, SlotInv
<1> QED
  BY <1>1, <1>2

\* An invalidation raises the floor to the end of the history; no read under
\* way serves the new request.
LEMMA InvalidatedKeeps ==
  ASSUME NEW s, NEW n \in Nat, NEW f \in Nat, SlotInv(s, n, f)
  PROVE  /\ SlotInv(Invalidated(s), n, n)
         /\ Invalidated(s).inFlight = s.inFlight
         /\ Invalidated(s).there = s.there
<1>1. CASE ~s.there
  BY <1>1 DEF Invalidated, SlotInv, Slots, Flights
<1>2. CASE s.there
  <2> DEFINE t == [s EXCEPT !.fresh = FALSE, !.want = s.want + 1]
  <2>1. Invalidated(s) = t
    BY <1>2 DEF Invalidated
  <2>0. s \in Slots /\ s.want + 1 \in Nat
    BY DEF SlotInv, Slots
  <2>2. /\ t \in Slots /\ t.inFlight = s.inFlight /\ t.snapshot = s.snapshot
        /\ t.failure = s.failure /\ t.want = s.want + 1 /\ t.served = s.served
        /\ t.there = s.there
    BY <2>0 DEF Slots
  <2> HIDE DEF t
  <2>3. /\ s.want \in Nat /\ s.served \in Nat /\ s.snapshot \in Nat
        /\ s.inFlight.want \in Nat /\ s.inFlight.since \in Nat
    BY DEF SlotInv, Slots, Flights
  <2> QED
    BY <1>2, <2>1, <2>2, <2>3 DEF SlotInv
<1> QED
  BY <1>1, <1>2

\* A finished read leaves a value no older than the floor, or a failure, or a
\* request still to be served.
LEMMA LandedKeeps ==
  ASSUME NEW p, NEW ok \in BOOLEAN, NEW i \in Nat, NEW n \in Nat, NEW f \in Nat,
         SlotInv(slot[p], n, f), slot[p].inFlight.on,
         slot[p].inFlight.since <= i, i <= n
  PROVE  /\ SlotInv(Landed(p, ok, i), n, f)
         /\ ~Landed(p, ok, i).failure
              => /\ Landed(p, ok, i).snapshot = i
                 /\ i # 0 /\ slot[p].inFlight.since <= i
<1> DEFINE s == slot[p]
           t == Landed(p, ok, i)
<1>1. /\ s.want \in Nat /\ s.served \in Nat /\ s.snapshot \in Nat /\ s.there \in BOOLEAN
      /\ s.inFlight.want \in Nat /\ s.inFlight.since \in Nat /\ s.failure \in BOOLEAN
  BY DEF SlotInv, Slots, Flights
<1>2. /\ t.snapshot = (IF ok THEN i ELSE s.snapshot) /\ t.failure = ~ok /\ t.there = s.there
      /\ t.want = s.want /\ t.inFlight = NoFlight
      /\ t.served = IF s.inFlight.want > s.served THEN s.inFlight.want ELSE s.served
      /\ t \in Slots
  <2>1. NoFlight \in Flights
    BY DEF NoFlight, Flights
  <2>2. s \in Slots
    BY DEF SlotInv
  <2> DEFINE served == IF s.inFlight.want > s.served THEN s.inFlight.want ELSE s.served
             snapshot == IF ok THEN i ELSE s.snapshot
             failure == ~ok
  <2>3. served \in Nat /\ snapshot \in Nat /\ failure \in BOOLEAN
    BY <1>1
  <2>4. t = [s EXCEPT !.snapshot = snapshot, !.failure = failure, !.fresh = TRUE,
                      !.served = served, !.inFlight = NoFlight]
    BY DEF Landed
  <2> HIDE DEF s, t, served, snapshot, failure
  <2>5. /\ t.snapshot = snapshot /\ t.failure = failure /\ t.there = s.there
        /\ t.want = s.want /\ t.inFlight = NoFlight /\ t.served = served
        /\ t \in Slots
    BY <2>1, <2>2, <2>3, <2>4 DEF Slots
  <2> QED
    BY <2>5 DEF served, snapshot, failure
<1>8. /\ ok => t.snapshot = i /\ ~t.failure
      /\ ~ok => t.snapshot = s.snapshot /\ t.failure
  BY <1>2, Zenon
<1>3. ~NoFlight.on
  BY DEF NoFlight
<1>4. s.there
  BY <1>1 DEF SlotInv
<1>5. /\ s.served <= s.inFlight.want /\ s.inFlight.want <= s.want
      /\ 1 <= s.inFlight.since /\ s.snapshot <= n /\ f <= n
      /\ s.inFlight.want = s.want => f <= s.inFlight.since
      /\ s.inFlight.since <= i /\ i <= n
  BY DEF SlotInv
<1> HIDE DEF s, t
<1>6. SlotInv(t, n, f)
  <2>1. CASE ok
    BY <2>1, <1>1, <1>2, <1>3, <1>4, <1>5, <1>8 DEF SlotInv
  <2>2. CASE ~ok
    BY <2>2, <1>1, <1>2, <1>3, <1>4, <1>5, <1>8 DEF SlotInv
  <2> QED
    BY <2>1, <2>2
<1>7. ~t.failure => t.snapshot = i /\ i # 0 /\ s.inFlight.since <= i
  BY <1>1, <1>5, <1>8
<1> QED
  BY <1>6, <1>7 DEF s, t

\* More history disturbs nothing.
LEMMA HistoryGrows ==
  ASSUME NEW s, NEW n \in Nat, NEW f \in Nat, SlotInv(s, n, f)
  PROVE  SlotInv(s, n + 1, f)
BY DEF SlotInv, Slots, Flights

-----------------------------------------------------------------------------
(* The calls. *)

LEMMA AskingIs ==
  ASSUME NEW pc \in Pcs, NEW for \in Purposes, NEW p \in Projects, NEW f \in Nat,
         Len(history[p]) \in Nat
  PROVE  /\ Asking(pc, for, p, f) \in Calls
         /\ Asking(pc, for, p, f).pc = pc /\ Asking(pc, for, p, f).for = for
         /\ Asking(pc, for, p, f).project = p /\ Asking(pc, for, p, f).floor = f
         /\ Asking(pc, for, p, f).asked <= Len(history[p])
         /\ for # "look" => Asking(pc, for, p, f).asked = Len(history[p])
         /\ Asking(pc, for, p, f).snapshot = 0
BY DEF Asking, Calls

LEMMA GivenIs ==
  ASSUME NEW k \in Calls, NEW s \in Slots
  PROVE  /\ Given(k, s) \in Calls /\ Given(k, s).pc = "answered"
         /\ Given(k, s).for = k.for /\ Given(k, s).project = k.project
         /\ Given(k, s).floor = k.floor /\ Given(k, s).asked = k.asked
         /\ Given(k, s).snapshot = s.snapshot /\ Given(k, s).failure = s.failure
<1>1. s.snapshot \in Nat /\ s.failure \in BOOLEAN
  BY DEF Slots
<1>2. "answered" \in Pcs
  BY DEF Pcs
<1> QED
  BY <1>1, <1>2 DEF Given, Calls

\* A caller of get on a slot that respects floor f is answered with something
\* no older than f, or waits for a read that began after it.
LEMMA GetFromKeeps ==
  ASSUME NEW c \in Callers, NEW p \in Projects, NEW for \in Purposes, NEW s,
         NEW f \in Nat, Len(history[p]) \in Nat, Len(history[p]) >= 1,
         SlotInv(s, Len(history[p]), f),
         for = "merge" => f = Len(history[p]),
         GetFrom(c, for, p, s, f)
  PROVE  \E t, k :
           /\ slot' = [slot EXCEPT ![p] = t] /\ call' = [call EXCEPT ![c] = k]
           /\ SlotInv(t, Len(history[p]), f) /\ CallInv(k, Len(history[p]), f, t)
           /\ s.inFlight.on => t.inFlight = s.inFlight
           /\ t.there
           /\ k.project = p /\ k.for = for /\ k.floor = f
           /\ k.pc \in {"joined", "chained", "answered"}
           /\ MustWait(s) => k.pc # "answered"
<1> DEFINE n == Len(history[p])
           here == [s EXCEPT !.there = TRUE]
<1>1. s \in Slots
  BY DEF SlotInv
<1>2. /\ here \in Slots /\ here.there /\ here.inFlight = s.inFlight
      /\ here.snapshot = s.snapshot /\ here.failure = s.failure
      /\ here.want = s.want /\ here.served = s.served
  BY <1>1 DEF Slots
<1>3. s.want \in Nat /\ s.served \in Nat /\ s.snapshot \in Nat
  BY <1>1 DEF Slots
<1> HIDE DEF here
<1>4. SlotInv(here, n, f)
  BY <1>2, <1>3 DEF SlotInv
<1>5. /\ SlotInv(Fly(p, here), n, f)
      /\ Fly(p, here).inFlight.on /\ Fly(p, here).there
      /\ here.inFlight.on => Fly(p, here) = here
      /\ Joins(here) \in {"joined", "chained"}
      /\ Joins(here) = "joined" => f <= Fly(p, here).inFlight.since
  BY <1>2, <1>4, FlyKeeps
<1>6. CASE MustWait(here)
  <2> DEFINE k == Asking(Joins(here), for, p, f)
             t == Fly(p, here)
  <2>1. slot' = [slot EXCEPT ![p] = t] /\ call' = [call EXCEPT ![c] = k]
    BY <1>6 DEF GetFrom, here
  <2>2. Joins(here) \in Pcs
    BY <1>5 DEF Pcs, Waiting
  <2>3. /\ k \in Calls /\ k.pc = Joins(here) /\ k.for = for /\ k.project = p /\ k.floor = f
        /\ k.asked <= n /\ (for # "look" => k.asked = n) /\ k.snapshot = 0
    BY <2>2, AskingIs
  <2> HIDE DEF k, t
  <2>4. CallInv(k, n, f, Fly(p, here))
    BY <2>3, <1>5 DEF CallInv, Waiting
  <2> QED
    BY <2>1, <2>3, <2>4, <1>5, <1>2 DEF t
<1>7. CASE ~MustWait(here)
  <2> DEFINE t == IF here.fresh THEN here ELSE Fly(p, here)
             k0 == Asking("answered", for, p, f)
             k == Given(k0, here)
  <2>1. slot' = [slot EXCEPT ![p] = t] /\ call' = [call EXCEPT ![c] = k]
    BY <1>7 DEF GetFrom, here
  <2>2. SlotInv(t, n, f) /\ (here.inFlight.on => t.inFlight = here.inFlight) /\ t.there
    BY <1>2, <1>4, <1>5
  <2>3. /\ k0 \in Calls /\ k0.for = for /\ k0.project = p /\ k0.floor = f
        /\ k0.asked <= n /\ (for # "look" => k0.asked = n)
    <3>1. "answered" \in Pcs
      BY DEF Pcs
    <3> QED
      BY <3>1, AskingIs
  <2> HIDE DEF k0
  <2>4. /\ k \in Calls /\ k.pc = "answered" /\ k.for = for /\ k.project = p
        /\ k.floor = f /\ k.asked = k0.asked /\ k.snapshot = here.snapshot
        /\ k.failure = here.failure
    BY <2>3, <1>2, GivenIs
  <2> HIDE DEF k, t
  <2>5. ~here.failure => here.snapshot # 0 /\ f <= here.snapshot
    BY <1>2, <1>3, <1>4, <1>7 DEF MustWait, Known, SlotInv
  <2>6. here.snapshot <= n
    BY <1>4 DEF SlotInv
  <2>7. CallInv(k, n, f, t)
    BY <2>2, <2>3, <2>4, <2>5, <2>6 DEF CallInv
  <2>8. ~MustWait(s)
    BY <1>2, <1>7 DEF MustWait, Known
  <2> QED
    BY <2>1, <2>2, <2>4, <2>7, <2>8, <1>2
<1> QED
  BY <1>6, <1>7

-----------------------------------------------------------------------------
(* The steps. *)

\* What a step has to show of a caller d whose call it leaves alone, or
\* changes, when slot p becomes t.
Kept(d, p, t) ==
  /\ call'[d] = call[d]
  /\ call[d].project = p /\ call[d].pc = "joined" => t.inFlight = slot[p].inFlight

Remade(d) ==
  LET q == call'[d].project IN
  /\ CallInv(call'[d], Len(history[q]), floor'[q], slot'[q])
  /\ call'[d].pc \in {"writing", "wrote"} /\ call'[d].for = "merge"
       => SafeToMerge(Said(q, call'[d].snapshot))

\* A step that changes one slot, its floor and some calls keeps the invariant
\* if the new slot and the new calls respect it.
LEMMA OneSlotStep ==
  ASSUME IInv, NEW p \in Projects, NEW t, NEW f \in Nat,
         history' = history,
         slot' = [slot EXCEPT ![p] = t],
         floor' = [floor EXCEPT ![p] = f],
         floor[p] <= f,
         SlotInv(t, Len(history[p]), f), slot[p].there => t.there,
         DOMAIN call' = Callers, call' = [d \in Callers |-> call'[d]],
         \A d \in Callers : Kept(d, p, t) \/ Remade(d)
  PROVE  IInv'
<1>1. /\ slot \in [Projects -> Slots] /\ floor \in [Projects -> Nat]
      /\ call \in [Callers -> Calls] /\ t \in Slots
      /\ history \in [Projects -> Seq(Entries)]
  BY DEF IInv, Shape, SlotInv
<1>2. /\ \A q \in Projects : slot'[q] = IF q = p THEN t ELSE slot[q]
      /\ \A q \in Projects : floor'[q] = IF q = p THEN f ELSE floor[q]
  BY <1>1
<1>3. SlotsInv'
  <2>1. \A q \in Projects : SlotInv(slot'[q], Len(history[q]), floor'[q])
    BY <1>2 DEF IInv, SlotsInv
  <2> QED
    BY <2>1 DEF SlotsInv
<1>4. ASSUME NEW d \in Callers
      PROVE  /\ CallInv(call'[d], Len(history[call'[d].project]),
                        floor'[call'[d].project], slot'[call'[d].project])
             /\ call'[d].pc \in {"writing", "wrote"} /\ call'[d].for = "merge"
                  => SafeToMerge(Said(call'[d].project, call'[d].snapshot))
  <2>1. CASE Remade(d)
    BY <2>1 DEF Remade
  <2>2. CASE Kept(d, p, t)
    <3> DEFINE q == call[d].project
    <3>1. CallInv(call[d], Len(history[q]), floor[q], slot[q]) /\ call[d] \in Calls
      BY <1>1 DEF IInv, CallsInv
    <3>2. q \in Projects /\ call[d].floor \in Nat
      BY <3>1 DEF Calls
    <3>3. floor[q] \in Nat /\ floor'[q] \in Nat /\ floor[q] <= floor'[q]
      BY <3>2, <1>1, <1>2
    <3>4. /\ call[d].pc = "joined" => slot'[q].inFlight = slot[q].inFlight
          /\ slot[q].there => slot'[q].there
      BY <2>2, <3>2, <1>2 DEF Kept
    <3>5. CallInv(call[d], Len(history[q]), floor'[q], slot'[q])
      BY <3>1, <3>2, <3>3, <3>4 DEF CallInv
    <3>6. call[d].pc \in {"writing", "wrote"} /\ call[d].for = "merge"
            => SafeToMerge(Said(q, call[d].snapshot))
      BY DEF IInv, WritesInv
    <3> QED
      BY <2>2, <3>5, <3>6 DEF Kept
  <2> QED
    BY <2>1, <2>2
<1>5. CallsInv'
  BY <1>4 DEF CallsInv
<1>6. WritesInv'
  BY <1>4 DEF WritesInv, Said
<1>7. Shape'
  <2>1. \A d \in Callers : call'[d] \in Calls
    BY <1>4 DEF CallInv
  <2>2. call' \in [Callers -> Calls]
    BY <2>1
  <2>3. \A q \in Projects : Len(history'[q]) >= 1
    BY DEF IInv, Shape
  <2> QED
    BY <1>1, <2>2, <2>3 DEF Shape
<1> QED
  BY <1>3, <1>5, <1>6, <1>7 DEF IInv

\* What the invariant says of one project and of one caller.
LEMMA AtProject ==
  ASSUME IInv, NEW p \in Projects
  PROVE  /\ Len(history[p]) \in Nat /\ Len(history[p]) >= 1
         /\ floor[p] \in Nat /\ slot[p] \in Slots
         /\ SlotInv(slot[p], Len(history[p]), floor[p])
         /\ slot = [slot EXCEPT ![p] = slot[p]] /\ floor = [floor EXCEPT ![p] = floor[p]]
         /\ floor[p] <= Len(history[p])
<1>1. history[p] \in Seq(Entries)
  BY DEF IInv, Shape
<1> QED
  BY <1>1, LenProperties DEF IInv, Shape, SlotsInv, SlotInv

LEMMA AtCaller ==
  ASSUME IInv, NEW c \in Callers
  PROVE  /\ call[c] \in Calls /\ call[c].project \in Projects
         /\ call[c].for \in Purposes /\ call[c].pc \in Pcs
         /\ CallInv(call[c], Len(history[call[c].project]),
                    floor[call[c].project], slot[call[c].project])
BY DEF IInv, Shape, CallsInv, Calls

\* A step of one caller alone.
LEMMA CallStep ==
  ASSUME IInv, NEW c \in Callers, NEW k,
         UNCHANGED <<history, slot, floor>>,
         call' = [call EXCEPT ![c] = k],
         k \in Calls,
         CallInv(k, Len(history[k.project]), floor[k.project], slot[k.project]),
         k.pc \in {"writing", "wrote"} /\ k.for = "merge"
           => SafeToMerge(Said(k.project, k.snapshot))
  PROVE  IInv'
<1>1. k.project \in Projects
  BY DEF Calls
<1> DEFINE p == k.project
<1>2. /\ slot' = [slot EXCEPT ![p] = slot[p]] /\ floor' = [floor EXCEPT ![p] = floor[p]]
      /\ floor[p] \in Nat /\ floor[p] <= floor[p]
      /\ SlotInv(slot[p], Len(history[p]), floor[p])
  BY <1>1, AtProject
<1>3. call \in [Callers -> Calls]
  BY DEF IInv, Shape
<1>4. \A d \in Callers : Kept(d, p, slot[p]) \/ Remade(d)
  <2> TAKE d \in Callers
  <2>1. CASE d = c
    BY <2>1, <1>3 DEF Remade
  <2>2. CASE d # c
    BY <2>2, <1>3 DEF Kept
  <2> QED
    BY <2>1, <2>2
<1>5. DOMAIN call' = Callers /\ call' = [d \in Callers |-> call'[d]]
  BY <1>3
<1> QED
  BY <1>1, <1>2, <1>4, <1>5, OneSlotStep

\* Asking: a screen, the conveyor or the merge route.
LEMMA AskStep ==
  ASSUME IInv, NEW c \in Callers, NEW p \in Projects, NEW for \in Purposes, NEW s,
         NEW f \in Nat, floor[p] <= f,
         SlotInv(s, Len(history[p]), f), s.inFlight = slot[p].inFlight,
         for = "merge" => f = Len(history[p]),
         GetFrom(c, for, p, s, f),
         history' = history, floor' = [floor EXCEPT ![p] = f]
  PROVE  IInv'
<1>1. Len(history[p]) \in Nat /\ Len(history[p]) >= 1 /\ SlotInv(slot[p], Len(history[p]), floor[p])
  BY AtProject
<1>2. PICK t, k :
           /\ slot' = [slot EXCEPT ![p] = t] /\ call' = [call EXCEPT ![c] = k]
           /\ SlotInv(t, Len(history[p]), f) /\ CallInv(k, Len(history[p]), f, t)
           /\ s.inFlight.on => t.inFlight = s.inFlight
           /\ t.there
           /\ k.project = p /\ k.for = for
           /\ k.pc \in {"joined", "chained", "answered"}
  BY <1>1, GetFromKeeps
<1>3. call \in [Callers -> Calls] /\ slot \in [Projects -> Slots] /\ floor \in [Projects -> Nat]
  BY DEF IInv, Shape
<1>4. \A d \in Callers : Kept(d, p, t) \/ Remade(d)
  <2> TAKE d \in Callers
  <2>1. CASE d = c
    <3>1. call'[d] = k /\ slot'[p] = t /\ floor'[p] = f
      BY <2>1, <1>2, <1>3
    <3> QED
      BY <3>1, <1>2 DEF Remade
  <2>2. CASE d # c
    <3>1. call'[d] = call[d]
      BY <2>2, <1>2, <1>3
    <3>2. call[d].project = p /\ call[d].pc = "joined" => slot[p].inFlight.on
      BY AtCaller DEF CallInv
    <3> QED
      BY <3>1, <3>2, <1>2 DEF Kept
  <2> QED
    BY <2>1, <2>2
<1>5. DOMAIN call' = Callers /\ call' = [d \in Callers |-> call'[d]]
  BY <1>2, <1>3
<1> QED
  BY <1>2, <1>4, <1>5, OneSlotStep

LEMMA GetStep ==
  ASSUME IInv, NEW c \in Callers, NEW p \in Projects, NEW for \in Questions(c), Get(c, for, p)
  PROVE  IInv'
<1>1. for \in Purposes /\ for # "merge"
  BY DEF Questions, Purposes
<1>2. /\ SlotInv(slot[p], Len(history[p]), floor[p]) /\ floor[p] \in Nat /\ floor[p] <= floor[p]
      /\ floor = [floor EXCEPT ![p] = floor[p]]
  BY AtProject
<1> QED
  BY <1>1, <1>2, AskStep DEF Get

LEMMA AskToMergeStep ==
  ASSUME IInv, NEW c \in Callers, NEW p \in Projects, AskToMerge(c, p)
  PROVE  IInv'
<1> DEFINE n == Len(history[p])
           s == Invalidated(slot[p])
<1>1. n \in Nat /\ SlotInv(slot[p], n, floor[p]) /\ floor[p] \in Nat /\ floor[p] <= n
  BY AtProject
<1>2. SlotInv(s, n, n) /\ s.inFlight = slot[p].inFlight
  BY <1>1, InvalidatedKeeps
<1>3. "merge" \in Purposes
  BY DEF Purposes
<1>4. GetFrom(c, "merge", p, s, n) /\ history' = history /\ floor' = [floor EXCEPT ![p] = n]
  BY DEF AskToMerge
<1> HIDE DEF s
<1> QED
  BY <1>1, <1>2, <1>3, <1>4, AskStep

\* Steps of a project that leave its flight and the calls alone.
LEMMA QuietStep ==
  ASSUME IInv, NEW p \in Projects, NEW t, NEW f \in Nat, floor[p] <= f,
         history' = history, call' = call,
         slot' = [slot EXCEPT ![p] = t], floor' = [floor EXCEPT ![p] = f],
         SlotInv(t, Len(history[p]), f), t.inFlight = slot[p].inFlight,
         slot[p].there => t.there
  PROVE  IInv'
<1>1. call \in [Callers -> Calls]
  BY DEF IInv, Shape
<1>2. \A d \in Callers : Kept(d, p, t)
  BY DEF Kept
<1>3. DOMAIN call' = Callers /\ call' = [d \in Callers |-> call'[d]]
  BY <1>1
<1> QED
  BY <1>2, <1>3, OneSlotStep

LEMMA RefreshStep ==
  ASSUME IInv, NEW p \in Projects, Refresh(p)
  PROVE  IInv'
<1>1. /\ Len(history[p]) \in Nat /\ SlotInv(slot[p], Len(history[p]), floor[p])
      /\ floor[p] \in Nat /\ floor[p] <= Len(history[p])
  BY AtProject
<1>2. /\ SlotInv(Invalidated(slot[p]), Len(history[p]), Len(history[p]))
      /\ Invalidated(slot[p]).inFlight = slot[p].inFlight
      /\ Invalidated(slot[p]).there = slot[p].there
  BY <1>1, InvalidatedKeeps
<1> QED
  BY <1>1, <1>2, QuietStep DEF Refresh

LEMMA AgesStep ==
  ASSUME IInv, NEW p \in Projects, Ages(p)
  PROVE  IInv'
<1> DEFINE s == slot[p]
           t == [s EXCEPT !.fresh = FALSE]
<1>1. /\ SlotInv(s, Len(history[p]), floor[p]) /\ s \in Slots
      /\ floor[p] \in Nat /\ floor[p] <= floor[p] /\ floor = [floor EXCEPT ![p] = floor[p]]
  BY AtProject
<1>2. slot' = [slot EXCEPT ![p] = t] /\ UNCHANGED <<history, call, floor>>
  BY DEF Ages
<1> HIDE DEF s
<1>3. /\ t \in Slots /\ t.inFlight = s.inFlight /\ t.snapshot = s.snapshot
      /\ t.failure = s.failure /\ t.want = s.want /\ t.served = s.served /\ t.there = s.there
  BY <1>1 DEF Slots
<1> HIDE DEF t
<1>4. SlotInv(t, Len(history[p]), floor[p])
  BY <1>1, <1>3 DEF SlotInv
<1> QED
  BY <1>1, <1>2, <1>3, <1>4, QuietStep DEF s

LEMMA StartAgainStep ==
  ASSUME IInv, NEW c \in Callers, StartAgain(c)
  PROVE  IInv'
<1> DEFINE p == call[c].project
           s == slot[p]
           t == Fly(p, s)
           k == [call[c] EXCEPT !.pc = Joins(s)]
           n == Len(history[p])
<1>1. /\ p \in Projects /\ call[c] \in Calls /\ CallInv(call[c], n, floor[p], s)
      /\ call[c].pc = "again"
  BY AtCaller DEF StartAgain
<1>2. /\ n \in Nat /\ n >= 1 /\ SlotInv(s, n, floor[p]) /\ floor[p] \in Nat
      /\ floor = [floor EXCEPT ![p] = floor[p]] /\ floor[p] <= floor[p]
  BY <1>1, AtProject
<1>3. slot' = [slot EXCEPT ![p] = t] /\ call' = [call EXCEPT ![c].pc = Joins(s)]
  BY DEF StartAgain
<1>4. call \in [Callers -> Calls] /\ slot \in [Projects -> Slots] /\ floor \in [Projects -> Nat]
  BY DEF IInv, Shape
<1>5. call' = [call EXCEPT ![c] = k]
  BY <1>3
<1>6. s.there
  BY <1>1 DEF CallInv, Waiting
<1>7. /\ SlotInv(t, n, floor[p]) /\ t.inFlight.on /\ t.there
      /\ s.inFlight.on => t = s
      /\ Joins(s) \in {"joined", "chained"}
      /\ Joins(s) = "joined" => floor[p] <= t.inFlight.since
  BY <1>2, <1>6, FlyKeeps
<1>8. /\ k.pc = Joins(s) /\ k \in Calls /\ k.project = p /\ k.for = call[c].for
      /\ k.floor = call[c].floor /\ k.asked = call[c].asked /\ k.snapshot = call[c].snapshot
      /\ k.failure = call[c].failure
  <2>1. Joins(s) \in Pcs
    BY <1>7 DEF Pcs, Waiting
  <2> HIDE DEF s
  <2> QED
    BY <1>1, <2>1 DEF Calls
<1> HIDE DEF k, t
<1>9. CallInv(k, n, floor[p], t)
  <2>1. t.inFlight.since \in Nat /\ call[c].floor \in Nat
    BY <1>1, <1>7 DEF SlotInv, Slots, Flights, Calls
  <2> QED
    BY <1>1, <1>2, <1>7, <1>8, <2>1 DEF CallInv, Waiting
<1>12. UNCHANGED <<history, floor>>
  BY DEF StartAgain
<1>13. slot' = [slot EXCEPT ![p] = t]
  BY <1>3
<1>10. \A d \in Callers : Kept(d, p, t) \/ Remade(d)
  <2> TAKE d \in Callers
  <2>1. CASE d = c
    <3>1. call'[d] = k
      BY <2>1, <1>4, <1>5
    <3>2. slot'[p] = t /\ floor'[p] = floor[p]
      BY <1>1, <1>4, <1>12, <1>13
    <3>3. k.pc \notin {"writing", "wrote"}
      BY <1>7, <1>8
    <3> QED
      BY <3>1, <3>2, <3>3, <1>8, <1>9 DEF Remade
  <2>2. CASE d # c
    <3>1. call'[d] = call[d]
      BY <2>2, <1>5, <1>4
    <3>2. call[d].project = p /\ call[d].pc = "joined" => s.inFlight.on
      BY AtCaller DEF CallInv
    <3> QED
      BY <3>1, <3>2, <1>7 DEF Kept
  <2> QED
    BY <2>1, <2>2
<1>11. DOMAIN call' = Callers /\ call' = [d \in Callers |-> call'[d]]
  BY <1>4, <1>5
<1>14. floor' = [floor EXCEPT ![p] = floor[p]] /\ history' = history
  BY <1>2, <1>12
<1>15. slot[p].there => t.there
  BY <1>7
<1> HIDE DEF p
<1> QED
  BY <1>1, <1>2, <1>7, <1>10, <1>11, <1>13, <1>14, <1>15, OneSlotStep

LEMMA ReadEndsStep ==
  ASSUME IInv, NEW p \in Projects, NEW ok \in BOOLEAN, NEW i \in 1 .. MaxHistory,
         ReadEnds(p, ok, i)
  PROVE  IInv'
<1> DEFINE s == slot[p]
           t == Landed(p, ok, i)
           n == Len(history[p])
<1>1. /\ n \in Nat /\ SlotInv(s, n, floor[p]) /\ floor[p] \in Nat /\ s \in Slots
      /\ floor = [floor EXCEPT ![p] = floor[p]] /\ floor[p] <= floor[p]
  BY AtProject
<1>2. i \in Nat /\ s.inFlight.on /\ s.inFlight.since <= i /\ i <= n
  <2>1. s.inFlight.since \in Nat
    BY <1>1 DEF Slots, Flights
  <2>2. s.inFlight.on /\ i \in s.inFlight.since .. n
    BY DEF ReadEnds
  <2> QED
    BY <2>1, <2>2, <1>1, BoundsAssumption
<1>3. /\ SlotInv(t, n, floor[p])
      /\ ~t.failure => t.snapshot = i /\ i # 0 /\ s.inFlight.since <= i
  BY <1>1, <1>2, LandedKeeps
<1>4. s.there /\ t.there = s.there
  <2>1. s.there
    BY <1>1, <1>2 DEF SlotInv, Slots
  <2>2. t.there = s.there
    BY <1>1 DEF Landed, Slots
  <2> QED
    BY <2>1, <2>2
<1>5. /\ slot' = [slot EXCEPT ![p] = t] /\ history' = history
      /\ floor' = [floor EXCEPT ![p] = floor[p]]
  BY <1>1 DEF ReadEnds
<1>6. slot \in [Projects -> Slots] /\ floor \in [Projects -> Nat]
  BY DEF IInv, Shape
<1>7. slot'[p] = t /\ floor'[p] = floor[p]
  BY <1>5, <1>6
<1> HIDE DEF t
<1>8. ASSUME NEW d \in Callers PROVE Kept(d, p, t) \/ Remade(d)
  <2> DEFINE k == call[d]
  <2>1. k \in Calls /\ (k.project = p => CallInv(k, n, floor[p], s))
    BY AtCaller
  <2>2. t \in Slots /\ t.snapshot <= n
    BY <1>3 DEF SlotInv
  <2>3. CASE k.project = p /\ k.pc = "joined"
    <3> DEFINE g == Given(k, t)
    <3>1. call'[d] = g
      BY <2>3 DEF ReadEnds, t
    <3>2. /\ g \in Calls /\ g.pc = "answered" /\ g.for = k.for /\ g.project = k.project
          /\ g.floor = k.floor /\ g.asked = k.asked
          /\ g.snapshot = t.snapshot /\ g.failure = t.failure
      BY <2>1, <2>2, GivenIs
    <3> HIDE DEF g
    <3>3. k.floor <= s.inFlight.since /\ k.floor \in Nat /\ s.inFlight.since \in Nat
      BY <2>1, <2>3, <1>1 DEF CallInv, Calls, Slots, Flights
    <3>4. ~t.failure => t.snapshot # 0 /\ k.floor <= t.snapshot
      BY <3>3, <1>2, <1>3
    <3>5. CallInv(g, n, floor[p], t)
      BY <2>1, <2>2, <2>3, <3>2, <3>4 DEF CallInv, Waiting
    <3> QED
      BY <3>1, <3>2, <3>5, <2>3, <1>7 DEF Remade
  <2>4. CASE k.project = p /\ k.pc = "chained"
    <3> DEFINE g == [k EXCEPT !.pc = "again"]
    <3>1. call'[d] = g
      BY <2>4 DEF ReadEnds
    <3>2. "again" \in Pcs
      BY DEF Pcs, Waiting
    <3>3. /\ g \in Calls /\ g.pc = "again" /\ g.for = k.for /\ g.project = k.project
          /\ g.floor = k.floor /\ g.asked = k.asked
          /\ g.snapshot = k.snapshot /\ g.failure = k.failure
      BY <2>1, <3>2 DEF Calls
    <3> HIDE DEF g
    <3>4. CallInv(g, n, floor[p], t)
      BY <2>1, <2>4, <3>3, <1>4 DEF CallInv, Waiting
    <3> QED
      BY <3>1, <3>3, <3>4, <2>4, <1>7 DEF Remade
  <2>5. CASE k.project = p /\ k.pc = "answered" /\ k.for = "look"
    <3> DEFINE told == k.told \/ Announces(p, ok, i)
               g == [k EXCEPT !.told = told]
    <3>1. call'[d] = g
      BY <2>5 DEF ReadEnds
    <3>2. told \in BOOLEAN
      OBVIOUS
    <3> HIDE DEF told
    <3>3. /\ g \in Calls /\ g.pc = k.pc /\ g.for = k.for /\ g.project = k.project
          /\ g.floor = k.floor /\ g.asked = k.asked
          /\ g.snapshot = k.snapshot /\ g.failure = k.failure
      BY <2>1, <3>2 DEF Calls
    <3> HIDE DEF g
    <3>4. CallInv(g, n, floor[p], t)
      BY <2>1, <2>5, <3>3, <1>4 DEF CallInv, Waiting
    <3> QED
      BY <3>1, <3>3, <3>4, <2>5, <1>7 DEF Remade
  <2>6. CASE ~(k.project = p /\ k.pc = "joined") /\ ~(k.project = p /\ k.pc = "chained")
             /\ ~(k.project = p /\ k.pc = "answered" /\ k.for = "look")
    <3>1. call'[d] = k
      BY <2>6 DEF ReadEnds
    <3> QED
      BY <3>1, <2>6 DEF Kept
  <2> QED
    BY <2>3, <2>4, <2>5, <2>6
<1>9. DOMAIN call' = Callers /\ call' = [d \in Callers |-> call'[d]]
  BY DEF ReadEnds
<1> QED
  BY <1>1, <1>3, <1>4, <1>5, <1>8, <1>9, OneSlotStep

\* Being done, and going to the host.
LEMMA NoCallInv ==
  ASSUME NEW n \in Nat, NEW f \in Nat, NEW s
  PROVE  CallInv(NoCall, n, f, s) /\ NoCall \in Calls /\ NoCall.pc = "idle"
<1>1. (CHOOSE p \in Projects : TRUE) \in Projects
  BY ProjectsAssumption
<1>2. NoCall \in Calls
  BY <1>1 DEF NoCall, Calls, Pcs, Purposes
<1>3. /\ NoCall.pc = "idle" /\ NoCall.for = "look" /\ NoCall.floor = 0 /\ NoCall.asked = 0
      /\ NoCall.snapshot = 0
  BY DEF NoCall
<1> QED
  BY <1>2, <1>3 DEF CallInv, Waiting

LEMMA DoneStep ==
  ASSUME IInv, NEW c \in Callers, Done(c), UNCHANGED <<history, slot, floor>>
  PROVE  IInv'
<1> DEFINE q == NoCall.project
<1>1. NoCall \in Calls /\ q \in Projects /\ NoCall.pc = "idle"
  BY NoCallInv DEF Calls
<1>2. CallInv(NoCall, Len(history[q]), floor[q], slot[q])
  BY <1>1, AtProject, NoCallInv
<1>3. call' = [call EXCEPT ![c] = NoCall]
  BY DEF Done
<1> QED
  BY <1>1, <1>2, <1>3, CallStep

\* A verdict of ready says that every fact allows the merge.
LEMMA ReadyIsSafe ==
  ASSUME NEW f \in Entries, f # NoPr, Decide(f) = "ready"
  PROVE  SafeToMerge(f)
<1>1. f \in Facts
  <2>1. Merged \in Facts /\ FirstDraft \in Facts
    BY DEF Merged, FirstDraft, Facts
  <2> QED
    BY <2>1, FactsAssumption DEF Entries
<1>2. f.state = "OPEN"
  BY <1>1 DEF Decide, Facts
<1>3. DecideOpen(f) = "ready"
  BY <1>2 DEF Decide
<1>4. f.draft \in BOOLEAN /\ f.failed \in BOOLEAN /\ f.running \in BOOLEAN
  BY <1>1 DEF Facts
<1>5. ~f.draft
  BY <1>3, <1>4 DEF DecideOpen
<1>6. /\ f.mergeable # "CONFLICTING" /\ f.mergeState # "DIRTY" /\ ~f.failed
      /\ f.review \notin {"CHANGES_REQUESTED", "REVIEW_REQUIRED"}
      /\ f.mergeState # "BEHIND"
  BY <1>3, <1>4, <1>5 DEF DecideOpen
<1>7. /\ ~f.running /\ f.mergeState # "BLOCKED" /\ f.mergeable = "MERGEABLE"
      /\ f.mergeState \in {"CLEAN", "UNSTABLE", "HAS_HOOKS"}
  BY <1>3, <1>4, <1>5, <1>6 DEF DecideOpen
<1> QED
  BY <1>2, <1>5, <1>6, <1>7 DEF SafeToMerge

LEMMA GoToWrite ==
  ASSUME IInv, NEW c \in Callers, call[c].pc = "answered",
         call' = [call EXCEPT ![c].pc = "writing"], UNCHANGED <<history, slot, floor>>,
         call[c].for = "merge" => MayMerge(c)
  PROVE  IInv'
<1> DEFINE r == call[c]
           k == [r EXCEPT !.pc = "writing"]
           p == r.project
<1>1. /\ r \in Calls /\ p \in Projects /\ CallInv(r, Len(history[p]), floor[p], slot[p])
      /\ r.pc = "answered"
  BY AtCaller
<1>2. "writing" \in Pcs
  BY DEF Pcs
<1> HIDE DEF r
<1>3. /\ k \in Calls /\ k.pc = "writing" /\ k.for = r.for /\ k.project = p
      /\ k.floor = r.floor /\ k.asked = r.asked /\ k.snapshot = r.snapshot
      /\ k.failure = r.failure
  BY <1>1, <1>2 DEF Calls
<1> HIDE DEF k
<1>4. r.for = "merge" => /\ ~r.failure /\ r.snapshot # 0
                         /\ Said(p, r.snapshot) # NoPr /\ Decide(Said(p, r.snapshot)) = "ready"
  BY DEF MayMerge, r
<1>5. CallInv(k, Len(history[p]), floor[p], slot[p])
  BY <1>1, <1>3, <1>4 DEF CallInv, Waiting
<1>6. k.for = "merge" => SafeToMerge(Said(p, k.snapshot))
  <2> SUFFICES ASSUME k.for = "merge" PROVE SafeToMerge(Said(p, k.snapshot))
    OBVIOUS
  <2>1. r.snapshot \in 1 .. Len(history[p])
    <3>1. r.snapshot \in Nat /\ r.snapshot <= Len(history[p]) /\ r.snapshot # 0
      BY <1>1, <1>3, <1>4 DEF CallInv, Calls
    <3> QED
      BY <3>1, <1>1, AtProject
  <2>2. history[p] \in Seq(Entries)
    BY <1>1 DEF IInv, Shape
  <2>3. Said(p, r.snapshot) \in Entries
    BY <2>1, <2>2, ElementOfSeq DEF Said
  <2> QED
    BY <2>3, <1>3, <1>4, ReadyIsSafe
<1>7. call' = [call EXCEPT ![c] = k]
  BY DEF k, r
<1> QED
  BY <1>3, <1>5, <1>6, <1>7, CallStep

\* The host moves on.
LEMMA HistoryStep ==
  ASSUME IInv, NEW p \in Projects, NEW e \in Entries,
         history' = [history EXCEPT ![p] = Append(@, e)],
         slot' = slot, floor' = floor, call' \in [Callers -> Calls],
         \A c \in Callers :
           \/ call'[c] = call[c]
           \/ call[c].pc = "writing" /\ call'[c] = [call[c] EXCEPT !.pc = "wrote"]
  PROVE  IInv'
<1>1. history \in [Projects -> Seq(Entries)]
  BY DEF IInv, Shape
<1>2. ASSUME NEW q \in Projects
      PROVE  /\ history'[q] \in Seq(Entries)
             /\ Len(history[q]) \in Nat /\ Len(history'[q]) \in Nat
             /\ Len(history'[q]) = Len(history[q]) \/ Len(history'[q]) = Len(history[q]) + 1
             /\ \A i \in 1 .. Len(history[q]) : history'[q][i] = history[q][i]
  <2>1. history[q] \in Seq(Entries)
    BY <1>1
  <2>2. CASE q = p
    <3>1. history'[q] = Append(history[q], e)
      BY <2>2, <1>1
    <3> QED
      BY <3>1, <2>1, AppendProperties, LenProperties
  <2>3. CASE q # p
    BY <2>3, <2>1, <1>1, LenProperties
  <2> QED
    BY <2>2, <2>3
<1>3. Shape'
  <2>1. DOMAIN history' = Projects /\ history' = [q \in Projects |-> history'[q]]
    BY <1>1
  <2>2. history' \in [Projects -> Seq(Entries)]
    BY <1>2, <2>1
  <2>3. \A q \in Projects : Len(history'[q]) >= 1
    BY <1>2 DEF IInv, Shape
  <2> QED
    BY <2>2, <2>3 DEF IInv, Shape
<1>4. SlotsInv'
  <2>1. ASSUME NEW q \in Projects PROVE SlotInv(slot[q], Len(history'[q]), floor[q])
    <3>1. SlotInv(slot[q], Len(history[q]), floor[q]) /\ floor[q] \in Nat
      BY AtProject
    <3>2. SlotInv(slot[q], Len(history[q]) + 1, floor[q])
      BY <3>1, <1>2, HistoryGrows
    <3> QED
      BY <3>1, <3>2, <1>2
  <2> QED
    BY <2>1 DEF SlotsInv
<1>5. ASSUME NEW c \in Callers
      PROVE  /\ call'[c] \in Calls /\ call'[c].project = call[c].project
             /\ call'[c].snapshot = call[c].snapshot
             /\ CallInv(call'[c], Len(history'[call[c].project]), floor[call[c].project],
                        slot[call[c].project])
             /\ call'[c].pc \in {"writing", "wrote"} /\ call'[c].for = "merge"
                  => /\ call[c].pc \in {"writing", "wrote"} /\ call[c].for = "merge"
  <2> DEFINE r == call[c]
             q == r.project
             k == [r EXCEPT !.pc = "wrote"]
  <2>1. r \in Calls /\ q \in Projects /\ CallInv(r, Len(history[q]), floor[q], slot[q])
    BY AtCaller
  <2>2. r.snapshot \in Nat /\ r.asked \in Nat
    BY <2>1 DEF Calls
  <2>3. CallInv(r, Len(history'[q]), floor[q], slot[q])
    BY <2>1, <2>2, <1>2 DEF CallInv
  <2>4. CASE call'[c] = r
    BY <2>1, <2>3, <2>4
  <2>5. CASE r.pc = "writing" /\ call'[c] = k
    <3>1. "wrote" \in Pcs
      BY DEF Pcs
    <3> HIDE DEF r
    <3>2. /\ k \in Calls /\ k.pc = "wrote" /\ k.for = r.for /\ k.project = q
          /\ k.floor = r.floor /\ k.asked = r.asked /\ k.snapshot = r.snapshot
          /\ k.failure = r.failure
      BY <2>1, <3>1 DEF Calls
    <3> HIDE DEF k
    <3>3. CallInv(k, Len(history'[q]), floor[q], slot[q])
      BY <2>3, <2>5, <3>2 DEF CallInv, Waiting
    <3> QED
      BY <2>5, <3>2, <3>3 DEF r
  <2> QED
    BY <2>4, <2>5
<1>6. CallsInv'
  BY <1>5 DEF CallsInv
<1>7. WritesInv'
  <2> SUFFICES ASSUME NEW c \in Callers,
                      call'[c].pc \in {"writing", "wrote"}, call'[c].for = "merge"
               PROVE  SafeToMerge(history'[call'[c].project][call'[c].snapshot])
    BY DEF WritesInv, Said
  <2> DEFINE r == call[c]
             q == r.project
  <2>1. r.pc \in {"writing", "wrote"} /\ r.for = "merge"
    BY <1>5
  <2>2. SafeToMerge(history[q][r.snapshot])
    BY <2>1 DEF IInv, WritesInv, Said
  <2>3. /\ r \in Calls /\ q \in Projects /\ CallInv(r, Len(history[q]), floor[q], slot[q])
        /\ r.snapshot \in Nat
    BY AtCaller DEF Calls
  <2>4. r.snapshot # 0 /\ r.snapshot <= Len(history[q])
    BY <2>1, <2>3 DEF CallInv
  <2>5. history'[q][r.snapshot] = history[q][r.snapshot]
    BY <2>3, <2>4, <1>2
  <2> QED
    BY <2>2, <2>5, <1>5
<1> QED
  BY <1>3, <1>4, <1>6, <1>7 DEF IInv

LEMMA HostTakesStep ==
  ASSUME IInv, NEW c \in Callers, HostTakes(c)
  PROVE  IInv'
<1> DEFINE p == call[c].project
           k == [call[c] EXCEPT !.pc = "wrote"]
<1>1. call[c] \in Calls /\ p \in Projects
  BY AtCaller
<1>2. \E e \in Entries : history' = [history EXCEPT ![p] = Append(@, e)]
  BY DEF HostTakes, Entries
<1>3. /\ call[c].pc = "writing" /\ call' = [call EXCEPT ![c] = k]
      /\ slot' = slot /\ floor' = floor
  BY DEF HostTakes
<1>4. "wrote" \in Pcs
  BY DEF Pcs
<1>5. k \in Calls
  BY <1>1, <1>4 DEF Calls
<1>6. call \in [Callers -> Calls]
  BY DEF IInv, Shape
<1>7. call' \in [Callers -> Calls]
  BY <1>3, <1>5, <1>6
<1>8. \A d \in Callers :
        \/ call'[d] = call[d]
        \/ call[d].pc = "writing" /\ call'[d] = [call[d] EXCEPT !.pc = "wrote"]
  BY <1>3, <1>6
<1> QED
  BY <1>1, <1>2, <1>3, <1>7, <1>8, HistoryStep

LEMMA HostChangesStep ==
  ASSUME IInv, NEW p \in Projects, NEW e \in PrStates, HostChanges(p, e)
  PROVE  IInv'
<1>1. e \in Entries
  BY DEF Entries
<1>2. call \in [Callers -> Calls]
  BY DEF IInv, Shape
<1> QED
  BY <1>1, <1>2, HistoryStep DEF HostChanges

LEMMA CreateStep ==
  ASSUME IInv, NEW c \in Callers, NEW p \in Projects, GoToCreateFromScreen(c, p)
  PROVE  IInv'
<1> DEFINE k == Asking("writing", "create", p, floor[p])
<1>1. /\ Len(history[p]) \in Nat /\ floor[p] \in Nat
      /\ SlotInv(slot[p], Len(history[p]), floor[p])
  BY AtProject
<1>2. "writing" \in Pcs /\ "create" \in Purposes
  BY DEF Pcs, Purposes
<1>3. /\ k \in Calls /\ k.pc = "writing" /\ k.for = "create" /\ k.project = p
      /\ k.floor = floor[p] /\ k.asked <= Len(history[p]) /\ k.snapshot = 0
  BY <1>1, <1>2, AskingIs
<1>4. call' = [call EXCEPT ![c] = k] /\ UNCHANGED <<history, slot, floor>>
  BY DEF GoToCreateFromScreen
<1> HIDE DEF k
<1>5. CallInv(k, Len(history[p]), floor[p], slot[p])
  BY <1>1, <1>3 DEF CallInv, Waiting
<1> QED
  BY <1>3, <1>4, <1>5, CallStep

LEMMA RouteReturnsStep ==
  ASSUME IInv, NEW c \in Callers, RouteReturns(c)
  PROVE  IInv'
<1> DEFINE p == call[c].project
           t == Invalidated(slot[p])
           n == Len(history[p])
           q == NoCall.project
<1>1. p \in Projects
  BY AtCaller
<1>2. /\ n \in Nat /\ SlotInv(slot[p], n, floor[p]) /\ floor[p] \in Nat /\ floor[p] <= n
  BY <1>1, AtProject
<1>3. /\ SlotInv(t, n, n) /\ t.inFlight = slot[p].inFlight /\ t.there = slot[p].there
  BY <1>2, InvalidatedKeeps
<1>4. /\ slot' = [slot EXCEPT ![p] = t] /\ floor' = [floor EXCEPT ![p] = n]
      /\ history' = history /\ call' = [call EXCEPT ![c] = NoCall]
  BY DEF RouteReturns, Done
<1>5. call \in [Callers -> Calls] /\ floor \in [Projects -> Nat]
  BY DEF IInv, Shape
<1>6. ASSUME NEW d \in Callers PROVE Kept(d, p, t) \/ Remade(d)
  <2>1. CASE d = c
    <3>1. call'[d] = NoCall
      BY <2>1, <1>4, <1>5
    <3>2. q \in Projects /\ NoCall.pc = "idle"
      BY NoCallInv DEF Calls
    <3>3. Len(history[q]) \in Nat /\ floor'[q] \in Nat
      BY <3>2, <1>2, <1>4, <1>5, AtProject
    <3>4. CallInv(NoCall, Len(history[q]), floor'[q], slot'[q])
      BY <3>3, NoCallInv
    <3> QED
      BY <3>1, <3>2, <3>4 DEF Remade
  <2>2. CASE d # c
    BY <2>2, <1>3, <1>4, <1>5 DEF Kept
  <2> QED
    BY <2>1, <2>2
<1>7. DOMAIN call' = Callers /\ call' = [d \in Callers |-> call'[d]]
  BY <1>4, <1>5
<1>8. floor[p] <= n /\ (slot[p].there => t.there) /\ DOMAIN call' = Callers
  BY <1>2, <1>3, <1>7
<1> HIDE DEF p, t, n
<1>9. history' = history /\ slot' = [slot EXCEPT ![p] = t] /\ floor' = [floor EXCEPT ![p] = n]
  BY <1>4
<1>10. SlotInv(t, n, n) /\ n = Len(history[p]) /\ n \in Nat
  BY <1>2, <1>3 DEF n
<1>11. SlotInv(t, Len(history[p]), n)
  BY ONLY <1>10
<1> QED
  BY ONLY IInv, <1>1, <1>6, <1>7, <1>8, <1>9, <1>10, <1>11, OneSlotStep

-----------------------------------------------------------------------------
(* The invariant, and what follows from it. *)

LEMMA InitInvariant == Init => IInv
<1> SUFFICES ASSUME Init PROVE IInv
  OBVIOUS
<1>1. ASSUME NEW p \in Projects
      PROVE  history[p] \in Seq(Entries) /\ Len(history[p]) = 1
  <2>1. PICK s \in PrStates : history[p] = <<s>>
    BY DEF Init
  <2>2. s \in Entries
    BY DEF Entries
  <2> QED
    BY <2>1, <2>2
<1>2. Vacant \in Slots /\ SlotInv(Vacant, 1, 0)
  <2>1. NoFlight \in Flights /\ ~NoFlight.on
    BY DEF NoFlight, Flights
  <2>2. Vacant \in Slots
    BY <2>1 DEF Vacant, Slots
  <2>3. /\ Vacant.snapshot = 0 /\ ~Vacant.failure /\ Vacant.inFlight = NoFlight
        /\ Vacant.served = 0 /\ Vacant.want = 0
    BY DEF Vacant
  <2> QED
    BY <2>1, <2>2, <2>3 DEF SlotInv
<1>3. NoCall \in Calls /\ NoCall.project \in Projects /\ NoCall.pc = "idle"
  BY NoCallInv DEF Calls
<1>4. Shape
  <2>1. DOMAIN history = Projects /\ history = [p \in Projects |-> history[p]]
    BY DEF Init
  <2>2. history \in [Projects -> Seq(Entries)]
    BY <1>1, <2>1
  <2>3. slot \in [Projects -> Slots] /\ call \in [Callers -> Calls]
    BY <1>2, <1>3 DEF Init
  <2>4. \A p \in Projects : Len(history[p]) >= 1
    <3> TAKE p \in Projects
    <3>1. Len(history[p]) = 1
      BY <1>1
    <3> QED
      BY <3>1
  <2>5. floor \in [Projects -> Nat]
    BY DEF Init
  <2> QED
    BY <2>2, <2>3, <2>4, <2>5 DEF Shape
<1>5. SlotsInv
  BY <1>1, <1>2 DEF Init, SlotsInv
<1>6. CallsInv
  <2> SUFFICES ASSUME NEW c \in Callers
               PROVE  CallInv(NoCall, Len(history[NoCall.project]), floor[NoCall.project],
                              slot[NoCall.project])
    BY DEF Init, CallsInv
  <2>1. Len(history[NoCall.project]) \in Nat /\ floor[NoCall.project] \in Nat
    BY <1>1, <1>3 DEF Init
  <2> QED
    BY <2>1, NoCallInv
<1>7. WritesInv
  BY <1>3 DEF Init, WritesInv
<1> QED
  BY <1>4, <1>5, <1>6, <1>7 DEF IInv

LEMMA NextInvariant == IInv /\ [Next]_vars => IInv'
<1> SUFFICES ASSUME IInv, [Next]_vars PROVE IInv'
  OBVIOUS
<1>1. ASSUME NEW p \in Projects, Refresh(p) PROVE IInv'
  BY <1>1, RefreshStep
<1>2. ASSUME NEW p \in Projects, Ages(p) PROVE IInv'
  BY <1>2, AgesStep
<1>3. ASSUME NEW p \in Projects, NEW f \in PrStates, HostChanges(p, f) PROVE IInv'
  BY <1>3, HostChangesStep
<1>4. ASSUME NEW p \in Projects, NEW ok \in BOOLEAN, NEW i \in 1 .. MaxHistory,
             ReadEnds(p, ok, i)
      PROVE  IInv'
  BY <1>4, ReadEndsStep
<1>5. ASSUME NEW p \in Projects, NEW c \in Screens, AskToMerge(c, p) PROVE IInv'
  BY <1>5, AskToMergeStep DEF Callers
<1>6. ASSUME NEW p \in Projects, NEW c \in Screens, GoToCreateFromScreen(c, p) PROVE IInv'
  BY <1>6, CreateStep DEF Callers
<1>7. ASSUME NEW p \in Projects, NEW c \in Callers, NEW for \in Questions(c), Get(c, for, p)
      PROVE  IInv'
  BY <1>7, GetStep
<1>8. ASSUME NEW c \in Callers, StartAgain(c) PROVE IInv'
  BY <1>8, StartAgainStep
<1>9. ASSUME NEW c \in Callers,
             RefuseMerge(c) \/ SkipCreate(c) \/ Publish(c) \/ WriteFails(c) \/ OpenReturns(c)
      PROVE  IInv'
  BY <1>9, DoneStep DEF RefuseMerge, SkipCreate, Publish, WriteFails, OpenReturns
<1>10. ASSUME NEW c \in Callers, GoToMerge(c) \/ GoToCreate(c) PROVE IInv'
  BY <1>10, GoToWrite DEF GoToMerge, GoToCreate
<1>11. ASSUME NEW c \in Callers, HostTakes(c) PROVE IInv'
  BY <1>11, HostTakesStep
<1>12. ASSUME NEW c \in Callers, RouteReturns(c) PROVE IInv'
  BY <1>12, RouteReturnsStep
<1>13. CASE UNCHANGED vars
  BY <1>13 DEF vars, IInv, Shape, SlotsInv, CallsInv, WritesInv, Said
<1> QED
  BY <1>1, <1>2, <1>3, <1>4, <1>5, <1>6, <1>7, <1>8, <1>9, <1>10, <1>11, <1>12, <1>13 DEF Next

LEMMA InvariantHolds == Spec => []IInv
BY InitInvariant, NextInvariant, PTL DEF Spec

(***************************************************************************)
(* TypeOK of any run: what the variables of the cache hold.                *)
(***************************************************************************)
THEOREM TypeCorrect == Spec => []TypeOK
<1>1. IInv => TypeOK
  BY DEF IInv, Shape, TypeOK, Entries
<1> QED
  BY <1>1, InvariantHolds, PTL

(***************************************************************************)
(* An answer without a failure is no older than the last invalidation      *)
(* before the question: pr/PrCache.ts promises it of `want` and `served`.  *)
(***************************************************************************)
THEOREM AnswersAreFresh == Spec => []AnswersRespectInvalidations
<1>1. IInv => AnswersRespectInvalidations
  <2> SUFFICES ASSUME IInv, NEW c \in Callers,
                      call[c].pc \in {"answered", "writing", "wrote"},
                      call[c].for # "create", ~call[c].failure
               PROVE  call[c].snapshot # 0 /\ call[c].snapshot >= call[c].floor
    BY DEF AnswersRespectInvalidations
  <2>1. /\ CallInv(call[c], Len(history[call[c].project]),
                   floor[call[c].project], slot[call[c].project])
        /\ call[c].snapshot \in Nat /\ call[c].floor \in Nat
    BY AtCaller DEF Calls
  <2> QED
    BY <2>1 DEF CallInv
<1> QED
  BY <1>1, InvariantHolds, PTL

(***************************************************************************)
(* The merge route writes only because of something the host said after    *)
(* the click, and what it said allowed the merge (routers/pr.ts, merge).   *)
(***************************************************************************)
THEOREM MergesAreFreshAndGreen == Spec => []MergesOnlyOnFreshGreen
<1>1. IInv => MergesOnlyOnFreshGreen
  <2> SUFFICES ASSUME IInv, NEW c \in Callers,
                      call[c].pc \in {"writing", "wrote"}, call[c].for = "merge"
               PROVE  /\ call[c].snapshot >= call[c].asked
                      /\ SafeToMerge(Said(call[c].project, call[c].snapshot))
    BY DEF MergesOnlyOnFreshGreen
  <2>1. /\ CallInv(call[c], Len(history[call[c].project]),
                   floor[call[c].project], slot[call[c].project])
        /\ call[c].snapshot \in Nat /\ call[c].floor \in Nat
    BY AtCaller DEF Calls
  <2> QED
    BY <2>1 DEF CallInv, IInv, WritesInv
<1> QED
  BY <1>1, InvariantHolds, PTL

-----------------------------------------------------------------------------
(* What a screen was told. *)

\* The answer a screen has drawn, and what the cache holds now: nothing was
\* drawn of a slot that is still empty, and a screen that was not told of a
\* change holds the value of the cache, or one the host said the same of.
Drawn(c) == call[c].pc = "answered" /\ call[c].for = "look"

ToldAt(c) ==
  LET p == call[c].project  now == slot[p].snapshot  drawn == call[c].snapshot IN
  Drawn(c) =>
    /\ now = 0 => drawn = 0
    /\ call[c].told \/ now = drawn \/ (drawn # 0 /\ Said(p, now) = Said(p, drawn))

ToldInv == \A c \in Callers : ToldAt(c)

\* What the host said stays said.
SaysTheSame ==
  \A p \in Projects : \A i \in 1 .. Len(history[p]) : history'[p][i] = history[p][i]

\* A step that reads nothing: every slot holds what it held, and a caller keeps
\* its answer, loses it, or is given what the slot holds.
NothingRead ==
  /\ \A p \in Projects : slot'[p].snapshot = slot[p].snapshot
  /\ \A c \in Callers :
       \/ call'[c] = call[c]
       \/ ~Drawn(c)'
       \/ call'[c].snapshot = slot'[call'[c].project].snapshot

\* A step that reads nothing leaves every screen with what it was told.
LEMMA NothingReadTells ==
  ASSUME IInv, ToldInv, SaysTheSame, NothingRead
  PROVE  ToldInv'
<1> SUFFICES ASSUME NEW c \in Callers, Drawn(c)' PROVE ToldAt(c)'
  BY DEF ToldInv, ToldAt
<1>1. CASE call'[c] = call[c]
  <2> DEFINE p == call[c].project
             n == Len(history[p])
             now == slot[p].snapshot
             drawn == call[c].snapshot
  <2>1. /\ p \in Projects /\ CallInv(call[c], n, floor[p], slot[p])
        /\ call[c] \in Calls
    BY AtCaller
  <2>2. n \in Nat /\ SlotInv(slot[p], n, floor[p])
    BY <2>1, AtProject
  <2>3. now \in 0 .. n /\ drawn \in 0 .. n
    BY <2>1, <2>2 DEF CallInv, SlotInv, Slots, Calls
  <2>4. slot'[p].snapshot = now
    BY <2>1 DEF NothingRead
  <2>5. ToldAt(c) /\ Drawn(c)
    BY <1>1 DEF ToldInv, Drawn
  <2>6. /\ now = 0 => drawn = 0
        /\ call[c].told \/ now = drawn
           \/ (drawn # 0 /\ history[p][now] = history[p][drawn])
    BY <2>5 DEF ToldAt, Said
  <2>7. /\ drawn # 0 => history'[p][drawn] = history[p][drawn]
        /\ now # 0 => history'[p][now] = history[p][now]
    BY <2>1, <2>3 DEF SaysTheSame
  <2> QED
    BY <1>1, <2>4, <2>6, <2>7 DEF ToldAt, Said
<1>2. CASE call'[c].snapshot = slot'[call'[c].project].snapshot
  BY <1>2 DEF ToldAt
<1> QED
  BY <1>1, <1>2 DEF NothingRead

\* Asking, starting a read and invalidating leave what the slot holds.
LEMMA SlotKeepsItsValue ==
  ASSUME NEW p, NEW s \in Slots
  PROVE  /\ Fly(p, s).snapshot = s.snapshot
         /\ Invalidated(s).snapshot = s.snapshot
         /\ [s EXCEPT !.there = TRUE].snapshot = s.snapshot
         /\ [s EXCEPT !.there = TRUE] \in Slots
         /\ [s EXCEPT !.fresh = FALSE].snapshot = s.snapshot
BY DEF Fly, Invalidated, Slots

\* Whoever asks waits, or is given what the slot holds.
LEMMA GetFromGives ==
  ASSUME NEW c \in Callers, NEW p \in Projects, NEW for \in Purposes, NEW s \in Slots,
         NEW f \in Nat, Len(history[p]) \in Nat, GetFrom(c, for, p, s, f)
  PROVE  \E t, k :
           /\ slot' = [slot EXCEPT ![p] = t] /\ call' = [call EXCEPT ![c] = k]
           /\ t.snapshot = s.snapshot /\ k.project = p
           /\ k.pc # "answered" \/ k.snapshot = s.snapshot
<1> DEFINE here == [s EXCEPT !.there = TRUE]
<1>1. here \in Slots /\ here.snapshot = s.snapshot /\ Fly(p, here).snapshot = s.snapshot
  BY SlotKeepsItsValue
<1> HIDE DEF here
<1>2. CASE MustWait(here)
  <2> DEFINE k == Asking(Joins(here), for, p, f)
  <2>1. slot' = [slot EXCEPT ![p] = Fly(p, here)] /\ call' = [call EXCEPT ![c] = k]
    BY <1>2 DEF GetFrom, here
  <2>2. k.project = p /\ k.pc # "answered"
    BY DEF Asking, Joins
  <2> QED
    BY <1>1, <2>1, <2>2
<1>3. CASE ~MustWait(here)
  <2> DEFINE t == IF here.fresh THEN here ELSE Fly(p, here)
             asked == Asking("answered", for, p, f)
             k == Given(asked, here)
  <2>1. slot' = [slot EXCEPT ![p] = t] /\ call' = [call EXCEPT ![c] = k]
    BY <1>3 DEF GetFrom, here
  <2>2. asked \in Calls /\ asked.project = p
    BY AskingIs DEF Pcs
  <2> HIDE DEF asked
  <2>3. k.project = p /\ k.snapshot = s.snapshot
    BY <1>1, <2>2, GivenIs
  <2>4. t.snapshot = s.snapshot
    BY <1>1
  <2> QED
    BY <2>1, <2>3, <2>4
<1> QED
  BY <1>2, <1>3

\* So asking is a step that reads nothing.
LEMMA AskingReadsNothing ==
  ASSUME IInv, NEW c \in Callers, NEW p \in Projects, NEW for \in Purposes, NEW f \in Nat,
         NEW s \in Slots, s.snapshot = slot[p].snapshot, GetFrom(c, for, p, s, f)
  PROVE  NothingRead
<1>1. slot \in [Projects -> Slots] /\ call \in [Callers -> Calls] /\ Len(history[p]) \in Nat
  BY AtProject DEF IInv, Shape
<1>2. PICK t, k :
        /\ slot' = [slot EXCEPT ![p] = t] /\ call' = [call EXCEPT ![c] = k]
        /\ t.snapshot = s.snapshot /\ k.project = p
        /\ k.pc # "answered" \/ k.snapshot = s.snapshot
  BY <1>1, GetFromGives
<1>3. \A q \in Projects : slot'[q].snapshot = slot[q].snapshot
  BY <1>1, <1>2
<1>4. slot'[p].snapshot = s.snapshot
  BY <1>1, <1>2
<1>5. ASSUME NEW d \in Callers
      PROVE  \/ call'[d] = call[d]
             \/ ~Drawn(d)'
             \/ call'[d].snapshot = slot'[call'[d].project].snapshot
  <2>1. CASE d = c
    <3>1. call'[d] = k
      BY <1>1, <1>2, <2>1
    <3> QED
      BY <1>2, <1>4, <3>1 DEF Drawn
  <2>2. CASE d # c
    BY <1>1, <1>2, <2>2
  <2> QED
    BY <2>1, <2>2
<1> QED
  BY <1>3, <1>5 DEF NothingRead

\* A step of one caller that leaves the slots as they are and takes its answer
\* away, or waits for another, reads nothing.
LEMMA OneCallReadsNothing ==
  ASSUME IInv, NEW c \in Callers, NEW k, call' = [call EXCEPT ![c] = k],
         k.pc # "answered" \/ k.for # "look",
         \A p \in Projects : slot'[p].snapshot = slot[p].snapshot
  PROVE  NothingRead
<1>1. call \in [Callers -> Calls]
  BY DEF IInv, Shape
<1> QED
  BY <1>1 DEF NothingRead, Drawn

\* A finished read that differs from what was known is announced to every
\* screen that has drawn the project; one that joined is given the new value.
LEMMA ReadEndsTells ==
  ASSUME IInv, ToldInv, NEW p \in Projects, NEW ok \in BOOLEAN, NEW i \in 1 .. MaxHistory,
         ReadEnds(p, ok, i)
  PROVE  ToldInv'
<1> DEFINE s == slot[p]
           t == Landed(p, ok, i)
<1>1. /\ slot \in [Projects -> Slots] /\ call \in [Callers -> Calls] /\ s \in Slots
      /\ i \in Nat /\ i # 0
  BY AtProject, BoundsAssumption DEF IInv, Shape
<1>2. slot' = [slot EXCEPT ![p] = t] /\ history' = history
  BY DEF ReadEnds
<1>3. t.snapshot = IF ok THEN i ELSE s.snapshot
  BY <1>1 DEF Landed, Slots
<1>4. t \in Slots
  <2>1. /\ Len(history[p]) \in Nat /\ SlotInv(s, Len(history[p]), floor[p])
        /\ s.inFlight.on /\ i \in s.inFlight.since .. Len(history[p]) /\ floor[p] \in Nat
    BY AtProject DEF ReadEnds
  <2>2. s.inFlight.since <= i /\ i <= Len(history[p])
    BY <1>1, <2>1 DEF Slots, Flights
  <2> QED
    BY <1>1, <2>1, <2>2, LandedKeeps DEF SlotInv
<1>5. slot'[p] = t
  BY <1>1, <1>2
<1> HIDE DEF t
<1> SUFFICES ASSUME NEW c \in Callers, Drawn(c)' PROVE ToldAt(c)'
  BY DEF ToldInv, ToldAt
<1> DEFINE k == call[c]
<1>6. k \in Calls
  BY AtCaller
<1>7. CASE k.project = p /\ k.pc = "joined"
  <2>1. call'[c] = Given(k, t)
    BY <1>7 DEF ReadEnds, t
  <2>2. call'[c].project = p /\ call'[c].snapshot = t.snapshot
    BY <1>4, <1>6, <1>7, <2>1, GivenIs
  <2> QED
    BY <1>5, <2>2 DEF ToldAt
<1>8. CASE k.project = p /\ k.pc = "answered" /\ k.for = "look"
  <2> DEFINE told == k.told \/ Announces(p, ok, i)
  <2>0. call'[c] = [k EXCEPT !.told = told]
    BY <1>8 DEF ReadEnds
  <2>1. /\ call'[c].project = p /\ call'[c].snapshot = k.snapshot
        /\ call'[c].told = told
    BY <1>6, <1>8, <2>0 DEF Calls
  <2>2. /\ s.snapshot = 0 => k.snapshot = 0
        /\ k.told \/ s.snapshot = k.snapshot
           \/ (k.snapshot # 0 /\ Said(p, s.snapshot) = Said(p, k.snapshot))
    BY <1>8 DEF ToldInv, ToldAt, Drawn
  <2> HIDE DEF told
  <2>3. CASE ~ok
    <3>1. slot'[p].snapshot = s.snapshot /\ (k.told => told)
      BY <1>3, <1>5, <2>3 DEF told
    <3> QED
      BY <1>2, <2>1, <2>2, <3>1 DEF ToldAt, Said
  <2>4. CASE ok
    <3>1. slot'[p].snapshot = i
      BY <1>3, <1>5, <2>4
    <3>2. told \/ (s.snapshot # 0 /\ Said(p, i) = Said(p, s.snapshot))
      BY <2>4 DEF told, Announces
    <3>3. k.told => told
      BY DEF told
    <3>4. told \/ (k.snapshot # 0 /\ Said(p, i) = Said(p, k.snapshot))
      BY <2>2, <3>2, <3>3
    <3> QED
      BY <1>1, <1>2, <2>1, <3>1, <3>4 DEF ToldAt, Said
  <2> QED
    BY <2>3, <2>4
<1>9. CASE k.project = p /\ k.pc = "chained"
  <2>1. call'[c] = [k EXCEPT !.pc = "again"]
    BY <1>9 DEF ReadEnds
  <2> QED
    BY <1>6, <2>1 DEF Drawn, Calls
<1>10. CASE /\ ~(k.project = p /\ k.pc = "joined")
            /\ ~(k.project = p /\ k.pc = "chained")
            /\ ~(k.project = p /\ k.pc = "answered" /\ k.for = "look")
  <2>1. call'[c] = k
    BY <1>10 DEF ReadEnds
  <2>2. Drawn(c) /\ k.project # p /\ k.project \in Projects
    BY <1>6, <1>10, <2>1 DEF Drawn, Calls
  <2>3. slot'[k.project] = slot[k.project]
    BY <1>1, <1>2, <2>2
  <2> QED
    BY <1>2, <2>1, <2>2, <2>3 DEF ToldInv, ToldAt, Said
<1> QED
  BY <1>7, <1>8, <1>9, <1>10

\* Every step keeps the screens told.
LEMMA ToldNext == IInv /\ ToldInv /\ [Next]_vars => ToldInv'
<1> SUFFICES ASSUME IInv, ToldInv, [Next]_vars PROVE ToldInv'
  OBVIOUS
<1>1. ASSUME history' = history, NothingRead PROVE ToldInv'
  BY <1>1, NothingReadTells DEF SaysTheSame
<1>2. /\ slot \in [Projects -> Slots] /\ call \in [Callers -> Calls]
      /\ \A p \in Projects : slot[p] \in Slots
  BY DEF IInv, Shape
<1>3. ASSUME NEW p \in Projects, NEW t, t.snapshot = slot[p].snapshot,
             slot' = [slot EXCEPT ![p] = t]
      PROVE  \A q \in Projects : slot'[q].snapshot = slot[q].snapshot
  BY <1>2, <1>3
<1>4. ASSUME NEW p \in Projects, Refresh(p) PROVE ToldInv'
  <2>1. Invalidated(slot[p]).snapshot = slot[p].snapshot
    BY <1>2, SlotKeepsItsValue
  <2> QED
    BY <1>1, <1>3, <1>4, <2>1 DEF Refresh, NothingRead
<1>5. ASSUME NEW p \in Projects, Ages(p) PROVE ToldInv'
  <2>1. [slot[p] EXCEPT !.fresh = FALSE].snapshot = slot[p].snapshot
    BY <1>2, SlotKeepsItsValue
  <2> QED
    BY <1>1, <1>3, <1>5, <2>1 DEF Ages, NothingRead
<1>6. ASSUME NEW p \in Projects, NEW ok \in BOOLEAN, NEW i \in 1 .. MaxHistory, ReadEnds(p, ok, i)
      PROVE  ToldInv'
  BY <1>6, ReadEndsTells
<1>7. ASSUME NEW p \in Projects, NEW c \in Screens, AskToMerge(c, p) PROVE ToldInv'
  <2> DEFINE n == Len(history[p])
             s == Invalidated(slot[p])
  <2>1. n \in Nat /\ s.snapshot = slot[p].snapshot /\ c \in Callers /\ "merge" \in Purposes
    BY <1>2, AtProject, SlotKeepsItsValue DEF Callers, Purposes
  <2>2. s \in Slots
    BY <2>1, AtProject, InvalidatedKeeps DEF SlotInv
  <2>3. GetFrom(c, "merge", p, s, n) /\ history' = history
    BY <1>7 DEF AskToMerge
  <2> HIDE DEF s, n
  <2>4. NothingRead
    BY <2>1, <2>2, <2>3, AskingReadsNothing
  <2> QED
    BY <1>1, <2>3, <2>4
<1>8. ASSUME NEW p \in Projects, NEW c \in Callers, NEW for \in Questions(c), Get(c, for, p)
      PROVE  ToldInv'
  <2>1. for \in Purposes /\ floor[p] \in Nat
    BY AtProject DEF Questions, Purposes
  <2>2. GetFrom(c, for, p, slot[p], floor[p]) /\ history' = history
    BY <1>8 DEF Get
  <2>3. NothingRead
    BY <1>2, <2>1, <2>2, AskingReadsNothing
  <2> QED
    BY <1>1, <2>2, <2>3
<1>9. ASSUME NEW p \in Projects, NEW c \in Screens, GoToCreateFromScreen(c, p) PROVE ToldInv'
  <2> DEFINE k == Asking("writing", "create", p, floor[p])
  <2>1. k.pc = "writing" /\ c \in Callers
    BY DEF Asking, Callers
  <2>2. call' = [call EXCEPT ![c] = k] /\ UNCHANGED <<history, slot>>
    BY <1>9 DEF GoToCreateFromScreen
  <2> HIDE DEF k
  <2>3. NothingRead
    BY <2>1, <2>2, OneCallReadsNothing
  <2> QED
    BY <1>1, <2>2, <2>3
<1>10. ASSUME NEW c \in Callers, StartAgain(c) PROVE ToldInv'
  <2> DEFINE p == call[c].project
             k == [call[c] EXCEPT !.pc = Joins(slot[p])]
  <2>1. p \in Projects /\ Fly(p, slot[p]).snapshot = slot[p].snapshot
    BY <1>2, AtCaller, SlotKeepsItsValue
  <2>2. k.pc # "answered"
    BY AtCaller DEF Joins, Calls
  <2>3. /\ slot' = [slot EXCEPT ![p] = Fly(p, slot[p])]
        /\ call' = [call EXCEPT ![c] = k] /\ history' = history
    BY <1>10 DEF StartAgain
  <2> HIDE DEF p, k
  <2>4. NothingRead
    BY <1>3, <2>1, <2>2, <2>3, OneCallReadsNothing
  <2> QED
    BY <1>1, <2>3, <2>4
<1>11. ASSUME NEW c \in Callers, Done(c), history' = history,
              \A p \in Projects : slot'[p].snapshot = slot[p].snapshot
       PROVE  ToldInv'
  <2>1. NoCall.pc = "idle"
    BY DEF NoCall
  <2>2. NothingRead
    BY <1>11, <2>1, OneCallReadsNothing DEF Done
  <2> QED
    BY <1>1, <1>11, <2>2
<1>12. ASSUME NEW c \in Callers,
              RefuseMerge(c) \/ SkipCreate(c) \/ Publish(c) \/ WriteFails(c) \/ OpenReturns(c)
       PROVE  ToldInv'
  BY <1>11, <1>12 DEF RefuseMerge, SkipCreate, Publish, WriteFails, OpenReturns
<1>13. ASSUME NEW c \in Callers, RouteReturns(c) PROVE ToldInv'
  <2> DEFINE p == call[c].project
  <2>1. p \in Projects /\ Invalidated(slot[p]).snapshot = slot[p].snapshot
    BY <1>2, AtCaller, SlotKeepsItsValue
  <2> QED
    BY <1>3, <1>11, <1>13, <2>1 DEF RouteReturns
<1>14. ASSUME NEW c \in Callers, GoToMerge(c) \/ GoToCreate(c) PROVE ToldInv'
  <2> DEFINE k == [call[c] EXCEPT !.pc = "writing"]
  <2>1. k.pc = "writing" /\ call' = [call EXCEPT ![c] = k] /\ UNCHANGED <<history, slot>>
    BY <1>14, AtCaller DEF GoToMerge, GoToCreate, Calls
  <2> HIDE DEF k
  <2>2. NothingRead
    BY <2>1, OneCallReadsNothing
  <2> QED
    BY <1>1, <2>1, <2>2
<1>15. ASSUME NEW p \in Projects, NEW e, history' = [history EXCEPT ![p] = Append(@, e)],
              NothingRead
       PROVE  ToldInv'
  <2>1. history \in [Projects -> Seq(Entries)] /\ history[p] \in Seq(Entries)
    BY DEF IInv, Shape
  <2>2. \A j \in 1 .. Len(history[p]) : Append(history[p], e)[j] = history[p][j]
    BY <2>1
  <2>3. SaysTheSame
    BY <1>15, <2>1, <2>2 DEF SaysTheSame
  <2> QED
    BY <1>15, <2>3, NothingReadTells
<1>16. ASSUME NEW c \in Callers, HostTakes(c) PROVE ToldInv'
  <2> DEFINE p == call[c].project
             k == [call[c] EXCEPT !.pc = "wrote"]
  <2>1. p \in Projects /\ k.pc = "wrote"
    BY AtCaller DEF Calls
  <2>2. /\ call' = [call EXCEPT ![c] = k] /\ slot' = slot
        /\ \/ history' = [history EXCEPT ![p] = Append(@, Merged)]
           \/ history' = [history EXCEPT ![p] = Append(@, FirstDraft)]
    BY <1>16 DEF HostTakes
  <2> HIDE DEF p, k
  <2>3. NothingRead
    BY <2>1, <2>2, OneCallReadsNothing
  <2> QED
    BY <1>15, <2>1, <2>2, <2>3
<1>17. ASSUME NEW p \in Projects, NEW f \in PrStates, HostChanges(p, f) PROVE ToldInv'
  <2>1. NothingRead
    BY <1>17 DEF HostChanges, NothingRead
  <2> QED
    BY <1>15, <1>17, <2>1 DEF HostChanges
<1>18. CASE UNCHANGED vars
  BY <1>1, <1>18 DEF vars, NothingRead
<1> QED
  BY <1>4, <1>5, <1>6, <1>7, <1>8, <1>9, <1>10, <1>12, <1>13, <1>14, <1>16, <1>17, <1>18
     DEF Next

(***************************************************************************)
(* A screen whose data is not what the cache holds was sent pr.changed     *)
(* since it drew it (`fetch` in pr/PrCache.ts compares the digest of what   *)
(* was known with the new one, also when nothing was known).               *)
(***************************************************************************)
THEOREM ScreensHear == Spec => []ScreensAreTold
<1>1. Init => ToldInv
  <2>1. NoCall.pc = "idle"
    BY DEF NoCall
  <2> QED
    BY <2>1 DEF Init, ToldInv, ToldAt, Drawn
<1>2. IInv /\ ToldInv /\ [Next]_vars => ToldInv'
  BY ToldNext
<1>3. ToldInv => ScreensAreTold
  BY DEF ToldInv, ToldAt, Drawn, ScreensAreTold
<1> QED
  BY <1>1, <1>2, <1>3, InvariantHolds, PTL DEF Spec

-----------------------------------------------------------------------------
(* The refinement of FreshReads. *)

Questions0 == [c \in Callers |-> QuestionOf(call[c])]

\* A question that was told something is of a caller who was answered.
LEMMA QuestionCases ==
  ASSUME NEW k \in Calls
  PROVE  /\ k.pc = "idle" \/ k.for = "create" => QuestionOf(k) = [state |-> "none"]
         /\ k.pc \in Waiting /\ k.for # "create" =>
              QuestionOf(k) = [state |-> "asked", project |-> k.project, floor |-> k.floor]
         /\ k.pc \in {"answered", "writing", "wrote"} /\ k.for # "create" =>
              QuestionOf(k) = [state |-> "told", project |-> k.project, floor |-> k.floor,
                               failed |-> k.failure, snap |-> k.snapshot]
BY DEF QuestionOf, Waiting

\* Changing one call changes one question.
LEMMA OneQuestion ==
  ASSUME NEW c \in Callers, NEW k, call \in [Callers -> Calls],
         call' = [call EXCEPT ![c] = k]
  PROVE  Questions0' = [Questions0 EXCEPT ![c] = QuestionOf(k)]
BY DEF Questions0

LEMMA SameQuestion ==
  ASSUME NEW c \in Callers, NEW k, call \in [Callers -> Calls],
         call' = [call EXCEPT ![c] = k], QuestionOf(k) = QuestionOf(call[c])
  PROVE  Questions0' = Questions0
BY DEF Questions0

\* An answer that respects its floor is one the promise allows.
LEMMA ToldIsAllowed ==
  ASSUME NEW p, NEW f \in Nat, NEW k \in Calls, Len(history[p]) \in Nat,
         k.project = p, k.floor = f, k.snapshot <= Len(history[p]),
         ~k.failure => k.snapshot # 0 /\ f <= k.snapshot
  PROVE  [state |-> "told", project |-> k.project, floor |-> k.floor,
          failed |-> k.failure, snap |-> k.snapshot] \in Fresh!Tellings(p, f)
<1>1. k.snapshot \in Nat /\ k.failure \in BOOLEAN
  BY DEF Calls
<1> DEFINE i == k.snapshot
<1>2. Fresh!ToldOf(p, f, k.failure, i) \in Fresh!Tellings(p, f)
  <2>1. CASE k.failure = TRUE
    <3>1. i \in 0 .. Len(history[p])
      BY <1>1
    <3>2. Fresh!ToldOf(p, f, TRUE, i) \in Fresh!Tellings(p, f)
      BY <3>1, Zenon DEF Fresh!Tellings
    <3> QED
      BY <3>2, <2>1
  <2>2. CASE k.failure = FALSE
    <3>1. i \in (f .. Len(history[p])) \ {0}
      BY <1>1, <2>2
    <3>2. Fresh!ToldOf(p, f, FALSE, i) \in Fresh!Tellings(p, f)
      BY <3>1, Zenon DEF Fresh!Tellings
    <3> QED
      BY <3>2, <2>2
  <2> QED
    BY <1>1, <2>1, <2>2
<1>3. Fresh!ToldOf(p, f, k.failure, i)
        = [state |-> "told", project |-> k.project, floor |-> k.floor,
           failed |-> k.failure, snap |-> k.snapshot]
  BY DEF Fresh!ToldOf
<1> QED
  BY <1>2, <1>3
-----------------------------------------------------------------------------
(* The steps of the promise, in the terms of the cache. *)

LEMMA AsOutdated ==
  ASSUME NEW p \in Projects, history' = history, Questions0' = Questions0,
         floor' = [floor EXCEPT ![p] = Len(history[p])]
  PROVE  Fresh!FreshNext
<1>1. Fresh!Outdated(p)
  BY DEF Fresh!Outdated, Questions0
<1> QED
  BY <1>1 DEF Fresh!FreshNext

LEMMA AsHostMoves ==
  ASSUME NEW p \in Projects, NEW e \in Entries, floor' = floor, Questions0' = Questions0,
         history' = [history EXCEPT ![p] = Append(@, e)]
  PROVE  Fresh!FreshNext
<1>1. Fresh!HostMoves(p, e)
  BY DEF Fresh!HostMoves, Questions0
<1> QED
  BY <1>1 DEF Fresh!FreshNext, Entries

LEMMA AsDrops ==
  ASSUME NEW c \in Callers, QuestionOf(call[c]).state = "told",
         Questions0' = [Questions0 EXCEPT ![c] = [state |-> "none"]],
         history' = history,
         \/ floor' = floor
         \/ floor' = [floor EXCEPT ![QuestionOf(call[c]).project] =
                        Len(history[QuestionOf(call[c]).project])]
  PROVE  Fresh!FreshNext
<1>1. Questions0[c] = QuestionOf(call[c])
  BY DEF Questions0
<1>2. Fresh!Drops(c)
  BY <1>1 DEF Fresh!Drops, Fresh!NoQuestion, Questions0
<1> QED
  BY <1>2 DEF Fresh!FreshNext

\* A question asked, answered later or at once, at the floor there was.
LEMMA AsAsks ==
  ASSUME NEW c \in Callers, NEW p \in Projects, NEW q,
         QuestionOf(call[c]).state # "asked",
         Questions0' = [Questions0 EXCEPT ![c] = q],
         q = Fresh!AskedFor(p, floor[p]) \/ q \in Fresh!Tellings(p, floor[p]),
         history' = history, floor' = floor
  PROVE  Fresh!FreshNext
<1>1. Questions0[c] = QuestionOf(call[c])
  BY DEF Questions0
<1>2. Fresh!Asks(c, p) \/ Fresh!AsksAndHears(c, p)
  BY <1>1 DEF Fresh!Asks, Fresh!AsksAndHears, Questions0
<1> QED
  BY <1>2 DEF Fresh!FreshNext

LEMMA AsOutdatesAndAsks ==
  ASSUME NEW c \in Callers, NEW p \in Projects,
         QuestionOf(call[c]).state # "asked",
         Questions0' = [Questions0 EXCEPT ![c] = Fresh!AskedFor(p, Len(history[p]))],
         history' = history, floor' = [floor EXCEPT ![p] = Len(history[p])]
  PROVE  Fresh!FreshNext
<1>1. Questions0[c] = QuestionOf(call[c])
  BY DEF Questions0
<1>2. Fresh!OutdatesAndAsks(c, p)
  BY <1>1 DEF Fresh!OutdatesAndAsks, Questions0
<1> QED
  BY <1>2 DEF Fresh!FreshNext

LEMMA AsHear ==
  ASSUME NEW C \in SUBSET Callers,
         \A c \in C : QuestionOf(call[c]).state = "asked",
         \A c \in Callers \ C : QuestionOf(call'[c]) = QuestionOf(call[c]),
         \A c \in C : QuestionOf(call'[c])
            \in Fresh!Tellings(QuestionOf(call[c]).project, QuestionOf(call[c]).floor),
         history' = history, floor' = floor
  PROVE  Fresh!FreshNext
<1>1. Fresh!Hear(C)
  BY DEF Fresh!Hear
<1> QED
  BY <1>1 DEF Fresh!FreshNext

LEMMA AsStutter ==
  ASSUME history' = history, floor' = floor, Questions0' = Questions0
  PROVE  UNCHANGED Fresh!freshVars
BY DEF Fresh!freshVars, Questions0

-----------------------------------------------------------------------------
(* Each step of the cache is a step of the promise. *)

\* Asking on slot s with floor f: what the caller becomes is a question asked
\* or one answered as the promise allows.
LEMMA AskedQuestion ==
  ASSUME IInv, NEW c \in Callers, NEW p \in Projects, NEW for \in Purposes, NEW s,
         NEW f \in Nat, for # "create",
         SlotInv(s, Len(history[p]), f),
         for = "merge" => f = Len(history[p]),
         GetFrom(c, for, p, s, f)
  PROVE  \E q : /\ Questions0' = [Questions0 EXCEPT ![c] = q]
                /\ q = Fresh!AskedFor(p, f) \/ q \in Fresh!Tellings(p, f)
                /\ MustWait(s) => q = Fresh!AskedFor(p, f)
<1>1. Len(history[p]) \in Nat /\ Len(history[p]) >= 1 /\ call \in [Callers -> Calls]
  BY AtProject DEF IInv, Shape
<1>2. PICK t, k :
           /\ call' = [call EXCEPT ![c] = k]
           /\ CallInv(k, Len(history[p]), f, t)
           /\ k.project = p /\ k.for = for /\ k.floor = f
           /\ k.pc \in {"joined", "chained", "answered"}
           /\ MustWait(s) => k.pc # "answered"
  BY <1>1, GetFromKeeps
<1>3. k \in Calls
  BY <1>2 DEF CallInv
<1>4. Questions0' = [Questions0 EXCEPT ![c] = QuestionOf(k)]
  BY <1>1, <1>2, OneQuestion
<1>5. CASE k.pc \in {"joined", "chained"}
  <2>1. QuestionOf(k) = Fresh!AskedFor(p, f)
    BY <1>2, <1>3, <1>5, QuestionCases DEF Waiting, Fresh!AskedFor
  <2> QED
    BY <1>4, <2>1
<1>6. CASE k.pc = "answered"
  <2>1. k.snapshot <= Len(history[p]) /\ (~k.failure => k.snapshot # 0 /\ f <= k.snapshot)
    BY <1>2, <1>6 DEF CallInv
  <2>2. QuestionOf(k) \in Fresh!Tellings(p, f)
    BY <1>1, <1>2, <1>3, <1>6, <2>1, QuestionCases, ToldIsAllowed
  <2> QED
    BY <1>2, <1>4, <1>6, <2>2
<1> QED
  BY <1>2, <1>5, <1>6

LEMMA FreeHasNoQuestion ==
  ASSUME IInv, NEW c \in Callers, Free(c)
  PROVE  QuestionOf(call[c]).state # "asked"
<1>1. call[c] \in Calls
  BY AtCaller
<1> QED
  BY <1>1, QuestionCases DEF Free

LEMMA GetRefines ==
  ASSUME IInv, NEW c \in Callers, NEW p \in Projects, NEW for \in Questions(c), Get(c, for, p)
  PROVE  Fresh!FreshNext
<1>1. for \in Purposes /\ for # "merge" /\ for # "create"
  BY DEF Questions, Purposes
<1>2. SlotInv(slot[p], Len(history[p]), floor[p]) /\ floor[p] \in Nat
  BY AtProject
<1>3. \E q : /\ Questions0' = [Questions0 EXCEPT ![c] = q]
             /\ q = Fresh!AskedFor(p, floor[p]) \/ q \in Fresh!Tellings(p, floor[p])
  BY <1>1, <1>2, AskedQuestion DEF Get
<1>4. QuestionOf(call[c]).state # "asked" /\ history' = history /\ floor' = floor
  BY FreeHasNoQuestion DEF Get
<1> QED
  BY <1>3, <1>4, AsAsks

LEMMA AskToMergeRefines ==
  ASSUME IInv, NEW c \in Callers, NEW p \in Projects, AskToMerge(c, p)
  PROVE  Fresh!FreshNext
<1> DEFINE n == Len(history[p])
           s == Invalidated(slot[p])
<1>1. n \in Nat /\ SlotInv(slot[p], n, floor[p]) /\ floor[p] \in Nat
  BY AtProject
<1>2. SlotInv(s, n, n)
  BY <1>1, InvalidatedKeeps
<1>3. MustWait(s)
  <2>1. slot[p].want \in Nat /\ slot[p].served \in Nat /\ slot[p] \in Slots
    BY <1>1 DEF SlotInv, Slots
  <2>2. CASE ~slot[p].there
    BY <1>1, <2>2 DEF MustWait, Known, Invalidated, SlotInv
  <2>3. CASE slot[p].there
    <3> DEFINE w == slot[p].want + 1
    <3>1. s = [slot[p] EXCEPT !.fresh = FALSE, !.want = w]
      BY <2>3 DEF Invalidated
    <3>2. w > slot[p].served
      BY <1>1, <2>1 DEF SlotInv
    <3> HIDE DEF s, w
    <3>3. s.want = w /\ s.served = slot[p].served
      BY <2>1, <3>1 DEF Slots
    <3> QED
      BY <3>2, <3>3 DEF MustWait
  <2> QED
    BY <2>2, <2>3
<1>4. "merge" \in Purposes
  BY DEF Purposes
<1>5. GetFrom(c, "merge", p, s, n) /\ history' = history /\ floor' = [floor EXCEPT ![p] = n]
  BY DEF AskToMerge
<1> HIDE DEF s
<1>6. \E q : /\ Questions0' = [Questions0 EXCEPT ![c] = q]
             /\ q = Fresh!AskedFor(p, n)
  BY <1>1, <1>2, <1>3, <1>4, <1>5, AskedQuestion
<1>7. QuestionOf(call[c]).state # "asked"
  BY FreeHasNoQuestion DEF AskToMerge
<1> QED
  BY <1>5, <1>6, <1>7, AsOutdatesAndAsks

\* The read that ends is heard by those who joined it.
LEMMA ReadEndsRefines ==
  ASSUME IInv, NEW p \in Projects, NEW ok \in BOOLEAN, NEW i \in 1 .. MaxHistory,
         ReadEnds(p, ok, i)
  PROVE  Fresh!FreshNext
<1> DEFINE C == {c \in Callers : /\ call[c].project = p /\ call[c].pc = "joined"
                                 /\ call[c].for # "create"}
           t == Landed(p, ok, i)
           n == Len(history[p])
<1>1. /\ n \in Nat /\ floor[p] \in Nat /\ SlotInv(slot[p], n, floor[p]) /\ i \in Nat
  BY AtProject DEF ReadEnds
<1>2. /\ slot[p].inFlight.on /\ i <= n /\ slot[p].inFlight.since <= i
      /\ history' = history /\ floor' = floor
  BY <1>1 DEF ReadEnds, SlotInv, Slots, Flights
<1>3. /\ SlotInv(t, n, floor[p])
      /\ ~t.failure => t.snapshot = i /\ i # 0 /\ slot[p].inFlight.since <= i
  BY <1>1, <1>2, LandedKeeps
<1>4. t \in Slots /\ t.snapshot <= n /\ t.snapshot \in Nat
  BY <1>3 DEF SlotInv, Slots
<1>5. ASSUME NEW c \in Callers PROVE call[c] \in Calls /\ call[c].floor \in Nat
  BY AtCaller DEF Calls
<1>6. ASSUME NEW c \in Callers
      PROVE  call'[c] = CASE call[c].project = p /\ call[c].pc = "joined" -> Given(call[c], t)
                          [] call[c].project = p /\ call[c].pc = "chained" ->
                               [call[c] EXCEPT !.pc = "again"]
                          [] call[c].project = p /\ call[c].pc = "answered"
                               /\ call[c].for = "look" ->
                               [call[c] EXCEPT !.told = @ \/ Announces(p, ok, i)]
                          [] OTHER -> call[c]
  BY DEF ReadEnds
<1> HIDE DEF t
<1>7. ASSUME NEW c \in C
      PROVE  /\ QuestionOf(call[c]).state = "asked"
             /\ QuestionOf(call'[c])
                  \in Fresh!Tellings(QuestionOf(call[c]).project, QuestionOf(call[c]).floor)
  <2> DEFINE r == call[c]
             k == Given(r, t)
  <2>1. /\ r \in Calls /\ r.floor \in Nat /\ r.project = p /\ r.pc = "joined"
        /\ r.for # "create"
    BY <1>5
  <2>2. QuestionOf(r) = [state |-> "asked", project |-> p, floor |-> r.floor]
    BY <2>1, QuestionCases DEF Waiting
  <2>3. call'[c] = k
    BY <1>6, <2>1
  <2>4. r.floor <= slot[p].inFlight.since /\ slot[p].inFlight.since \in Nat
    BY <2>1, <1>1, AtCaller DEF CallInv, SlotInv, Slots, Flights
  <2> HIDE DEF r
  <2>5. /\ k \in Calls /\ k.pc = "answered" /\ k.for = r.for /\ k.project = p
        /\ k.floor = r.floor /\ k.snapshot = t.snapshot /\ k.failure = t.failure
    BY <2>1, <1>4, GivenIs
  <2> HIDE DEF k
  <2>6. k.snapshot <= n /\ (~k.failure => k.snapshot # 0 /\ r.floor <= k.snapshot)
    BY <2>1, <2>4, <2>5, <1>1, <1>3, <1>4
  <2>7. QuestionOf(k) \in Fresh!Tellings(p, r.floor)
    BY <2>1, <2>5, <2>6, <1>1, QuestionCases, ToldIsAllowed
  <2> QED
    BY <2>2, <2>3, <2>7 DEF r
<1>8. ASSUME NEW c \in Callers \ C PROVE QuestionOf(call'[c]) = QuestionOf(call[c])
  <2> DEFINE r == call[c]
  <2>1. r \in Calls
    BY <1>5
  <2>2. CASE r.project = p /\ r.pc = "joined"
    <3>1. r.for = "create" /\ call'[c] = Given(r, t)
      BY <2>2, <1>6
    <3>2. Given(r, t).for = "create" /\ Given(r, t) \in Calls
      BY <3>1, <2>1, <1>4, GivenIs
    <3> QED
      BY <3>1, <3>2, <2>1, QuestionCases
  <2>3. CASE r.project = p /\ r.pc = "chained"
    <3>1. call'[c] = [r EXCEPT !.pc = "again"]
      BY <2>3, <1>6
    <3> HIDE DEF r
    <3>2. "again" \in Pcs
      BY DEF Pcs, Waiting
    <3> DEFINE k == [r EXCEPT !.pc = "again"]
    <3>3. /\ k \in Calls /\ k.pc = "again" /\ k.for = r.for /\ k.project = r.project
          /\ k.floor = r.floor
      BY <2>1, <3>2 DEF Calls
    <3> HIDE DEF k
    <3>4. QuestionOf(k) = QuestionOf(r)
      BY <2>1, <2>3, <3>3, QuestionCases DEF Waiting
    <3> QED
      BY <3>1, <3>4 DEF r, k
  <2>4. CASE r.project = p /\ r.pc = "answered" /\ r.for = "look"
    <3> DEFINE b == r.told \/ Announces(p, ok, i)
               k == [r EXCEPT !.told = b]
    <3>1. call'[c] = k
      BY <2>4, <1>6
    <3>2. r.told \in BOOLEAN
      BY <2>1 DEF Calls
    <3>3. b \in BOOLEAN
      BY <3>2 DEF Announces
    <3> HIDE DEF r, b
    <3>4. /\ k \in Calls /\ k.pc = r.pc /\ k.for = r.for /\ k.project = r.project
          /\ k.floor = r.floor /\ k.snapshot = r.snapshot /\ k.failure = r.failure
      BY <2>1, <3>3 DEF Calls
    <3> HIDE DEF k
    <3>5. QuestionOf(k) = QuestionOf(r)
      BY <2>1, <2>4, <3>4, QuestionCases
    <3> QED
      BY <3>1, <3>5 DEF r
  <2>5. CASE ~(/\ r.project = p
               /\ r.pc \in {"joined", "chained"} \/ (r.pc = "answered" /\ r.for = "look"))
    BY <2>5, <1>6
  <2> QED
    BY <2>2, <2>3, <2>4, <2>5
<1> HIDE DEF C
<1>9. C \in SUBSET Callers
  BY DEF C
<1> QED
  BY <1>2, <1>7, <1>8, <1>9, AsHear

\* A caller that leaves the cache: the question it was told is dropped, and
\* there was none if it asked nothing.
LEMMA DoneRefines ==
  ASSUME IInv, NEW c \in Callers, call[c].pc \in {"answered", "writing", "wrote"},
         Done(c), history' = history, floor' = floor
  PROVE  [Fresh!FreshNext]_(Fresh!freshVars)
<1>1. call[c] \in Calls /\ call \in [Callers -> Calls]
  BY AtCaller DEF IInv, Shape
<1>2. call' = [call EXCEPT ![c] = NoCall] /\ QuestionOf(NoCall) = [state |-> "none"]
  BY NoCallInv, QuestionCases DEF Done
<1>3. CASE call[c].for = "create"
  <2>1. QuestionOf(NoCall) = QuestionOf(call[c])
    BY <1>1, <1>2, <1>3, QuestionCases
  <2>2. Questions0' = Questions0
    BY <1>1, <1>2, <2>1, SameQuestion
  <2>3. UNCHANGED Fresh!freshVars
    BY <2>2, AsStutter
  <2> QED
    BY <2>3
<1>4. CASE call[c].for # "create"
  <2>1. QuestionOf(call[c]).state = "told"
    BY <1>1, <1>4, QuestionCases
  <2>2. Questions0' = [Questions0 EXCEPT ![c] = [state |-> "none"]]
    BY <1>1, <1>2, OneQuestion
  <2> QED
    BY <2>1, <2>2, AsDrops
<1> QED
  BY <1>3, <1>4

LEMMA RouteReturnsRefines ==
  ASSUME IInv, NEW c \in Callers, RouteReturns(c)
  PROVE  Fresh!FreshNext
<1> DEFINE p == call[c].project
<1>1. call[c] \in Calls /\ call \in [Callers -> Calls] /\ p \in Projects
  BY AtCaller DEF IInv, Shape
<1>2. /\ call' = [call EXCEPT ![c] = NoCall] /\ QuestionOf(NoCall) = [state |-> "none"]
      /\ history' = history /\ floor' = [floor EXCEPT ![p] = Len(history[p])]
      /\ call[c].pc = "wrote"
  BY NoCallInv, QuestionCases DEF RouteReturns, Done
<1>3. CASE call[c].for = "create"
  <2>1. QuestionOf(NoCall) = QuestionOf(call[c])
    BY <1>1, <1>2, <1>3, QuestionCases
  <2>2. Questions0' = Questions0
    BY <1>1, <1>2, <2>1, SameQuestion
  <2> QED
    BY <1>1, <1>2, <2>2, AsOutdated
<1>4. CASE call[c].for # "create"
  <2>1. QuestionOf(call[c]).state = "told" /\ QuestionOf(call[c]).project = p
    BY <1>1, <1>2, <1>4, QuestionCases
  <2>2. Questions0' = [Questions0 EXCEPT ![c] = [state |-> "none"]]
    BY <1>1, <1>2, OneQuestion
  <2> QED
    BY <1>2, <2>1, <2>2, AsDrops
<1> QED
  BY <1>3, <1>4

\* A caller that only moves between points with the same question.
LEMMA MovesRefine ==
  ASSUME IInv, NEW c \in Callers, NEW pc \in Pcs,
         call' = [call EXCEPT ![c].pc = pc],
         \/ call[c].pc \in Waiting /\ pc \in Waiting
         \/ /\ call[c].pc \in {"answered", "writing", "wrote"}
            /\ pc \in {"answered", "writing", "wrote"}
  PROVE  Questions0' = Questions0
<1> DEFINE r == call[c]
           k == [r EXCEPT !.pc = pc]
<1>1. r \in Calls /\ call \in [Callers -> Calls] /\ call' = [call EXCEPT ![c] = k]
  BY AtCaller DEF IInv, Shape
<1>2. \/ r.pc \in Waiting /\ pc \in Waiting
      \/ /\ r.pc \in {"answered", "writing", "wrote"}
         /\ pc \in {"answered", "writing", "wrote"}
  OBVIOUS
<1> HIDE DEF r
<1>3. /\ k \in Calls /\ k.pc = pc /\ k.for = r.for /\ k.project = r.project
      /\ k.floor = r.floor /\ k.snapshot = r.snapshot /\ k.failure = r.failure
  BY <1>1 DEF Calls
<1> HIDE DEF k
<1>4. QuestionOf(k) = QuestionOf(r)
  BY <1>1, <1>2, <1>3, QuestionCases
<1> QED
  BY <1>1, <1>4, SameQuestion DEF r

LEMMA HostTakesRefines ==
  ASSUME IInv, NEW c \in Callers, HostTakes(c)
  PROVE  Fresh!FreshNext
<1>1. call[c].project \in Projects /\ "wrote" \in Pcs
  BY AtCaller DEF Pcs
<1>2. \E e \in Entries :
        history' = [history EXCEPT ![call[c].project] = Append(@, e)]
  BY DEF HostTakes, Entries
<1>3. Questions0' = Questions0
  BY <1>1, MovesRefine DEF HostTakes
<1>4. floor' = floor
  BY DEF HostTakes
<1> QED
  BY <1>1, <1>2, <1>3, <1>4, AsHostMoves

LEMMA InitRefines == Init => Fresh!FreshInit
<1> SUFFICES ASSUME Init PROVE Fresh!FreshInit
  OBVIOUS
<1>1. history \in [Projects -> {<<s>> : s \in Entries}]
  BY DEF Init, Entries
<1>2. QuestionOf(NoCall) = [state |-> "none"]
  BY NoCallInv, QuestionCases
<1>3. Questions0 = [c \in Callers |-> [state |-> "none"]]
  BY <1>2 DEF Init, Questions0
<1> QED
  BY <1>1, <1>3 DEF Fresh!FreshInit, Fresh!NoQuestion, Questions0, Entries, Init

LEMMA NextRefines == IInv /\ [Next]_vars => [Fresh!FreshNext]_(Fresh!freshVars)
<1> SUFFICES ASSUME IInv, [Next]_vars PROVE [Fresh!FreshNext]_(Fresh!freshVars)
  OBVIOUS
<1>0. ASSUME history' = history, floor' = floor, Questions0' = Questions0
      PROVE  [Fresh!FreshNext]_(Fresh!freshVars)
  BY <1>0, AsStutter
<1>1. ASSUME NEW p \in Projects, Refresh(p) PROVE Fresh!FreshNext
  <2>1. Questions0' = Questions0
    BY <1>1 DEF Refresh, Questions0
  <2> QED
    BY <1>1, <2>1, AsOutdated DEF Refresh
<1>2. ASSUME NEW p \in Projects, Ages(p) PROVE [Fresh!FreshNext]_(Fresh!freshVars)
  <2>1. history' = history /\ floor' = floor /\ Questions0' = Questions0
    BY <1>2 DEF Ages, Questions0
  <2> QED
    BY <2>1, <1>0
<1>3. ASSUME NEW p \in Projects, NEW f \in PrStates, HostChanges(p, f) PROVE Fresh!FreshNext
  <2>1. Questions0' = Questions0 /\ f \in Entries
    BY <1>3 DEF HostChanges, Questions0, Entries
  <2> QED
    BY <1>3, <2>1, AsHostMoves DEF HostChanges
<1>4. ASSUME NEW p \in Projects, NEW ok \in BOOLEAN, NEW i \in 1 .. MaxHistory,
             ReadEnds(p, ok, i)
      PROVE  Fresh!FreshNext
  BY <1>4, ReadEndsRefines
<1>5. ASSUME NEW p \in Projects, NEW c \in Screens, AskToMerge(c, p) PROVE Fresh!FreshNext
  BY <1>5, AskToMergeRefines DEF Callers
<1>6. ASSUME NEW p \in Projects, NEW c \in Screens, GoToCreateFromScreen(c, p)
      PROVE  [Fresh!FreshNext]_(Fresh!freshVars)
  <2> DEFINE k == Asking("writing", "create", p, floor[p])
  <2>1. c \in Callers /\ call \in [Callers -> Calls] /\ call[c] \in Calls
    BY AtCaller DEF Callers, IInv, Shape
  <2>2. "writing" \in Pcs /\ "create" \in Purposes /\ Len(history[p]) \in Nat /\ floor[p] \in Nat
    BY AtProject DEF Pcs, Purposes
  <2>3. k \in Calls /\ k.pc = "writing" /\ k.for = "create"
    BY <2>2, AskingIs
  <2>4. call' = [call EXCEPT ![c] = k] /\ history' = history /\ floor' = floor /\ Free(c)
    BY <1>6 DEF GoToCreateFromScreen
  <2> HIDE DEF k
  <2>5. QuestionOf(k) = [state |-> "none"]
    BY <2>3, QuestionCases
  <2>6. Questions0' = [Questions0 EXCEPT ![c] = [state |-> "none"]]
    BY <2>1, <2>4, <2>5, OneQuestion
  <2>7. CASE QuestionOf(call[c]).state = "told"
    BY <2>1, <2>4, <2>6, <2>7, AsDrops
  <2>8. CASE QuestionOf(call[c]).state # "told"
    <3>1. QuestionOf(call[c]) = [state |-> "none"]
      BY <2>1, <2>4, <2>8, QuestionCases DEF Free
    <3>2. Questions0' = Questions0
      BY <2>1, <2>4, <2>5, <3>1, SameQuestion
    <3> QED
      BY <3>2, <2>4, <1>0
  <2> QED
    BY <2>7, <2>8
<1>7. ASSUME NEW p \in Projects, NEW c \in Callers, NEW for \in Questions(c), Get(c, for, p)
      PROVE  Fresh!FreshNext
  BY <1>7, GetRefines
<1>8. ASSUME NEW c \in Callers, StartAgain(c) PROVE [Fresh!FreshNext]_(Fresh!freshVars)
  <2>1. /\ call[c].pc = "again" /\ call' = [call EXCEPT ![c].pc = Joins(slot[call[c].project])]
        /\ history' = history /\ floor' = floor
    BY <1>8 DEF StartAgain
  <2>2. Joins(slot[call[c].project]) \in {"joined", "chained"}
    BY DEF Joins
  <2>3. Joins(slot[call[c].project]) \in Pcs \cap Waiting
    BY <2>2 DEF Pcs, Waiting
  <2>4. call[c].pc \in Waiting
    BY <2>1 DEF Waiting
  <2>5. Questions0' = Questions0
    BY <2>1, <2>3, <2>4, MovesRefine
  <2> QED
    BY <2>1, <2>5, <1>0
<1>9. ASSUME NEW c \in Callers,
             RefuseMerge(c) \/ SkipCreate(c) \/ Publish(c) \/ WriteFails(c) \/ OpenReturns(c)
      PROVE  [Fresh!FreshNext]_(Fresh!freshVars)
  BY <1>9, DoneRefines DEF RefuseMerge, SkipCreate, Publish, WriteFails, OpenReturns
<1>10. ASSUME NEW c \in Callers, GoToMerge(c) \/ GoToCreate(c)
       PROVE  [Fresh!FreshNext]_(Fresh!freshVars)
  <2>1. /\ call[c].pc = "answered" /\ call' = [call EXCEPT ![c].pc = "writing"]
        /\ history' = history /\ floor' = floor
    BY <1>10 DEF GoToMerge, GoToCreate
  <2>2. "writing" \in Pcs
    BY DEF Pcs
  <2>3. Questions0' = Questions0
    BY <2>1, <2>2, MovesRefine
  <2> QED
    BY <2>1, <2>3, <1>0
<1>11. ASSUME NEW c \in Callers, HostTakes(c) PROVE Fresh!FreshNext
  BY <1>11, HostTakesRefines
<1>12. ASSUME NEW c \in Callers, RouteReturns(c) PROVE Fresh!FreshNext
  BY <1>12, RouteReturnsRefines
<1>13. CASE UNCHANGED vars
  <2>1. history' = history /\ floor' = floor /\ Questions0' = Questions0
    BY <1>13 DEF vars, Questions0
  <2> QED
    BY <2>1, <1>0
<1> QED
  BY <1>1, <1>2, <1>3, <1>4, <1>5, <1>6, <1>7, <1>8, <1>9, <1>10, <1>11, <1>12, <1>13 DEF Next

(***************************************************************************)
(* The cache keeps the promise of FreshReads: however reads are shared,    *)
(* chained and timed, what a caller is told is a failure or something no   *)
(* older than the last invalidation before it asked.                       *)
(***************************************************************************)
THEOREM KeepsThePromise == Spec => ImplementsFreshReads
<1>1. Spec => Init /\ [][Next]_vars
  BY DEF Spec
<1>2. Spec => [][Fresh!FreshNext]_(Fresh!freshVars)
  BY <1>1, NextRefines, InvariantHolds, PTL
<1> QED
  BY <1>1, <1>2, InitRefines, PTL DEF ImplementsFreshReads, Fresh!FreshSpec
=============================================================================
