---------------------------- MODULE ScriptsProofs ----------------------------
(***************************************************************************)
(* Proofs about the scripts and the ports of the checkouts: for any        *)
(* checkouts, ports, callers and number of scripts, a live script of a     *)
(* checkout that exists has the block its checkout holds, blocks are never *)
(* shared nor changed, and the map of ports holds no watched script that   *)
(* has ended.                                                              *)
(***************************************************************************)
EXTENDS Scripts, SequenceTheorems, WellFoundedInduction, TLAPS

(***************************************************************************)
(* The inductive invariant.  ScriptInv is about a script s that is on the  *)
(* map of ports or not, with the reservations and the rows; Data about all *)
(* of them; CallInv about one call when n scripts were started.            *)
(***************************************************************************)
ScriptInv(s, onMap, res, rw) ==
  /\ s \in Script
  /\ s.alive /\ s.checkout \in rw => res[s.checkout] = s.port
  /\ onMap /\ s.watched => s.alive
  /\ s.sniffing => s.alive

Injective(res) ==
  \A v, w \in Checkouts : res[v] # None /\ res[v] = res[w] => v = w

Data(ss, found, res, rw) ==
  /\ ss \in Seq(Script) /\ Len(ss) <= MaxScripts
  /\ found \subseteq DOMAIN ss
  /\ res \in [Checkouts -> Ports \cup {None}]
  /\ rw \subseteq Checkouts
  /\ Injective(res)
  /\ \A i \in DOMAIN ss : ScriptInv(ss[i], i \in found, res, rw)

CallInv(k, n) ==
  /\ k \in Calls
  /\ k.pc = "probing" => k.base # None
  /\ k.pc = "waiting" => k.script \in 1 .. n

CallsInv(cl, n) == cl \in [Callers -> Calls] /\ \A c \in Callers : CallInv(cl[c], n)

IInv == /\ Data(scripts, discovered, reserved, row)
        /\ dir \subseteq Checkouts
        /\ CallsInv(call, Len(scripts))

-----------------------------------------------------------------------------
(* Facts about the parts. *)

LEMMA Blocks == Ports \subseteq Nat /\ None \notin Ports /\ None \in Nat
BY PortsAssumption DEF None

\* The oldest of a set of numbers is one of them.
LEMMA OldestIn ==
  ASSUME NEW S, S \subseteq Nat, S # {}
  PROVE  Oldest(S) \in S
<1>1. PICK x \in S : \A y \in S : ~ (<<y, x>> \in OpToRel(<, Nat))
  BY WFMin, NatLessThanWellFounded, Zenon
<1>2. ASSUME NEW y \in S PROVE x <= y
  <2>0. ~ (<<y, x>> \in OpToRel(<, Nat))
    BY <1>1
  <2>1. x \in Nat /\ y \in Nat
    OBVIOUS
  <2>2. <<y, x>> \in Nat \X Nat /\ <<y, x>>[1] = y /\ <<y, x>>[2] = x
    BY <2>1
  <2>3. ~ (<<y, x>>[1] < <<y, x>>[2])
    BY <2>0, <2>2, Zenon DEF OpToRel
  <2>4. ~ (y < x)
    BY <2>2, <2>3
  <2> QED BY <2>1, <2>4
<1> QED BY <1>2 DEF Oldest

\* A sequence whose scripts are replaced one by one by others.
LEMMA ReplacedSeq ==
  ASSUME NEW ss \in Seq(Script), NEW tt, tt = [i \in DOMAIN ss |-> tt[i]],
         \A i \in DOMAIN ss : tt[i] \in Script
  PROVE  tt \in Seq(Script) /\ Len(tt) = Len(ss) /\ DOMAIN tt = DOMAIN ss
<1>1. DOMAIN ss = 1 .. Len(ss) /\ Len(ss) \in Nat
  OBVIOUS
<1>2. tt \in [1 .. Len(ss) -> Script]
  BY <1>1
<1> QED BY <1>1, <1>2, SeqDef

\* A change of the scripts that leaves each of them as it was but for the
\* signal, and leaves fewer on the map.
LEMMA OnlyTold ==
  ASSUME NEW ss, NEW found, NEW res, NEW rw, Data(ss, found, res, rw),
         NEW tt, tt = [i \in DOMAIN ss |-> tt[i]],
         \A i \in DOMAIN ss : tt[i] = ss[i] \/ tt[i] = [ss[i] EXCEPT !.told = TRUE],
         NEW less, less \subseteq found
  PROVE  Data(tt, less, res, rw) /\ Len(tt) = Len(ss)
<1>1. \A i \in DOMAIN ss : ScriptInv(tt[i], i \in less, res, rw)
  <2> SUFFICES ASSUME NEW i \in DOMAIN ss PROVE ScriptInv(tt[i], i \in less, res, rw)
    OBVIOUS
  <2>1. ScriptInv(ss[i], i \in found, res, rw)
    BY DEF Data
  <2>2. tt[i] = ss[i] \/ tt[i] = [ss[i] EXCEPT !.told = TRUE]
    OBVIOUS
  <2>3. tt[i] \in Script /\ tt[i].alive = ss[i].alive /\ tt[i].checkout = ss[i].checkout
        /\ tt[i].port = ss[i].port /\ tt[i].watched = ss[i].watched
        /\ tt[i].sniffing = ss[i].sniffing
    BY <2>1, <2>2 DEF ScriptInv, Script
  <2> QED BY <2>1, <2>3 DEF ScriptInv
<1>2. tt \in Seq(Script) /\ Len(tt) = Len(ss) /\ DOMAIN tt = DOMAIN ss
  BY <1>1, ReplacedSeq DEF Data, ScriptInv
<1> QED BY <1>1, <1>2 DEF Data

LEMMA ToldKeeps ==
  ASSUME NEW ss, NEW found, NEW res, NEW rw, Data(ss, found, res, rw), NEW j,
         NEW less, less \subseteq found
  PROVE  Data(Told(ss, j), less, res, rw) /\ Len(Told(ss, j)) = Len(ss)
<1> DEFINE tt == Told(ss, j)
<1>1. ss = [i \in DOMAIN ss |-> ss[i]]
  BY DEF Data
<1>2. tt = [i \in DOMAIN ss |-> tt[i]]
      /\ \A i \in DOMAIN ss : tt[i] = ss[i] \/ tt[i] = [ss[i] EXCEPT !.told = TRUE]
  BY <1>1 DEF Told
<1> HIDE DEF tt
<1>3. Data(tt, less, res, rw) /\ Len(tt) = Len(ss)
  BY <1>2, OnlyTold
<1> QED BY <1>3 DEF tt

LEMMA StopAllKeeps ==
  ASSUME NEW ss, NEW found, NEW res, NEW rw, Data(ss, found, res, rw), NEW w,
         NEW less, less \subseteq found
  PROVE  Data(StopAll(ss, w), less, res, rw) /\ Len(StopAll(ss, w)) = Len(ss)
<1> DEFINE tt == StopAll(ss, w)
<1>2. tt = [i \in DOMAIN ss |-> tt[i]]
      /\ \A i \in DOMAIN ss : tt[i] = ss[i] \/ tt[i] = [ss[i] EXCEPT !.told = TRUE]
  BY DEF StopAll
<1> HIDE DEF tt
<1>3. Data(tt, less, res, rw) /\ Len(tt) = Len(ss)
  BY <1>2, OnlyTold
<1> QED BY <1>3 DEF tt

\* A checkout goes, with its reservation or without it.
LEMMA GoneKeeps ==
  ASSUME NEW ss, NEW found, NEW res, NEW rw, Data(ss, found, res, rw),
         NEW w \in Checkouts
  PROVE  /\ Data(ss, found, res, rw \ {w})
         /\ Data(ss, found, [res EXCEPT ![w] = None], rw \ {w})
<1> DEFINE gone == [res EXCEPT ![w] = None]
<1>1. /\ res \in [Checkouts -> Ports \cup {None}]
      /\ gone \in [Checkouts -> Ports \cup {None}]
      /\ \A v \in Checkouts : gone[v] = IF v = w THEN None ELSE res[v]
  BY DEF Data
<1> HIDE DEF gone
<1>2. Injective(gone)
  BY <1>1 DEF Injective, Data
<1>3. ASSUME NEW i \in DOMAIN ss
      PROVE  /\ ScriptInv(ss[i], i \in found, res, rw \ {w})
             /\ ScriptInv(ss[i], i \in found, gone, rw \ {w})
  <2>1. ScriptInv(ss[i], i \in found, res, rw)
    BY DEF Data
  <2>2. ss[i].checkout \in Checkouts
    BY <2>1 DEF ScriptInv, Script
  <2> QED BY <2>1, <2>2, <1>1 DEF ScriptInv
<1>4. Data(ss, found, res, rw \ {w}) /\ Data(ss, found, gone, rw \ {w})
  BY <1>1, <1>2, <1>3 DEF Data
<1> QED BY <1>4 DEF gone

\* A free block is given to a checkout that has none.
LEMMA GivenKeeps ==
  ASSUME NEW ss, NEW found, NEW res, NEW rw, Data(ss, found, res, rw),
         NEW w \in Checkouts, res[w] = None, NEW b \in Ports,
         \A v \in Checkouts : res[v] # b,
         \A i \in DOMAIN ss : ss[i].alive /\ ss[i].checkout \in rw => res[ss[i].checkout] # None
  PROVE  Data(ss, found, [res EXCEPT ![w] = b], rw)
<1> DEFINE given == [res EXCEPT ![w] = b]
<1>1. /\ res \in [Checkouts -> Ports \cup {None}]
      /\ given \in [Checkouts -> Ports \cup {None}]
      /\ \A v \in Checkouts : given[v] = IF v = w THEN b ELSE res[v]
  BY DEF Data
<1> HIDE DEF given
<1>2. Injective(given)
  BY <1>1 DEF Injective, Data
<1>3. ASSUME NEW i \in DOMAIN ss
      PROVE  ScriptInv(ss[i], i \in found, given, rw)
  <2>1. ScriptInv(ss[i], i \in found, res, rw)
    BY DEF Data
  <2>2. ss[i].checkout \in Checkouts
    BY <2>1 DEF ScriptInv, Script
  <2> QED BY <2>1, <2>2, <1>1 DEF ScriptInv
<1>4. Data(ss, found, given, rw)
  BY <1>1, <1>2, <1>3 DEF Data
<1> QED BY <1>4 DEF given

\* A script is born with the block of its checkout.
LEMMA BornKeeps ==
  ASSUME NEW ss, NEW found, NEW res, NEW rw, Data(ss, found, res, rw),
         Len(ss) < MaxScripts, NEW s \in Script, s.alive, res[s.checkout] = s.port,
         NEW more, more \subseteq found \cup {Len(ss) + 1},
         NEW tt, tt = Append(ss, s)
  PROVE  Data(tt, more, res, rw) /\ Len(tt) = Len(ss) + 1
<1>2. ss \in Seq(Script) /\ Len(ss) \in Nat /\ DOMAIN ss = 1 .. Len(ss)
  BY DEF Data
<1>3. tt \in Seq(Script) /\ Len(tt) = Len(ss) + 1 /\ DOMAIN tt = 1 .. Len(ss) + 1
      /\ (\A i \in DOMAIN ss : tt[i] = ss[i]) /\ tt[Len(ss) + 1] = s
  BY <1>2
<1>4. ASSUME NEW i \in DOMAIN tt PROVE ScriptInv(tt[i], i \in more, res, rw)
  <2>1. CASE i = Len(ss) + 1
    BY <2>1, <1>3 DEF ScriptInv
  <2>2. CASE i # Len(ss) + 1
    <3>1. i \in DOMAIN ss /\ tt[i] = ss[i] /\ (i \in more => i \in found)
      BY <2>2, <1>2, <1>3
    <3>2. ScriptInv(ss[i], i \in found, res, rw)
      BY <3>1 DEF Data
    <3> QED BY <3>1, <3>2 DEF ScriptInv
  <2> QED BY <2>1, <2>2
<1>5. Len(tt) <= MaxScripts /\ more \subseteq DOMAIN tt
  BY <1>2, <1>3, BoundAssumption DEF Data
<1> QED BY <1>3, <1>4, <1>5 DEF Data

-----------------------------------------------------------------------------
(* The pieces the actions are made of.  Each leads to a state of the       *)
(* invariant and changes the blocks only as BlocksAreForGood allows.       *)

BlocksStep ==
  \A w \in Checkouts : reserved[w] # None /\ reserved'[w] # reserved[w]
    => reserved'[w] = None /\ w \in row /\ w \notin row'

Good == IInv' /\ BlocksStep

\* The reservations res are those of now, and maybe more.
Grows(res) == \A w \in Checkouts : reserved[w] # None => res[w] = reserved[w]

LEMMA NoCallOK == \A n \in Nat : CallInv(NoCall, n)
<1>1. (CHOOSE w \in Checkouts : TRUE) \in Checkouts
  BY CheckoutsAssumption
<1> QED BY <1>1, PhasesAssumption DEF CallInv, NoCall, Calls, Pcs, Ops

LEMMA OneCall ==
  ASSUME NEW cl, NEW n \in Nat, CallsInv(cl, n), NEW c \in Callers,
         NEW m \in Nat, n <= m, NEW k, CallInv(k, m),
         NEW cm, cm = [cl EXCEPT ![c] = k]
  PROVE  CallsInv(cm, m)
<1>1. \A d \in Callers : cm[d] = IF d = c THEN k ELSE cl[d]
  BY DEF CallsInv
<1>2. ASSUME NEW d \in Callers PROVE CallInv(cl[d], m)
  BY DEF CallsInv, CallInv
<1>3. k \in Calls
  BY DEF CallInv
<1>4. cm \in [Callers -> Calls]
  BY <1>3 DEF CallsInv
<1>5. \A d \in Callers : CallInv(cm[d], m)
  BY <1>1, <1>2
<1> QED BY <1>4, <1>5 DEF CallsInv

LEMMA IdleKeeps ==
  ASSUME NEW c \in Callers, IInv, Idle(c)
  PROVE  CallsInv(call', Len(scripts))
<1>1. Len(scripts) \in Nat /\ CallsInv(call, Len(scripts)) /\ Len(scripts) <= Len(scripts)
  BY DEF IInv, Data
<1>2. CallInv(NoCall, Len(scripts)) /\ call' = [call EXCEPT ![c] = NoCall]
  BY <1>1, NoCallOK DEF Idle
<1> QED BY <1>1, <1>2, OneCall

LEMMA UnlinkKeeps ==
  ASSUME NEW c \in Callers, IInv, NEW ss, NEW found, NEW res, Data(ss, found, res, row),
         Len(ss) = Len(scripts), Grows(res), StopAndUnlink(c, ss, found, res)
  PROVE  Good
<1> DEFINE w == call[c].checkout
           k == [call[c] EXCEPT !.pc = "unlinking", !.base = None, !.taken = {}, !.script = None]
<1>1. Len(scripts) \in Nat /\ call[c] \in Calls /\ w \in Checkouts /\ CallsInv(call, Len(scripts))
  BY DEF IInv, Data, CallsInv, CallInv, Calls
<1>2. k \in Calls /\ k.pc = "unlinking"
  BY <1>1 DEF Calls, Pcs
<1>3. CallInv(k, Len(scripts))
  BY <1>2 DEF CallInv
<1>4. /\ scripts' = StopAll(ss, w)
      /\ discovered' \subseteq found
      /\ dir' = dir
  BY DEF StopAndUnlink
<1>5. \A rw, rs : Data(ss, found, rs, rw) => Data(scripts', discovered', rs, rw) /\ Len(scripts') = Len(scripts)
  BY <1>4, StopAllKeeps
<1>6. CASE w \in dir \/ call[c].op = "finish"
  <2>1. row' = row /\ reserved' = res
    BY <1>6 DEF StopAndUnlink
  <2>2. call' = [call EXCEPT ![c] = k]
    BY <1>6, <1>1 DEF StopAndUnlink, CallsInv
  <2> HIDE DEF k
  <2>3. CallsInv(call', Len(scripts))
    <3>1. Len(scripts) <= Len(scripts)
      BY <1>1
    <3> QED BY <3>1, <1>1, <1>3, <2>2, OneCall
  <2>4. IInv'
    BY <1>4, <1>5, <2>1, <2>3 DEF IInv
  <2>5. BlocksStep
    BY <2>1 DEF BlocksStep, Grows
  <2> QED BY <2>4, <2>5 DEF Good
<1>7. CASE ~ (w \in dir \/ call[c].op = "finish")
  <2>1. Idle(c) /\ row' = row \ {w}
        /\ reserved' = IF w \in row THEN [res EXCEPT ![w] = None] ELSE res
    BY <1>7 DEF StopAndUnlink
  <2>2. CallsInv(call', Len(scripts))
    BY <2>1, IdleKeeps
  <2>3. Data(ss, found, reserved', row')
    BY <1>1, <2>1, GoneKeeps
  <2>4. IInv'
    BY <1>4, <1>5, <2>2, <2>3 DEF IInv
  <2>5. \A v \in Checkouts : reserved'[v] = IF v = w /\ w \in row THEN None ELSE res[v]
    BY <2>1 DEF Data
  <2>6. BlocksStep
    BY <2>1, <2>5 DEF BlocksStep, Grows
  <2> QED BY <2>4, <2>6 DEF Good
<1> QED BY <1>6, <1>7

LEMMA ProceedKeeps ==
  ASSUME NEW c \in Callers, IInv, NEW ss, NEW found, NEW res, Data(ss, found, res, row),
         Len(ss) = Len(scripts), Grows(res), Proceed(c, ss, found, res)
  PROVE  Good
<1>1. CASE call[c].op = "remove"
  BY <1>1, UnlinkKeeps DEF Proceed
<1>2. CASE call[c].op # "remove"
  <2>1. Idle(c) /\ scripts' = ss /\ discovered' = found /\ reserved' = res /\ row' = row /\ dir' = dir
    BY <1>2 DEF Proceed
  <2>2. CallsInv(call', Len(scripts))
    BY <2>1, IdleKeeps
  <2>3. IInv'
    BY <2>1, <2>2 DEF IInv
  <2> QED BY <2>1, <2>3 DEF Good, BlocksStep, Grows
<1> QED BY <1>1, <1>2

LEMMA SpawnKeeps ==
  ASSUME NEW c \in Callers, IInv, NEW ss, NEW found, NEW res, Data(ss, found, res, row),
         Len(ss) = Len(scripts), Grows(res), NEW b \in Ports, res[call[c].checkout] = b,
         SpawnOrThrow(c, b, ss, found, res)
  PROVE  Good
<1> DEFINE w == call[c].checkout
           ph == call[c].phase
           n == Len(scripts)
           k == IF call[c].op = "start" THEN NoCall
                ELSE [call[c] EXCEPT !.pc = "waiting", !.script = n + 1, !.base = None, !.taken = {}]
<1>1. n \in Nat /\ call[c] \in Calls /\ w \in Checkouts /\ ph \in Phases /\ CallsInv(call, n)
  BY DEF IInv, Data, CallsInv, CallInv, Calls
<1>2. CASE Proceed(c, ss, found, res)
  BY <1>2, ProceedKeeps
<1>3. CASE Spawn(c, b, ss, found, res)
  <2>1. PICK s \in Script : /\ s.alive /\ s.checkout = w /\ s.port = b
                           /\ scripts' = Append(ss, s)
                           /\ discovered' \subseteq found \cup {Len(ss) + 1}
    <3>1. PICK env \in BOOLEAN :
            /\ scripts' = Append(ss, Born(w, ph, b, env))
            /\ discovered' = IF env THEN found \cup {n + 1} ELSE found
      BY <1>3 DEF Spawn
    <3>2. Born(w, ph, b, env) \in Script
      BY <1>1 DEF Born, Script
    <3> QED BY <3>1, <3>2 DEF Born
  <2>2. Len(ss) < MaxScripts /\ reserved' = res /\ row' = row /\ dir' = dir
    BY <1>3 DEF Spawn
  <2>3. Data(scripts', discovered', res, row) /\ Len(scripts') = n + 1
    <3>1. s.alive /\ res[s.checkout] = s.port /\ Len(ss) < MaxScripts
      BY <2>1, <2>2
    <3>2. ASSUME NEW more, more \subseteq found \cup {Len(ss) + 1},
                 NEW tt, tt = Append(ss, s)
          PROVE  Data(tt, more, res, row) /\ Len(tt) = Len(ss) + 1
      BY ONLY Data(ss, found, res, row), s \in Script, <3>1, <3>2, BornKeeps, Zenon
    <3>3. Data(scripts', discovered', res, row) /\ Len(scripts') = Len(ss) + 1
      BY ONLY <2>1, <3>2
    <3> QED BY <3>3
  <2>4. n + 1 \in Ids
    BY <1>1, <2>2, BoundAssumption DEF Ids
  <2>5. CallInv(k, n + 1)
    <3>1. CASE call[c].op = "start"
      BY <3>1, <1>1, NoCallOK
    <3>2. CASE call[c].op # "start"
      <4> DEFINE r == [call[c] EXCEPT !.pc = "waiting", !.script = n + 1, !.base = None, !.taken = {}]
      <4>1. r \in Calls /\ r.pc = "waiting" /\ r.script = n + 1
        BY <1>1, <2>4 DEF Calls, Pcs
      <4> HIDE DEF r
      <4>2. CallInv(r, n + 1)
        BY <4>1, <1>1 DEF CallInv
      <4> QED BY <3>2, <4>2 DEF r
    <3> QED BY <3>1, <3>2
  <2>6. call' = [call EXCEPT ![c] = k]
    BY <1>3, <1>1 DEF Spawn, CallsInv
  <2> HIDE DEF k
  <2>7. CallsInv(call', n + 1)
    <3>1. n <= n + 1 /\ n + 1 \in Nat
      BY <1>1
    <3> QED BY <3>1, <1>1, <2>5, <2>6, OneCall
  <2>8. IInv'
    BY <2>2, <2>3, <2>7 DEF IInv
  <2> QED BY <2>2, <2>8 DEF Good, BlocksStep, Grows
<1> QED BY <1>2, <1>3 DEF SpawnOrThrow

LEMMA SearchKeeps ==
  ASSUME NEW c \in Callers, IInv, NEW ss, NEW found, Data(ss, found, reserved, row),
         Len(ss) = Len(scripts), NEW from, NEW taken \in SUBSET Ports,
         Search(c, from, taken, ss, found)
  PROVE  Good
<1> DEFINE b == Oldest(Candidates(from, taken))
           k == [call[c] EXCEPT !.pc = "probing", !.taken = taken, !.base = b]
<1>1. Len(scripts) \in Nat /\ call[c] \in Calls /\ CallsInv(call, Len(scripts))
  BY DEF IInv, Data, CallsInv, CallInv
<1>2. CASE Candidates(from, taken) = {}
  BY <1>2, ProceedKeeps DEF Search, Grows
<1>3. CASE Candidates(from, taken) # {}
  <2>1. Candidates(from, taken) \subseteq Ports
    BY DEF Candidates
  <2>2. b \in Ports /\ b # None
    BY <1>3, <2>1, OldestIn, Blocks
  <2> HIDE DEF b
  <2>3. k \in Calls /\ k.pc = "probing" /\ k.base = b
    BY <1>1, <2>2 DEF Calls, Pcs
  <2>4. call' = [call EXCEPT ![c] = k]
    BY <1>1, <1>3 DEF Search, CallsInv, b
  <2> HIDE DEF k
  <2>5. CallInv(k, Len(scripts))
    BY <2>2, <2>3 DEF CallInv
  <2>6. CallsInv(call', Len(scripts))
    <3>1. Len(scripts) <= Len(scripts)
      BY <1>1
    <3> QED BY <3>1, <1>1, <2>4, <2>5, OneCall
  <2>7. scripts' = ss /\ discovered' = found /\ row' = row /\ dir' = dir /\ reserved' = reserved
    BY <1>3 DEF Search
  <2>8. IInv'
    BY <2>6, <2>7 DEF IInv
  <2> QED BY <2>7, <2>8 DEF Good, BlocksStep
<1> QED BY <1>2, <1>3

-----------------------------------------------------------------------------
(* The actions. *)

LEMMA TypesNow ==
  ASSUME NEW c \in Callers, IInv
  PROVE  /\ Len(scripts) \in Nat /\ DOMAIN scripts = 1 .. Len(scripts)
         /\ Data(scripts, discovered, reserved, row)
         /\ CallsInv(call, Len(scripts)) /\ CallInv(call[c], Len(scripts))
         /\ call[c] \in Calls /\ call[c].checkout \in Checkouts
         /\ call[c].base \in Ports \cup {None} /\ call[c].taken \in SUBSET Ports
BY DEF IInv, Data, CallsInv, CallInv, Calls

LEMMA ReadDoneStep == ASSUME NEW c \in Callers, IInv, ReadDone(c) PROVE Good
<1> DEFINE w == call[c].checkout
           prev == LiveSession(scripts, w, call[c].phase)
           ss == Told(scripts, prev)
           found == discovered \ {prev}
<1>1. Data(scripts, discovered, reserved, row) /\ w \in Checkouts
  BY TypesNow
<1>2. CASE Proceed(c, scripts, discovered, reserved)
  BY <1>1, <1>2, ProceedKeeps DEF Grows
<1>3. CASE reserved[w] # None /\ SpawnOrThrow(c, reserved[w], ss, found, reserved)
  <2>1. Data(ss, found, reserved, row) /\ Len(ss) = Len(scripts)
    BY <1>1, ToldKeeps
  <2>2. reserved[w] \in Ports
    BY <1>1, <1>3 DEF Data
  <2> HIDE DEF ss, found
  <2> QED BY <1>3, <2>1, <2>2, SpawnKeeps DEF Grows
<1>4. CASE Search(c, 0, Taken, ss, found)
  <2>1. Data(ss, found, reserved, row) /\ Len(ss) = Len(scripts)
    BY <1>1, ToldKeeps
  <2>2. Taken \in SUBSET Ports
    BY <1>1 DEF Data, Taken
  <2> HIDE DEF ss, found
  <2> QED BY <1>4, <2>1, <2>2, SearchKeeps
<1>5. \/ Proceed(c, scripts, discovered, reserved)
      \/ reserved[w] # None /\ SpawnOrThrow(c, reserved[w], ss, found, reserved)
      \/ Search(c, 0, Taken, ss, found)
  BY DEF ReadDone
<1> QED BY <1>2, <1>3, <1>4, <1>5

LEMMA ProbedStep ==
  ASSUME NEW c \in Callers, IInv, NEW free \in BOOLEAN, Probed(c, free) PROVE Good
<1> DEFINE w == call[c].checkout
           b == call[c].base
           given == [reserved EXCEPT ![w] = b]
<1>1. Data(scripts, discovered, reserved, row) /\ w \in Checkouts
      /\ call[c].taken \in SUBSET Ports /\ b \in Ports
  BY TypesNow DEF CallInv, Probed
<1>2. CASE MayInsert(c) /\ SpawnOrThrow(c, b, scripts, discovered, given)
  <2>1. reserved[w] = None /\ \A v \in Checkouts : reserved[v] # b
    BY <1>1, <1>2, Blocks DEF MayInsert, Taken
  <2>2. ASSUME NEW i \in DOMAIN scripts, scripts[i].alive, scripts[i].checkout \in row
        PROVE  reserved[scripts[i].checkout] # None
    <3>1. ScriptInv(scripts[i], i \in discovered, reserved, row)
      BY <1>1 DEF Data
    <3>2. scripts[i].port \in Ports /\ reserved[scripts[i].checkout] = scripts[i].port
      BY <2>2, <3>1 DEF ScriptInv, Script
    <3> QED BY <3>2, Blocks
  <2>3. Data(scripts, discovered, given, row)
    BY <1>1, <2>1, <2>2, GivenKeeps
  <2>4. given[w] = b /\ Grows(given)
    BY <1>1, <2>1 DEF Data, Grows
  <2> HIDE DEF given, b
  <2>5. b \in Ports
    BY <1>1
  <2> QED BY <1>2, <2>3, <2>4, <2>5, SpawnKeeps
<1>3. CASE reserved[w] # None /\ SpawnOrThrow(c, reserved[w], scripts, discovered, reserved)
  <2>1. reserved[w] \in Ports
    BY <1>1, <1>3 DEF Data
  <2> QED BY <1>1, <1>3, <2>1, SpawnKeeps DEF Grows
<1>4. CASE Search(c, b + 1, call[c].taken, scripts, discovered)
  BY <1>1, <1>4, SearchKeeps
<1>5. \/ MayInsert(c) /\ SpawnOrThrow(c, b, scripts, discovered, given)
      \/ reserved[w] # None /\ SpawnOrThrow(c, reserved[w], scripts, discovered, reserved)
      \/ Search(c, b + 1, call[c].taken, scripts, discovered)
  BY DEF Probed
<1> QED BY <1>2, <1>3, <1>4, <1>5

LEMMA UnlinkedStep ==
  ASSUME NEW c \in Callers, IInv, NEW ok \in BOOLEAN, Unlinked(c, ok) PROVE Good
<1> DEFINE w == call[c].checkout
<1>1. Data(scripts, discovered, reserved, row) /\ w \in Checkouts
  BY TypesNow
<1>2. Idle(c) /\ scripts' = scripts /\ discovered' = discovered
  BY DEF Unlinked
<1>3. CallsInv(call', Len(scripts'))
  BY <1>2, IdleKeeps
<1>4. dir' \subseteq Checkouts
  BY DEF Unlinked, IInv
<1>5. CASE ~ok
  <2>1. row' = row /\ reserved' = reserved
    BY <1>5 DEF Unlinked
  <2> QED BY <1>1, <1>2, <1>3, <1>4, <2>1 DEF Good, IInv, BlocksStep
<1>6. CASE ok
  <2>0. /\ row' = IF ok THEN row \ {w} ELSE row
        /\ reserved' = IF ok /\ w \in row /\ call[c].op = "remove"
                       THEN [reserved EXCEPT ![w] = None] ELSE reserved
    BY DEF Unlinked
  <2>1. row' = row \ {w}
        /\ (reserved' = reserved \/ (reserved' = [reserved EXCEPT ![w] = None] /\ w \in row))
    BY <2>0, <1>6, Zenon
  <2>a. Data(scripts, discovered, reserved, row \ {w})
        /\ Data(scripts, discovered, [reserved EXCEPT ![w] = None], row \ {w})
    BY <1>1, GoneKeeps
  <2>2. Data(scripts, discovered, reserved', row')
    BY <2>1, <2>a
  <2>3. BlocksStep
    BY <1>1, <2>1 DEF BlocksStep, Data
  <2> QED BY <1>2, <1>3, <1>4, <2>2, <2>3 DEF Good, IInv
<1> QED BY <1>5, <1>6

LEMMA AskStep ==
  ASSUME NEW c \in Callers, IInv, NEW op \in Ops, NEW w \in Checkouts, NEW ph \in Phases,
         Ask(c, op, w, ph)
  PROVE  Good
<1> DEFINE k == [NoCall EXCEPT !.pc = IF op \in {"start", "wait"} THEN "reading" ELSE "checking",
                               !.op = op, !.checkout = w, !.phase = ph]
<1>1. Len(scripts) \in Nat /\ CallsInv(call, Len(scripts)) /\ Len(scripts) <= Len(scripts)
  BY TypesNow
<1>2. NoCall \in Calls
  BY <1>1, NoCallOK DEF CallInv
<1>3. k \in Calls /\ k.pc \in {"reading", "checking"}
  BY <1>2 DEF Calls, Pcs
<1>4. call' = [call EXCEPT ![c] = k]
  BY DEF Ask
<1> HIDE DEF k
<1>5. CallInv(k, Len(scripts))
  BY <1>3 DEF CallInv
<1>6. CallsInv(call', Len(scripts))
  BY <1>1, <1>4, <1>5, OneCall
<1>7. UNCHANGED <<row, dir, reserved, scripts, discovered>>
  BY DEF Ask
<1> QED BY <1>6, <1>7 DEF Good, IInv, BlocksStep

LEMMA CheckedStep ==
  ASSUME NEW c \in Callers, IInv, NEW ok \in BOOLEAN, Checked(c, ok) PROVE Good
<1> DEFINE w == call[c].checkout
<1>1. Data(scripts, discovered, reserved, row) /\ CallsInv(call, Len(scripts))
      /\ Len(scripts) \in Nat /\ call[c] \in Calls /\ w \in Checkouts
  BY TypesNow
<1>2. CASE Idle(c) /\ UNCHANGED <<row, dir, reserved, scripts, discovered>>
  <2>1. CallsInv(call', Len(scripts))
    BY <1>2, IdleKeeps
  <2> QED BY <1>2, <2>1 DEF Good, IInv, BlocksStep
<1>3. CASE StopAndUnlink(c, scripts, discovered, reserved)
  BY <1>1, <1>3, UnlinkKeeps DEF Grows
<1>4. CASE call' = [call EXCEPT ![c].pc = "reading"]
           /\ UNCHANGED <<row, dir, reserved, scripts, discovered>>
  <2> DEFINE k == [call[c] EXCEPT !.pc = "reading"]
  <2>1. k \in Calls /\ k.pc = "reading"
    BY <1>1 DEF Calls, Pcs
  <2>2. call' = [call EXCEPT ![c] = k]
    BY <1>4
  <2> HIDE DEF k
  <2>3. CallInv(k, Len(scripts)) /\ Len(scripts) <= Len(scripts)
    BY <1>1, <2>1 DEF CallInv
  <2>4. CallsInv(call', Len(scripts))
    BY <1>1, <2>2, <2>3, OneCall
  <2> QED BY <1>4, <2>4 DEF Good, IInv, BlocksStep
<1>5. \/ Idle(c) /\ UNCHANGED <<row, dir, reserved, scripts, discovered>>
      \/ StopAndUnlink(c, scripts, discovered, reserved)
      \/ call' = [call EXCEPT ![c].pc = "reading"]
         /\ UNCHANGED <<row, dir, reserved, scripts, discovered>>
  <2>1. CASE ~ok
    BY <2>1 DEF Checked
  <2>2. CASE ok /\ call[c].op = "remove"
    BY <2>2, Zenon DEF Checked, Teardown
  <2>3. CASE ok /\ call[c].op = "finish"
    BY <2>3, Zenon DEF Checked
  <2> QED BY <2>1, <2>2, <2>3 DEF Checked
<1> QED BY <1>2, <1>3, <1>4, <1>5

LEMMA TimeoutStep == ASSUME NEW c \in Callers, IInv, Timeout(c) PROVE Good
<1> DEFINE ss == Told(scripts, call[c].script)
<1>1. Data(ss, discovered, reserved, row) /\ Len(ss) = Len(scripts)
  BY TypesNow, ToldKeeps
<1>2. Proceed(c, ss, discovered, reserved)
  BY DEF Timeout
<1> HIDE DEF ss
<1> QED BY <1>1, <1>2, ProceedKeeps DEF Grows

\* One script changes, the rest of the state and the other scripts do not.
LEMMA OneScript ==
  ASSUME NEW ss, NEW found, NEW res, NEW rw, Data(ss, found, res, rw),
         NEW i \in DOMAIN ss, NEW s, NEW more, more \subseteq found \cup {i},
         ScriptInv(s, i \in more, res, rw)
  PROVE  Data([ss EXCEPT ![i] = s], more, res, rw) /\ Len([ss EXCEPT ![i] = s]) = Len(ss)
<1> DEFINE tt == [ss EXCEPT ![i] = s]
<1>1. tt = [j \in DOMAIN ss |-> tt[j]] /\ \A j \in DOMAIN ss : tt[j] = IF j = i THEN s ELSE ss[j]
  BY DEF Data
<1> HIDE DEF tt
<1>2. ASSUME NEW j \in DOMAIN ss PROVE ScriptInv(tt[j], j \in more, res, rw)
  <2>1. ScriptInv(ss[j], j \in found, res, rw)
    BY DEF Data
  <2>2. CASE j = i
    BY <2>2, <1>1
  <2>3. CASE j # i
    <3>1. tt[j] = ss[j] /\ (j \in more => j \in found)
      BY <2>3, <1>1
    <3> QED BY <2>1, <3>1 DEF ScriptInv
  <2> QED BY <2>2, <2>3
<1>3. tt \in Seq(Script) /\ Len(tt) = Len(ss) /\ DOMAIN tt = DOMAIN ss
  BY <1>1, <1>2, ReplacedSeq DEF Data, ScriptInv
<1>4. Data(tt, more, res, rw)
  BY <1>2, <1>3 DEF Data
<1> QED BY <1>3, <1>4 DEF tt

LEMMA EndedFields ==
  ASSUME NEW s \in Script
  PROVE  Ended(s) \in Script /\ ~Ended(s).alive /\ ~Ended(s).sniffing
         /\ Ended(s).watched = s.watched
BY DEF Ended, Script

LEMMA ExitStep == ASSUME IInv, NEW i \in DOMAIN scripts, Exit(i) PROVE Good
<1> DEFINE s == Ended(scripts[i])
           ss == [scripts EXCEPT ![i] = s]
           found == OffTheMap(i)
<1>1. Data(scripts, discovered, reserved, row) /\ dir \subseteq Checkouts
      /\ CallsInv(call, Len(scripts))
  BY DEF IInv
<1>2. scripts[i] \in Script
  BY <1>1 DEF Data, ScriptInv
<1>3. s \in Script /\ ~s.alive /\ ~s.sniffing /\ s.watched = scripts[i].watched
  BY <1>2, EndedFields
<1>4. found \subseteq discovered /\ (scripts[i].watched => i \notin found)
  BY DEF OffTheMap
<1>5. (\/ ss = scripts' /\ found = discovered' /\ UNCHANGED <<row, dir, reserved, call>>
       \/ \E c \in Callers : Proceed(c, ss, found, reserved))
  BY DEF Exit, Waiters
<1> HIDE DEF s, found
<1>6. ScriptInv(s, i \in found, reserved, row)
  BY <1>3, <1>4 DEF ScriptInv
<1>7. Data(ss, found, reserved, row) /\ Len(ss) = Len(scripts)
  BY <1>1, <1>4, <1>6, OneScript
<1> HIDE DEF ss
<1>8. CASE ss = scripts' /\ found = discovered' /\ UNCHANGED <<row, dir, reserved, call>>
  BY <1>1, <1>7, <1>8 DEF Good, IInv, BlocksStep
<1>9. CASE \E c \in Callers : Proceed(c, ss, found, reserved)
  BY <1>7, <1>9, ProceedKeeps DEF Grows
<1> QED BY <1>5, <1>8, <1>9

LEMMA SniffsStep == ASSUME IInv, NEW i \in DOMAIN scripts, Sniffs(i) PROVE Good
<1> DEFINE s == [scripts[i] EXCEPT !.sniffing = FALSE]
           ss == [scripts EXCEPT ![i] = s]
<1>1. Data(scripts, discovered, reserved, row) /\ dir \subseteq Checkouts
      /\ CallsInv(call, Len(scripts))
  BY DEF IInv
<1>2. ScriptInv(scripts[i], i \in discovered, reserved, row) /\ scripts[i].sniffing
  BY <1>1 DEF Data, Sniffs
<1>3. s \in Script /\ ~s.sniffing /\ s.alive = scripts[i].alive /\ s.port = scripts[i].port
      /\ s.checkout = scripts[i].checkout /\ s.watched = scripts[i].watched
  BY <1>2 DEF ScriptInv, Script
<1>4. scripts' = ss /\ discovered' = discovered \cup {i} /\ UNCHANGED <<row, dir, reserved, call>>
  BY <1>1 DEF Sniffs, Data
<1> HIDE DEF s
<1>5. ScriptInv(s, i \in discovered', reserved, row)
  BY <1>2, <1>3 DEF ScriptInv
<1>6. Data(ss, discovered', reserved, row) /\ Len(ss) = Len(scripts)
  <2>1. discovered' \subseteq discovered \cup {i}
    BY <1>4
  <2> QED BY ONLY <1>1, <1>5, <2>1, i \in DOMAIN scripts, OneScript
<1> HIDE DEF ss
<1> QED BY <1>1, <1>4, <1>6 DEF Good, IInv, BlocksStep

LEMMA StopStep ==
  ASSUME IInv, NEW w \in Checkouts, NEW ph \in Phases, Stop(w, ph) PROVE Good
<1> DEFINE i == LiveSession(scripts, w, ph)
           ss == Told(scripts, i)
<1>1. Data(scripts, discovered, reserved, row) /\ dir \subseteq Checkouts
      /\ CallsInv(call, Len(scripts))
  BY DEF IInv
<1>2. scripts' = ss /\ discovered' = discovered \ {i} /\ UNCHANGED <<row, dir, reserved, call>>
  BY DEF Stop
<1>3. Data(ss, discovered', reserved, row) /\ Len(ss) = Len(scripts)
  BY <1>1, <1>2, ToldKeeps
<1> HIDE DEF ss
<1> QED BY <1>1, <1>2, <1>3 DEF Good, IInv, BlocksStep

LEMMA RestartStep == ASSUME IInv, Restart PROVE Good
<1>1. Data(scripts, discovered, reserved, row) /\ dir \subseteq Checkouts
      /\ Len(scripts) \in Nat
  BY DEF IInv, Data
<1>2. UNCHANGED <<row, dir, reserved>> /\ discovered' = {}
      /\ call' = [c \in Callers |-> NoCall]
      /\ scripts' = [i \in DOMAIN scripts |-> Ended(scripts[i])]
  BY DEF Restart
<1>3. ASSUME NEW i \in DOMAIN scripts PROVE ScriptInv(scripts'[i], i \in {}, reserved, row)
  <2>1. scripts[i] \in Script
    BY <1>1 DEF Data, ScriptInv
  <2>2. scripts'[i] = Ended(scripts[i])
    BY <1>2
  <2> QED BY <2>1, <2>2, EndedFields DEF ScriptInv
<1>4. scripts' = [i \in DOMAIN scripts |-> scripts'[i]]
  BY <1>2
<1>5. scripts' \in Seq(Script) /\ Len(scripts') = Len(scripts) /\ DOMAIN scripts' = DOMAIN scripts
  BY <1>1, <1>3, <1>4, ReplacedSeq DEF Data, ScriptInv
<1>6. Data(scripts', {}, reserved, row)
  BY <1>1, <1>3, <1>5 DEF Data
<1>7. CallInv(NoCall, Len(scripts)) /\ NoCall \in Calls
  BY <1>1, NoCallOK DEF CallInv
<1>8. CallsInv(call', Len(scripts))
  BY <1>2, <1>7 DEF CallsInv
<1> QED BY <1>1, <1>2, <1>5, <1>6, <1>8 DEF Good, IInv, BlocksStep

-----------------------------------------------------------------------------
(* The specification. *)

LEMMA InitInv == Init => IInv
<1> SUFFICES ASSUME Init PROVE IInv
  OBVIOUS
<1>1. Data(scripts, discovered, reserved, row)
  BY BoundAssumption DEF Init, Data, Injective
<1>2. CallInv(NoCall, 0) /\ NoCall \in Calls
  BY NoCallOK DEF CallInv
<1>3. CallsInv(call, Len(scripts))
  BY <1>2 DEF Init, CallsInv
<1> QED BY <1>1, <1>3 DEF Init, IInv

LEMMA NextGood == ASSUME IInv, [Next]_vars PROVE Good
<1>1. CASE \E c \in Callers : \E op \in Ops, w \in Checkouts, ph \in Phases : Ask(c, op, w, ph)
  BY <1>1, AskStep
<1>2. CASE \E c \in Callers : Answered(c)
  BY <1>2, CheckedStep, ReadDoneStep, ProbedStep, UnlinkedStep DEF Answered
<1>3. CASE \E c \in Callers : Timeout(c)
  BY <1>3, TimeoutStep
<1>4. CASE \E i \in DOMAIN scripts : Exit(i) \/ Sniffs(i)
  BY <1>4, ExitStep, SniffsStep
<1>5. CASE \E w \in Checkouts : \E ph \in Phases : Stop(w, ph)
  BY <1>5, StopStep
<1>6. CASE \E w \in Checkouts : Vanishes(w)
  BY <1>6 DEF Vanishes, Good, IInv, BlocksStep
<1>7. CASE Restart
  BY <1>7, RestartStep
<1>8. CASE UNCHANGED vars
  BY <1>8 DEF vars, Good, IInv, BlocksStep
<1> QED BY <1>1, <1>2, <1>3, <1>4, <1>5, <1>6, <1>7, <1>8 DEF Next

\* Types: what each variable and each call in flight may hold, as TypeOK says.
THEOREM TypeCorrect == Spec => []TypeOK
<1>1. IInv => TypeOK
  BY DEF IInv, TypeOK, Data, CallsInv, CallInv
<1>2. IInv /\ [Next]_vars => IInv'
  BY NextGood DEF Good
<1> QED BY <1>1, <1>2, InitInv, PTL DEF Spec

\* Blocks are never shared, and a live script of a checkout that exists holds
\* the block of its checkout (ports.ts:79-103, ScriptRunner.ts:281-305).
THEOREM BlocksAreHeld == Spec => []LiveScriptsHoldTheirBlock
<1>1. IInv => LiveScriptsHoldTheirBlock
  BY DEF IInv, LiveScriptsHoldTheirBlock, Data, Injective, ScriptInv
<1>2. IInv /\ [Next]_vars => IInv'
  BY NextGood DEF Good
<1> QED BY <1>1, <1>2, InitInv, PTL DEF Spec

\* The map of ports names no script that was read for its port and has ended
\* (ScriptRunner.ts:379-401).
THEOREM TheDeadLeaveTheMap == Spec => []NoPortOfTheDead
<1>1. IInv => NoPortOfTheDead
  BY DEF IInv, NoPortOfTheDead, Data, ScriptInv
<1>2. IInv /\ [Next]_vars => IInv'
  BY NextGood DEF Good
<1> QED BY <1>1, <1>2, InitInv, PTL DEF Spec

\* The block of a checkout never changes, and is given back only in the step
\* in which the checkout goes (ports.ts:84, worktree.ts:875-878).
THEOREM BlocksStayPut == Spec => BlocksAreForGood
<1>1. IInv /\ [Next]_vars
        => [\A w \in Checkouts : reserved[w] # None /\ reserved'[w] # reserved[w]
              => reserved'[w] = None /\ w \in row /\ w \notin row']_vars
  BY NextGood DEF Good, BlocksStep
<1>2. IInv /\ [Next]_vars => IInv'
  BY NextGood DEF Good
<1> QED BY <1>1, <1>2, InitInv, PTL DEF Spec, BlocksAreForGood
=============================================================================
