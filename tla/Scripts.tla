------------------------------- MODULE Scripts -------------------------------
(***************************************************************************)
(* The scripts of a checkout (scripts/ScriptRunner.ts), the block of ports *)
(* each checkout reserves for them (scripts/ports.ts), the processes that  *)
(* run them (pty/PtyManager.ts, sessions/SessionStore.ts) and the callers: *)
(* the footer, the first prompt that waits for `setup`, the removal of a   *)
(* worktree with its `teardown` (routers/worktree.ts) and the removal that *)
(* finishing a task decides (routers/task.ts).                             *)
(*                                                                         *)
(* The database is better-sqlite3: awaiting it gives way to promises but   *)
(* never to the event loop.  So a stretch of code between two waits for a  *)
(* file, a probe, git or a process is one step here, whatever it asks of   *)
(* the database, and the exit of a process, its listeners, the row and the *)
(* continuation of who waited are one step too.                            *)
(***************************************************************************)
EXTENDS Naturals, Sequences, FiniteSets

CONSTANTS
  Checkouts,
  Phases,           \* a subset of SCRIPT_PHASES
  Ports,            \* the bases of the range, increasing by blocks
  Callers,          \* requests and background jobs in flight
  Serves,           \* bound: the calls that each caller makes
  Fragile,          \* bound: the checkouts whose directory is removed by hand
  MaxScripts        \* bound: script sessions ever started

AllPhases == {"setup", "run", "test", "teardown"}
None == 0           \* no port, no script

ASSUME CheckoutsAssumption == Checkouts # {}
ASSUME PhasesAssumption == Phases \subseteq AllPhases /\ "teardown" \in Phases
ASSUME PortsAssumption == Ports \subseteq Nat \ {None} /\ IsFiniteSet(Ports)
ASSUME BoundAssumption == MaxScripts \in Nat

VARIABLES
  row,         \* the checkouts with a row in `worktree`
  dir,         \* the checkouts whose directory is on disk
  reserved,    \* checkout_port: the base of each checkout, or None
  scripts,     \* the sessions of kind script, oldest first, with their process
  discovered,  \* the keys of the map of ports found, in memory
  call         \* where each caller is

vars == <<row, dir, reserved, scripts, discovered, call>>

Script == [checkout : Checkouts, phase : Phases, port : Ports,
           alive : BOOLEAN,    \* the process, and the row with it
           told : BOOLEAN,     \* it was sent a signal
           sniffing : BOOLEAN, \* its output is being read for a port
           watched : BOOLEAN]  \* its exit takes its port off the map

Ids == 1 .. MaxScripts

\* start: the footer.  wait: runToCompletion of the first prompt or the gate.
\* remove, finish: the two removals of a checkout.
Ops == {"start", "wait", "remove", "finish"}
Pcs == {"idle", "checking", "reading", "probing", "waiting", "unlinking"}

Calls == [pc : Pcs, op : Ops, checkout : Checkouts, phase : Phases,
          base : Ports \cup {None},   \* the block being probed
          taken : SUBSET Ports,       \* the blocks taken when the search began
          script : Ids \cup {None}]   \* the script it waits for

NoCall == [pc |-> "idle", op |-> "start", checkout |-> CHOOSE w \in Checkouts : TRUE,
           phase |-> "teardown", base |-> None, taken |-> {}, script |-> None]

Init ==
  /\ row = Checkouts /\ dir = Checkouts
  /\ reserved = [w \in Checkouts |-> None]
  /\ scripts = <<>>
  /\ discovered = {}
  /\ call = [c \in Callers |-> NoCall]

-----------------------------------------------------------------------------
(* Processes. *)

Live(ss, w, ph) ==
  {i \in DOMAIN ss : ss[i].checkout = w /\ ss[i].phase = ph /\ ss[i].alive}

\* liveSession: the first row by age that is running and whose process is, told
\* to stop or not.
Oldest(S) == IF S = {} THEN None ELSE CHOOSE i \in S : \A j \in S : i <= j
LiveSession(ss, w, ph) == Oldest(Live(ss, w, ph))

\* kill: a signal; the process ends later, or never.
Told(ss, i) == IF i = None THEN ss ELSE [ss EXCEPT ![i].told = TRUE]

\* The one script of each phase that stopAll finds.
Found(ss, w) == {LiveSession(ss, w, ph) : ph \in Phases} \ {None}
StopAll(ss, w) ==
  [i \in DOMAIN ss |-> IF i \in Found(ss, w) THEN [ss[i] EXCEPT !.told = TRUE] ELSE ss[i]]

-----------------------------------------------------------------------------
(* The removal, from the point where the scripts are stopped. *)

Idle(c) == call' = [call EXCEPT ![c] = NoCall]

\* stopAll, and then git is asked to remove the directory.  A removal that
\* finds no directory does the rest at once.
StopAndUnlink(c, ss, found, res) ==
  LET w == call[c].checkout IN
  /\ scripts' = StopAll(ss, w)
  /\ discovered' = found \ Found(ss, w)
  /\ IF w \in dir \/ call[c].op = "finish"
     THEN /\ call' = [call EXCEPT ![c].pc = "unlinking", ![c].base = None, ![c].taken = {},
                               ![c].script = None]
          /\ row' = row /\ reserved' = res
     ELSE /\ Idle(c)
          /\ row' = row \ {w}
          /\ reserved' = IF w \in row THEN [res EXCEPT ![w] = None] ELSE res
  /\ UNCHANGED dir

\* The start was refused, or what it started is over or was given up: a removal
\* goes on in all three cases (the catch of the router), the other calls end.
Proceed(c, ss, found, res) ==
  IF call[c].op = "remove" THEN StopAndUnlink(c, ss, found, res)
  ELSE Idle(c) /\ scripts' = ss /\ discovered' = found /\ reserved' = res /\ UNCHANGED <<row, dir>>

\* Mutant: the reservation goes whether git removed the checkout or not.
ReleasesAnyway(c, ok) ==
  LET w == call[c].checkout IN
  /\ call[c].pc = "unlinking"
  /\ ok => w \in dir
  /\ dir' = IF ok THEN dir \ {w} ELSE dir
  /\ row' = IF ok THEN row \ {w} ELSE row
  /\ reserved' = [reserved EXCEPT ![w] = None]
  /\ Idle(c)
  /\ UNCHANGED <<scripts, discovered>>

\* git worktree remove has ended.  When it worked the row goes, and then the
\* reservation, unless another removal took the row first (NOT_FOUND) or this
\* one is the finishing of a task, which never releases it.
Unlinked(c, ok) ==
  LET w == call[c].checkout IN
  /\ call[c].pc = "unlinking"
  /\ ok => w \in dir
  /\ dir' = IF ok THEN dir \ {w} ELSE dir
  /\ row' = IF ok THEN row \ {w} ELSE row
  /\ reserved' = IF ok /\ w \in row /\ call[c].op = "remove"
                 THEN [reserved EXCEPT ![w] = None] ELSE reserved
  /\ Idle(c)
  /\ UNCHANGED <<scripts, discovered>>

-----------------------------------------------------------------------------
(* start. *)

Born(w, ph, port, env) ==
  [checkout |-> w, phase |-> ph, port |-> port, alive |-> TRUE, told |-> FALSE,
   sniffing |-> ph = "run" /\ ~env, watched |-> ph = "run" /\ ~env]

\* The process is born, and its row with it.  A run is read for its port, or
\* has it from the start when its command names the variable (env): then
\* nobody watches its exit.  Who runs to completion waits, under a ceiling.
Spawn(c, port, ss, found, res) ==
  LET ph == call[c].phase
      id == Len(ss) + 1
  IN
  /\ Len(ss) < MaxScripts
  /\ \E env \in IF ph = "run" THEN BOOLEAN ELSE {FALSE} :
       /\ scripts' = Append(ss, Born(call[c].checkout, ph, port, env))
       /\ discovered' = IF env THEN found \cup {id} ELSE found
  /\ call' = [call EXCEPT ![c] =
       IF @.op = "start" THEN NoCall
       ELSE [@ EXCEPT !.pc = "waiting", !.script = id, !.base = None, !.taken = {}]]
  /\ reserved' = res
  /\ UNCHANGED <<row, dir>>

\* spawn, and its refusals: no directory, or the process could not be born.
SpawnOrThrow(c, port, ss, found, res) ==
  \/ call[c].checkout \in dir /\ Spawn(c, port, ss, found, res)
  \/ Proceed(c, ss, found, res)

Candidates(base, taken) == {b \in Ports \ taken : b >= base}

\* The first block from base on that was not taken when the search began is
\* probed; without one the start is refused.
Search(c, base, taken, ss, found) ==
  IF Candidates(base, taken) = {}
  THEN Proceed(c, ss, found, reserved)
  ELSE /\ call' = [call EXCEPT ![c].pc = "probing", ![c].taken = taken,
                               ![c].base = Oldest(Candidates(base, taken))]
       /\ scripts' = ss /\ discovered' = found
       /\ UNCHANGED <<row, dir, reserved>>

Taken == {reserved[w] : w \in Checkouts} \ {None}

\* The script file has been read: refused (nothing declared, not TOML, not
\* trusted), or the previous run of the phase is told to stop and a port is
\* looked for.
ReadDone(c) ==
  LET w == call[c].checkout
      prev == LiveSession(scripts, w, call[c].phase)
      ss == Told(scripts, prev)
      found == discovered \ {prev}
  IN
  /\ call[c].pc = "reading"
  /\ \/ Proceed(c, scripts, discovered, reserved)
     \/ /\ w \in dir
        /\ IF reserved[w] # None
           THEN SpawnOrThrow(c, reserved[w], ss, found, reserved)
           ELSE Search(c, 0, Taken, ss, found)

\* Mutant: the index of the ports is missing.
ByCheckoutOnly(c) == reserved[call[c].checkout] = None

\* The two unique indexes of checkout_port: the block is nobody's, and the
\* checkout has none.
MayInsert(c) == call[c].base \notin Taken /\ reserved[call[c].checkout] = None

\* The probe of a block has answered.  A clash on insertion is answered with
\* the block the checkout has, or the search goes on.
Probed(c, free) ==
  LET w == call[c].checkout
      b == call[c].base
  IN
  /\ call[c].pc = "probing"
  /\ CASE free /\ MayInsert(c) ->
            SpawnOrThrow(c, b, scripts, discovered, [reserved EXCEPT ![w] = b])
       [] free /\ ~MayInsert(c) /\ reserved[w] # None ->
            SpawnOrThrow(c, reserved[w], scripts, discovered, reserved)
       [] OTHER -> Search(c, b + 1, call[c].taken, scripts, discovered)

-----------------------------------------------------------------------------
(* The calls. *)

\* The removal has passed its guards: the teardown is started, unless there is
\* no directory left (StopAndUnlink) or no row (the start is refused).
Teardown(c, w) ==
  IF w \in dir /\ w \in row
  THEN /\ call' = [call EXCEPT ![c].pc = "reading"]
       /\ UNCHANGED <<row, dir, reserved, scripts, discovered>>
  ELSE StopAndUnlink(c, scripts, discovered, reserved)

\* A call arrives.  Without a row it is refused; a removal and the finishing of
\* a task first ask git about the checkout (forced, it answers at once).
Ask(c, op, w, ph) ==
  /\ call[c].pc = "idle"
  /\ op \in Serves[c]
  /\ w \in row
  /\ op = "wait" => ph = "setup"
  /\ op \in {"remove", "finish"} => ph = "teardown"
  /\ call' = [call EXCEPT ![c] =
       [NoCall EXCEPT !.pc = IF op \in {"start", "wait"} THEN "reading" ELSE "checking",
                      !.op = op, !.checkout = w, !.phase = ph]]
  /\ UNCHANGED <<row, dir, reserved, scripts, discovered>>

\* git has answered: what it says holds the removal back (changes in the
\* directory, a branch not merged), or the removal goes on.
Checked(c, ok) ==
  LET w == call[c].checkout IN
  /\ call[c].pc = "checking"
  /\ \/ ~ok /\ Idle(c) /\ UNCHANGED <<row, dir, reserved, scripts, discovered>>
     \/ ok /\ call[c].op = "remove" /\ Teardown(c, w)
     \/ /\ ok /\ call[c].op = "finish" /\ w \in dir
        /\ StopAndUnlink(c, scripts, discovered, reserved)

\* The signals a process was sent end with it.
Ended(s) == [s EXCEPT !.alive = FALSE, !.told = FALSE, !.sniffing = FALSE]

Waiters(i) == {c \in Callers : call[c].pc = "waiting" /\ call[c].script = i}

\* Mutant: the port is taken off by stop and start only.
LeftToStop(i) == discovered

\* The listener of the exit, when there is one.
OffTheMap(i) == IF scripts[i].watched THEN discovered \ {i} ELSE discovered

\* A process ends: its port leaves the map if its exit is watched, and whoever
\* waited for it goes on.
Exit(i) ==
  LET ss == [scripts EXCEPT ![i] = Ended(@)]
      found == OffTheMap(i)
  IN
  /\ scripts[i].alive
  /\ IF Waiters(i) = {}
     THEN scripts' = ss /\ discovered' = found /\ UNCHANGED <<row, dir, reserved, call>>
     ELSE \E c \in Waiters(i) : Proceed(c, ss, found, reserved)

\* Mutant: the ceiling kills and waits for the exit.
KillsAndWaits(c) ==
  /\ call[c].pc = "waiting"
  /\ ~scripts[call[c].script].told
  /\ scripts' = Told(scripts, call[c].script)
  /\ UNCHANGED <<row, dir, reserved, discovered, call>>

\* The ceiling of runToCompletion: the process is told to stop and nobody
\* waits for its end any longer.
Timeout(c) ==
  /\ call[c].pc = "waiting"
  /\ Proceed(c, Told(scripts, call[c].script), discovered, reserved)

\* The output names a port.
Sniffs(i) ==
  /\ scripts[i].sniffing
  /\ scripts' = [scripts EXCEPT ![i].sniffing = FALSE]
  /\ discovered' = discovered \cup {i}
  /\ UNCHANGED <<row, dir, reserved, call>>

\* stop, from the footer.
Stop(w, ph) ==
  LET i == LiveSession(scripts, w, ph) IN
  /\ i # None
  /\ scripts' = Told(scripts, i)
  /\ discovered' = discovered \ {i}
  /\ UNCHANGED <<row, dir, reserved, call>>

\* The directory of a checkout is removed by hand.
Vanishes(w) ==
  /\ w \in Fragile
  /\ w \in dir
  /\ dir' = dir \ {w}
  /\ UNCHANGED <<row, reserved, scripts, discovered, call>>

\* The daemon stops or dies and comes back: the terminals close, the sessions
\* left open are ended, the rows and the reservations are what was written.
Restart ==
  /\ scripts' = [i \in DOMAIN scripts |-> Ended(scripts[i])]
  /\ discovered' = {}
  /\ call' = [c \in Callers |-> NoCall]
  /\ UNCHANGED <<row, dir, reserved>>

-----------------------------------------------------------------------------
Answered(c) ==
  \/ \E ok \in BOOLEAN : Checked(c, ok)
  \/ ReadDone(c)
  \/ \E free \in BOOLEAN : Probed(c, free)
  \/ \E ok \in BOOLEAN : Unlinked(c, ok)

Next ==
  \/ \E c \in Callers : \/ \E op \in Ops, w \in Checkouts, ph \in Phases : Ask(c, op, w, ph)
                        \/ Answered(c)
                        \/ Timeout(c)
  \/ \E i \in DOMAIN scripts : Exit(i) \/ Sniffs(i)
  \/ \E w \in Checkouts : Vanishes(w) \/ \E ph \in Phases : Stop(w, ph)
  \/ Restart

\* A file is read, a probe answers, git ends and the ceiling of a wait fires:
\* of the processes nothing is assumed.
Fairness == \A c \in Callers : WF_vars(Answered(c) \/ Timeout(c))

Spec == Init /\ [][Next]_vars /\ Fairness

-----------------------------------------------------------------------------
(* Properties. *)

TypeOK ==
  /\ row \subseteq Checkouts /\ dir \subseteq Checkouts
  /\ reserved \in [Checkouts -> Ports \cup {None}]
  /\ scripts \in Seq(Script) /\ Len(scripts) <= MaxScripts
  /\ discovered \subseteq DOMAIN scripts
  /\ call \in [Callers -> Calls]
  /\ \A c \in Callers :
       /\ call[c].pc = "probing" => call[c].base # None
       /\ call[c].pc = "waiting" => call[c].script \in DOMAIN scripts

\* No two checkouts hold the same block, and a live script of a checkout that
\* still exists was given the block its checkout holds now: two starts that
\* probe at once, a removal that fails and a restart included (ports.ts:94,
\* worktree.ts:878).
LiveScriptsHoldTheirBlock ==
  /\ \A v, w \in Checkouts : reserved[v] # None /\ reserved[v] = reserved[w] => v = w
  /\ \A i \in DOMAIN scripts :
       scripts[i].alive /\ scripts[i].checkout \in row
         => reserved[scripts[i].checkout] = scripts[i].port

\* The block of a checkout is chosen once: it may only be given back, and only
\* with the checkout (ports.ts:84, worktree.ts:875-878).
BlocksAreForGood ==
  [][\A w \in Checkouts : reserved[w] # None /\ reserved'[w] # reserved[w]
       => reserved'[w] = None /\ w \in row /\ w \notin row']_vars

\* The map of ports keeps no port of a script that was read for it and has
\* ended, whatever came first, the stop, the exit or the output
\* (ScriptRunner.ts:275, 325, 390, 399).
NoPortOfTheDead ==
  \A i \in discovered : scripts[i].watched => scripts[i].alive

\* Every call ends, even with a script that ignores its signal: a removal that
\* waits for the teardown does not hang on it (ScriptRunner.ts:334-339).
EveryCallEnds == \A c \in Callers : call[c].pc # "idle" ~> call[c].pc = "idle"
=============================================================================
