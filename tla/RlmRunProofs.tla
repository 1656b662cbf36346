---------------------------- MODULE RlmRunProofs ----------------------------
(***************************************************************************)
(* Proofs about RlmRun for every set of runs and every bound: its types,   *)
(* the refinement of Permit, and what a returned ledger stands on.         *)
(*                                                                         *)
(* The invariant is a conjunction over the runs of facts about that run    *)
(* alone and whether it holds the permit. An action of run r disturbs only *)
(* r's part, and the permit moves only between r and NoRun, so the parts   *)
(* of the other runs follow from one lemma (OthersKeep).                   *)
(***************************************************************************)
EXTENDS RlmRun, FiniteSetTheorems, WellFoundedInduction, TLAPS

Replies == [ok: BOOLEAN, done: BOOLEAN, events: SUBSET Events, rows: 0 .. MaxRows,
            ran: SUBSET Nodes]

Records == [state: {"none", "starting", "running", "terminating", "exited"},
            cancelled: BOOLEAN, stopped: BOOLEAN, pending: Ops \cup {"none"},
            event: Nodes, complete: BOOLEAN, published: BOOLEAN,
            outstanding: SUBSET Events, rows: 0 .. MaxRows, ran: SUBSET Nodes]

Guests == [alive: BOOLEAN, cmd: Ops \cup {"none"}, event: Nodes, heard: BOOLEAN,
           msg: Replies, terminal: BOOLEAN, pending: SUBSET Events, calls: 0 .. MaxEvents,
           rows: 0 .. MaxRows, ran: SUBSET Nodes]

Clients == [state: {"idle", "live", "closing", "released", "quarantined"},
            owed: SUBSET Events, settled: SUBSET Events]

Places == {"new", "opening", "opened", "command", "awaiting", "reply", "codegen", "child",
           "publish", "ledger", "throw", "finish", "exiting", "joining", "clearing", "done"}

RunRows == [pc: Places, op: Ops \cup {"none"}, event: Nodes, steps: 0 .. MaxSteps,
            reply: Replies, events: SUBSET Events, queue: SUBSET Events,
            submitted: SUBSET Nodes, rows: 0 .. MaxRows, ran: SUBSET Nodes,
            complete: BOOLEAN, reason: {"none", "COMPLETE", "ERROR", "CANCELLED"},
            result: {"none", "failed", "complete"}]

NativeStates == {"settled", "pending", "unobserved"}

Typed(b, g, c, u, n) ==
  /\ b \in Records /\ g \in Guests /\ c \in Clients /\ u \in RunRows /\ n \in NativeStates
  /\ u.queue \subseteq u.events

\* The coordinator is past its admission, and not yet returned.
Admitted == {"opened", "command", "awaiting", "reply", "codegen", "child", "publish",
             "ledger", "finish", "exiting", "joining", "clearing"}

\* A run without the permit has no session, no Worker and no provider I/O.
Without(b, g, c, u, n) ==
  /\ b = NoRecord /\ g = NoGuest /\ n = "settled" /\ c.state # "live"
  /\ u.pc \notin Admitted

\* A run with the permit has a session, whose Worker lives until the exit.
With(b, g, u) ==
  /\ u.pc \notin {"new", "opening"}
  /\ b.state # "none"
  /\ g.alive <=> b.state # "exited"
  /\ ~g.heard => g.alive

\* The root's code was submitted before anything but init is asked of the guest.
Submits(u) ==
  /\ u.pc \in {"child", "publish", "ledger", "finish"} => 0 \in u.submitted
  /\ u.pc \in {"command", "awaiting", "reply"} /\ u.op # "init" => 0 \in u.submitted

\* The evidence a ledger needs is complete from the ledger's model call on.
Evident(u) ==
  (\/ u.pc \in {"ledger", "finish"}
   \/ u.pc \in {"exiting", "joining", "clearing"} /\ u.reason = "COMPLETE")
  => 0 \in u.submitted /\ Proven(u)

\* What holds of run r with values b, g, c, u, n when p is the permit.
Sound(r, p, b, g, c, u, n) ==
  /\ Typed(b, g, c, u, n)
  /\ p = r => With(b, g, u)
  /\ p # r => Without(b, g, c, u, n)
  /\ Submits(u)
  /\ Evident(u)

SoundAt(r) == Sound(r, permit, rec[r], guest[r], client[r], run[r], native[r])

RlmInv ==
  /\ permit \in Runs \cup {NoRun} /\ faults \in 0 .. MaxFaults
  /\ rec = [r \in Runs |-> rec[r]] /\ guest = [r \in Runs |-> guest[r]]
  /\ client = [r \in Runs |-> client[r]] /\ run = [r \in Runs |-> run[r]]
  /\ native = [r \in Runs |-> native[r]] /\ current \in [Runs -> BOOLEAN]
  /\ \A r \in Runs : SoundAt(r)

-----------------------------------------------------------------------------
(* Small facts. *)

LEMMA Positive ==
  /\ MaxEvents \in Nat \ {0} /\ MaxRows \in Nat \ {0} /\ MaxSteps \in Nat \ {0}
  /\ MaxFaults \in Nat /\ NoRun \notin Runs
BY RlmAssumption

\* The oldest queued call is one of the queued calls.
LEMMA OldestQueued ==
  ASSUME NEW S, S \subseteq Nat, S # {}
  PROVE  Min(S) \in S
<1> DEFINE R == {ss \in Nat \X Nat : ss[1] < ss[2]}
<1>1. IsWellFoundedOn(R, Nat)
  BY NatLessThanWellFounded DEF OpToRel
<1>2. PICK x \in S : \A y \in S : ~(<<y, x>> \in R)
  <2> HIDE DEF R
  <2> QED BY <1>1, WFMin
<1>3. \A y \in S : x =< y
  <2> SUFFICES ASSUME NEW y \in S, ~(x =< y) PROVE FALSE
    OBVIOUS
  <2>1. x \in Nat /\ y \in Nat /\ y < x
    OBVIOUS
  <2>2. <<y, x>> \in Nat \X Nat /\ <<y, x>>[1] = y /\ <<y, x>>[2] = x
    BY <2>1
  <2>3. <<y, x>> \in R
    BY <2>1, <2>2
  <2> QED BY <1>2, <2>3
<1> QED BY <1>3 DEF Min

LEMMA EmptyValues ==
  NoReply \in Replies /\ NoRecord \in Records /\ NoGuest \in Guests
BY Positive DEF NoReply, Replies, NoRecord, Records, NoGuest, Guests, Ops, Events, Nodes, NoEvent

LEMMA ReturnedRuns ==
  ASSUME NEW x \in {"none", "failed", "complete"}
  PROVE  /\ Returned(x) \in RunRows /\ NewRun \in RunRows
         /\ Returned(x).queue = {} /\ Returned(x).events = {}
         /\ Returned(x).pc = "done" /\ Returned(x).result = x
<1>1. NewRun \in RunRows
  BY Positive, EmptyValues DEF NewRun, RunRows, Places, Ops, Nodes, NoEvent
<1>2. NewRun.queue = {} /\ NewRun.events = {}
  BY DEF NewRun
<1> QED BY <1>1, <1>2 DEF Returned, RunRows, Places

\* A step gives run r new values, and moves the permit only from or to r.
StepOf(r, b, g, c, u, n) ==
  /\ rec' = [rec EXCEPT ![r] = b] /\ guest' = [guest EXCEPT ![r] = g]
  /\ client' = [client EXCEPT ![r] = c] /\ run' = [run EXCEPT ![r] = u]
  /\ native' = [native EXCEPT ![r] = n]
  /\ \/ permit' = permit
     \/ permit \in {r, NoRun} /\ permit' \in {r, NoRun}
  /\ faults' \in 0 .. MaxFaults /\ current' \in [Runs -> BOOLEAN]

\* The other runs' parts of the invariant are untouched.
LEMMA OthersKeep ==
  ASSUME RlmInv, NEW r \in Runs, NEW b, NEW g, NEW c, NEW u, NEW n,
         StepOf(r, b, g, c, u, n), Sound(r, permit', b, g, c, u, n)
  PROVE  RlmInv'
<1>1. permit' \in Runs \cup {NoRun}
  BY DEF RlmInv, StepOf
<1>2. /\ rec' = [q \in Runs |-> rec'[q]] /\ guest' = [q \in Runs |-> guest'[q]]
      /\ client' = [q \in Runs |-> client'[q]] /\ run' = [q \in Runs |-> run'[q]]
      /\ native' = [q \in Runs |-> native'[q]]
  BY DEF RlmInv, StepOf
<1>3. /\ rec'[r] = b /\ guest'[r] = g /\ client'[r] = c /\ run'[r] = u /\ native'[r] = n
  BY DEF RlmInv, StepOf
<1>4. SoundAt(r)'
  BY <1>3 DEF SoundAt
<1>5. ASSUME NEW q \in Runs, q # r PROVE SoundAt(q)'
  <2>1. /\ rec'[q] = rec[q] /\ guest'[q] = guest[q] /\ client'[q] = client[q]
        /\ run'[q] = run[q] /\ native'[q] = native[q]
    BY <1>5 DEF RlmInv, StepOf
  <2>2. permit' = q <=> permit = q
    BY <1>5, Positive DEF StepOf
  <2>3. Sound(q, permit, rec[q], guest[q], client[q], run[q], native[q])
    BY DEF RlmInv, SoundAt
  <2>4. Sound(q, permit', rec[q], guest[q], client[q], run[q], native[q])
    BY <2>2, <2>3 DEF Sound
  <2> QED BY <2>1, <2>4 DEF SoundAt
<1> QED BY <1>1, <1>2, <1>4, <1>5 DEF RlmInv, StepOf

\* What is left alone is an update with the same value.
LEMMA Untouched ==
  ASSUME RlmInv, NEW r \in Runs
  PROVE  /\ permit \in Runs \cup {NoRun} /\ faults \in 0 .. MaxFaults
         /\ current \in [Runs -> BOOLEAN]
         /\ rec = [rec EXCEPT ![r] = rec[r]] /\ guest = [guest EXCEPT ![r] = guest[r]]
         /\ client = [client EXCEPT ![r] = client[r]] /\ run = [run EXCEPT ![r] = run[r]]
         /\ native = [native EXCEPT ![r] = native[r]]
BY DEF RlmInv

LEMMA Names ==
  /\ "new" \in Places /\ "opening" \in Places /\ "opened" \in Places
  /\ "command" \in Places /\ "awaiting" \in Places /\ "reply" \in Places
  /\ "codegen" \in Places /\ "child" \in Places /\ "publish" \in Places
  /\ "ledger" \in Places /\ "throw" \in Places /\ "finish" \in Places
  /\ "exiting" \in Places /\ "joining" \in Places /\ "clearing" \in Places
  /\ "done" \in Places
  /\ "init" \in Ops /\ "evaluate" \in Ops /\ "resolve" \in Ops /\ "pump" \in Ops
BY DEF Places, Ops

LEMMA Parts ==
  ASSUME RlmInv, NEW r \in Runs
  PROVE  /\ Sound(r, permit, rec[r], guest[r], client[r], run[r], native[r])
         /\ rec[r] \in Records /\ guest[r] \in Guests /\ client[r] \in Clients
         /\ run[r] \in RunRows /\ native[r] \in NativeStates
         /\ run[r].queue \subseteq run[r].events
         /\ Submits(run[r]) /\ Evident(run[r])
BY DEF RlmInv, SoundAt, Sound, Typed

LEMMA RowsTyped ==
  ASSUME RlmInv, NEW r \in Runs
  PROVE  /\ rec[r] \in Records /\ guest[r] \in Guests /\ client[r] \in Clients
         /\ run[r] \in RunRows
BY Parts

\* Who is past admission, or has a living Worker, holds the permit.
LEMMA Holder ==
  ASSUME RlmInv, NEW r \in Runs,
         run[r].pc \in Admitted \/ guest[r].alive \/ rec[r].state # "none"
         \/ ~guest[r].heard \/ native[r] # "settled" \/ client[r].state = "live"
  PROVE  permit = r /\ With(rec[r], guest[r], run[r])
BY Parts DEF Sound, Without, NoGuest, NoRecord

LEMMA StoppedIs ==
  ASSUME NEW b \in Records, NEW reason
  PROVE  /\ Stopped(b, reason) \in Records
         /\ Stopped(b, reason).state \in {b.state, "terminating"}
         /\ Stopped(b, reason).complete = b.complete /\ Stopped(b, reason).rows = b.rows
         /\ Stopped(b, reason).outstanding = b.outstanding
BY DEF Stopped, Records

\* The answer to the pending command reaches the coordinator.
LEMMA AnsweredIs ==
  ASSUME NEW u \in RunRows, NEW m \in Replies
  PROVE  LET v == [u EXCEPT !.pc = "reply", !.reply = m] IN
         /\ v \in RunRows /\ v.queue = u.queue /\ v.events = u.events
         /\ v.op = u.op /\ v.submitted = u.submitted /\ v.pc = "reply"
         /\ v.rows = u.rows /\ v.ran = u.ran /\ v.reason = u.reason
BY Names DEF RunRows

LEMMA OneFault ==
  ASSUME RlmInv, faults < MaxFaults
  PROVE  faults + 1 \in 0 .. MaxFaults
BY Positive DEF RlmInv

-----------------------------------------------------------------------------
(* The backend and the Worker. *)

LEMMA DeadlineKeeps ==
  ASSUME RlmInv, NEW r \in Runs, DeadlineFires(r) PROVE RlmInv'
<1> DEFINE b == Stopped(rec[r], "TASK_DEADLINE")
<1>0. Sound(r, permit, rec[r], guest[r], client[r], run[r], native[r])
  BY DEF RlmInv, SoundAt
<1>1. b \in Records /\ b.state \in {rec[r].state, "terminating"}
  BY <1>0, StoppedIs DEF Sound, Typed
<1>2. rec[r].state \in {"starting", "running"}
  BY DEF DeadlineFires
<1>3. rec[r] # NoRecord
  BY <1>2 DEF NoRecord
<1>4. Sound(r, permit, b, guest[r], client[r], run[r], native[r])
  <2> HIDE DEF b
  <2> QED BY <1>0, <1>1, <1>2, <1>3 DEF Sound, Typed, With, Without
<1>5. StepOf(r, b, guest[r], client[r], run[r], native[r]) /\ permit' = permit
  BY Untouched DEF DeadlineFires, StepOf
<1> HIDE DEF b
<1> QED BY <1>4, <1>5, OthersKeep

LEMMA OpenKeeps ==
  ASSUME RlmInv, NEW r \in Runs, OpenSession(r) PROVE RlmInv'
<1> DEFINE b == [rec[r] EXCEPT !.state = "starting"]
           g == [guest[r] EXCEPT !.alive = TRUE]
           u == [run[r] EXCEPT !.pc = "opened"]
<1>0. Sound(r, permit, rec[r], guest[r], client[r], run[r], native[r])
  BY DEF RlmInv, SoundAt
<1>1. permit = NoRun /\ permit' = r /\ permit # r
  BY Positive DEF OpenSession, Admits
<1>2. StepOf(r, b, g, client[r], u, native[r])
  BY Untouched, <1>1 DEF OpenSession, StepOf
<1>3. rec[r] \in Records /\ guest[r] \in Guests /\ run[r] \in RunRows
  BY <1>0 DEF Sound, Typed
<1>4. b \in Records /\ g \in Guests /\ u \in RunRows
  BY <1>3, Names DEF Records, Guests, RunRows
<1>5. b.state = "starting" /\ g.alive = TRUE /\ u.pc = "opened" /\ u.queue = run[r].queue
      /\ u.events = run[r].events
  BY <1>3 DEF Records, Guests, RunRows
<1>6. Sound(r, r, b, g, client[r], u, native[r])
  <2> HIDE DEF b, g, u
  <2> QED BY <1>0, <1>1, <1>4, <1>5 DEF Sound, Typed, With, Submits, Evident
<1> HIDE DEF b, g, u
<1> QED BY <1>1, <1>2, <1>6, OthersKeep


\* A step of the coordinator alone: it moves, and its client and its I/O may.
LEMMA RunMoves ==
  ASSUME RlmInv, NEW r \in Runs, NEW c \in Clients, NEW u \in RunRows, NEW n \in NativeStates,
         StepOf(r, rec[r], guest[r], c, u, n), permit' = permit,
         u.queue \subseteq u.events, Submits(u), Evident(u),
         permit = r => u.pc \notin {"new", "opening"},
         permit # r => u.pc \notin Admitted /\ n = "settled" /\ c.state # "live"
  PROVE  RlmInv'
<1>1. Sound(r, permit, rec[r], guest[r], client[r], run[r], native[r])
  BY Parts
<1>2. Sound(r, permit', rec[r], guest[r], c, u, n)
  BY <1>1 DEF Sound, Typed, With, Without
<1> QED BY <1>2, OthersKeep

\* A step of the backend or the Worker: a session goes on, or exits.
LEMMA SessionMoves ==
  ASSUME RlmInv, NEW r \in Runs, NEW b \in Records, NEW g \in Guests, NEW u \in RunRows,
         StepOf(r, b, g, client[r], u, native[r]), permit' = permit, permit = r,
         With(b, g, u), u.queue \subseteq u.events, Submits(u), Evident(u)
  PROVE  RlmInv'
<1>1. Sound(r, permit, rec[r], guest[r], client[r], run[r], native[r])
  BY Parts
<1>2. Sound(r, permit', b, g, client[r], u, native[r])
  BY <1>1 DEF Sound, Typed
<1> QED BY <1>2, OthersKeep

LEMMA ReadyKeeps ==
  ASSUME RlmInv, NEW r \in Runs, WorkerReady(r) PROVE RlmInv'
<1> DEFINE b == [rec[r] EXCEPT !.state = "running"]
<1>1. permit = r /\ With(rec[r], guest[r], run[r])
  BY Holder DEF WorkerReady
<1>2. b \in Records /\ b.state = "running"
  BY Parts DEF Records
<1>3. StepOf(r, b, guest[r], client[r], run[r], native[r]) /\ permit' = permit
  BY Untouched DEF WorkerReady, StepOf
<1>4. With(b, guest[r], run[r])
  BY <1>1, <1>2 DEF With, WorkerReady
<1> HIDE DEF b
<1> QED BY <1>1, <1>2, <1>3, <1>4, Parts, SessionMoves

LEMMA PostKeeps ==
  ASSUME RlmInv, NEW r \in Runs, PostCommand(r) PROVE RlmInv'
<1>0. permit = r /\ With(rec[r], guest[r], run[r]) /\ run[r].pc = "command"
  BY Holder DEF PostCommand, Admitted
<1>1. CASE CommandRefused(r)
  <2> DEFINE u == [run[r] EXCEPT !.pc = "throw"]
  <2>1. u \in RunRows /\ u.pc = "throw" /\ u.queue = run[r].queue /\ u.events = run[r].events
    BY Parts, Names DEF RunRows
  <2>2. StepOf(r, rec[r], guest[r], client[r], u, native[r]) /\ permit' = permit
    BY <1>1, Untouched DEF PostCommand, StepOf
  <2>3. Submits(u) /\ Evident(u)
    BY <2>1 DEF Submits, Evident
  <2> HIDE DEF u
  <2> QED BY <1>0, <2>1, <2>2, <2>3, Parts, RunMoves
<1>2. CASE ~CommandRefused(r)
  <2> DEFINE u == [run[r] EXCEPT !.pc = "awaiting"]
             b == [rec[r] EXCEPT !.pending = run[r].op, !.event = run[r].event]
             g == [guest[r] EXCEPT !.cmd = run[r].op, !.event = run[r].event]
  <2>1. /\ u \in RunRows /\ u.pc = "awaiting" /\ u.queue = run[r].queue
        /\ u.events = run[r].events /\ u.op = run[r].op /\ u.submitted = run[r].submitted
    BY Parts, Names DEF RunRows
  <2>a. run[r].op \in Ops \cup {"none"} /\ run[r].event \in Nodes
    BY RowsTyped DEF RunRows
  <2>2. b \in Records /\ b.state = rec[r].state
    BY <2>a, RowsTyped DEF Records
  <2>3. g \in Guests /\ g.alive = guest[r].alive /\ g.heard = guest[r].heard
    BY <2>a, RowsTyped DEF Guests
  <2>4. StepOf(r, b, g, client[r], u, native[r]) /\ permit' = permit
    BY <1>2, Untouched DEF PostCommand, StepOf
  <2>5. Submits(u) /\ Evident(u) /\ With(b, g, u)
    <3> HIDE DEF u, b, g
    <3> QED BY <1>0, <2>1, <2>2, <2>3, Parts DEF Submits, Evident, With
  <2> HIDE DEF u, b, g
  <2> QED BY <1>0, <2>1, <2>2, <2>3, <2>4, <2>5, Parts, SessionMoves
<1> QED BY <1>1, <1>2

LEMMA HearsKeeps ==
  ASSUME RlmInv, NEW r \in Runs, BackendHears(r) PROVE RlmInv'
<1> DEFINE m == guest[r].msg
           g == [guest[r] EXCEPT !.heard = TRUE, !.msg = NoReply]
<1>0. permit = r /\ With(rec[r], guest[r], run[r]) /\ guest[r].alive
  BY Holder DEF BackendHears, With
<1>1. g \in Guests /\ g.alive = guest[r].alive /\ g.heard = TRUE /\ m \in Replies
  BY Parts, EmptyValues DEF Guests
<1>2. CASE ~Listens(r)
  <2>1. StepOf(r, rec[r], g, client[r], run[r], native[r]) /\ permit' = permit
    BY <1>2, Untouched DEF BackendHears, StepOf
  <2>2. With(rec[r], g, run[r])
    BY <1>0, <1>1 DEF With
  <2> HIDE DEF g
  <2> QED BY <1>0, <1>1, <2>1, <2>2, Parts, SessionMoves
<1>3. CASE Listens(r) /\ rec[r].pending = "none"
  <2> DEFINE b == Stopped(rec[r], "CHANNEL_ERROR")
  <2>1. StepOf(r, b, g, client[r], run[r], native[r]) /\ permit' = permit
    BY <1>3, Untouched DEF BackendHears, StepOf
  <2>2. b \in Records /\ b.state \in {rec[r].state, "terminating"}
    BY Parts, StoppedIs
  <2> HIDE DEF b
  <2>3. With(b, g, run[r])
    BY <1>0, <1>1, <2>2 DEF With
  <2> HIDE DEF g
  <2> QED BY <1>0, <1>1, <2>1, <2>2, <2>3, Parts, SessionMoves
<1>4. CASE Listens(r) /\ rec[r].pending # "none"
  <2> DEFINE O == IF m.ok /\ m.done THEN {}
                  ELSE (IF m.ok /\ rec[r].pending = "resolve" THEN rec[r].outstanding \ {rec[r].event}
                        ELSE rec[r].outstanding) \cup m.events
             b == [rec[r] EXCEPT !.pending = "none", !.rows = m.rows, !.ran = m.ran,
                       !.complete = m.ok /\ m.done, !.outstanding = O]
             u == IF run[r].pc = "awaiting" THEN [run[r] EXCEPT !.pc = "reply", !.reply = m]
                  ELSE run[r]
  <2>a. rec' = [rec EXCEPT ![r] = b] /\ guest' = [guest EXCEPT ![r] = g]
    BY <1>4 DEF BackendHears
  <2>b. run' = [run EXCEPT ![r] = u]
    <3>1. CASE run[r].pc = "awaiting"
      BY <1>4, <3>1 DEF BackendHears
    <3>2. CASE run[r].pc # "awaiting"
      BY <1>4, <3>2, Untouched DEF BackendHears
    <3> QED BY <3>1, <3>2
  <2>1. StepOf(r, b, g, client[r], u, native[r]) /\ permit' = permit
    <3> HIDE DEF b, g, u
    <3> QED BY <2>a, <2>b, Untouched DEF BackendHears, StepOf
  <2>2. /\ m.ok \in BOOLEAN /\ m.done \in BOOLEAN /\ m.rows \in 0 .. MaxRows
        /\ m.ran \in SUBSET Nodes /\ m.events \in SUBSET Events
    BY <1>1 DEF Replies
  <2>3. O \in SUBSET Events
    BY <2>2, Parts DEF Records
  <2>4. b \in Records /\ b.state = rec[r].state
    <3> HIDE DEF O, m
    <3> QED BY <2>2, <2>3, Parts DEF Records
  <2>5. /\ u \in RunRows /\ u.queue = run[r].queue /\ u.events = run[r].events
        /\ u.op = run[r].op /\ u.submitted = run[r].submitted
        /\ u.pc = run[r].pc \/ (run[r].pc = "awaiting" /\ u.pc = "reply")
        /\ u.rows = run[r].rows /\ u.ran = run[r].ran /\ u.reason = run[r].reason
    <3> HIDE DEF m
    <3> QED BY <1>1, RowsTyped, AnsweredIs
  <2> HIDE DEF O, b, u, g, m
  <2>6. Submits(u) /\ Evident(u)
    BY <2>5, Parts DEF Submits, Evident, Proven
  <2>7. With(b, g, u)
    BY <1>0, <1>1, <2>4, <2>5 DEF With
  <2> QED BY <1>0, <1>1, <2>1, <2>4, <2>5, <2>6, <2>7, Parts, SessionMoves
<1> QED BY <1>2, <1>3, <1>4

LEMMA GarbledKeeps ==
  ASSUME RlmInv, NEW r \in Runs, GarbledReply(r) PROVE RlmInv'
<1> DEFINE g == [guest[r] EXCEPT !.heard = TRUE, !.msg = NoReply, !.terminal = TRUE]
           b == Stopped(rec[r], "CHANNEL_ERROR")
<1>0. permit = r /\ With(rec[r], guest[r], run[r]) /\ guest[r].alive
  BY Holder DEF GarbledReply, With
<1>1. g \in Guests /\ g.alive = guest[r].alive /\ g.heard = TRUE
  BY Parts, EmptyValues DEF Guests
<1>2. StepOf(r, b, g, client[r], run[r], native[r]) /\ permit' = permit
  <2>1. rec' = [rec EXCEPT ![r] = b] /\ guest' = [guest EXCEPT ![r] = g]
    BY DEF GarbledReply
  <2>2. faults' \in 0 .. MaxFaults
    BY OneFault DEF GarbledReply
  <2> HIDE DEF b, g
  <2> QED BY <2>1, <2>2, Untouched DEF GarbledReply, StepOf
<1>3. b \in Records /\ b.state \in {rec[r].state, "terminating"}
  BY Parts, StoppedIs
<1> HIDE DEF b, g
<1>4. With(b, g, run[r])
  BY <1>0, <1>1, <1>3 DEF With
<1> QED BY <1>0, <1>1, <1>2, <1>3, <1>4, Parts, SessionMoves

LEMMA ExitsKeeps ==
  ASSUME RlmInv, NEW r \in Runs, WorkerExits(r) PROVE RlmInv'
<1> DEFINE g == [guest[r] EXCEPT !.alive = FALSE, !.cmd = "none", !.heard = TRUE,
                                 !.msg = NoReply, !.pending = {}]
           b == [rec[r] EXCEPT !.state = "exited", !.pending = "none"]
           m == [NoReply EXCEPT !.rows = rec[r].rows, !.ran = rec[r].ran]
           u == IF AnswersPending(r) THEN [run[r] EXCEPT !.pc = "reply", !.reply = m] ELSE run[r]
<1>0. permit = r /\ With(rec[r], guest[r], run[r])
  BY Holder DEF WorkerExits
<1>1. g \in Guests /\ g.alive = FALSE /\ g.heard = TRUE
  BY Parts, EmptyValues DEF Guests
<1>2. StepOf(r, b, g, client[r], u, native[r]) /\ permit' = permit
  <2>1. rec' = [rec EXCEPT ![r] = b] /\ guest' = [guest EXCEPT ![r] = g]
    BY DEF WorkerExits
  <2>2. faults' \in 0 .. MaxFaults
    BY OneFault, Untouched DEF WorkerExits
  <2>3. run' = [run EXCEPT ![r] = u]
    <3>1. CASE AnswersPending(r)
      BY <3>1 DEF WorkerExits
    <3>2. CASE ~AnswersPending(r)
      BY <3>2, Untouched DEF WorkerExits
    <3> QED BY <3>1, <3>2
  <2> HIDE DEF b, g, u
  <2> QED BY <2>1, <2>2, <2>3, Untouched DEF WorkerExits, StepOf
<1>3. b \in Records /\ b.state = "exited"
  BY Parts DEF Records
<1>4. m \in Replies
  BY Parts, EmptyValues DEF Records, Replies
<1>5. /\ u \in RunRows /\ u.queue = run[r].queue /\ u.events = run[r].events
      /\ u.op = run[r].op /\ u.submitted = run[r].submitted
      /\ u.pc = run[r].pc \/ (run[r].pc = "awaiting" /\ u.pc = "reply")
      /\ u.rows = run[r].rows /\ u.ran = run[r].ran /\ u.reason = run[r].reason
  <2> HIDE DEF m
  <2> QED BY <1>4, RowsTyped, AnsweredIs DEF AnswersPending
<1> HIDE DEF b, u, g, m
<1>6. Submits(u) /\ Evident(u)
  BY <1>5, Parts DEF Submits, Evident, Proven
<1>7. With(b, g, u)
  BY <1>0, <1>1, <1>3, <1>5 DEF With
<1> QED BY <1>0, <1>1, <1>2, <1>3, <1>5, <1>6, <1>7, Parts, SessionMoves

\* New calls are numbered on from the last one, so they stay within the budget.
LEMMA CallsBounded ==
  ASSUME NEW k \in 0 .. MaxEvents, NEW new \in {{}, {k + 1}, {k + 1, k + 2}}, new \subseteq Events
  PROVE  k + Cardinality(new) \in 0 .. MaxEvents
<1> USE Positive DEF Events
<1>1. CASE new = {}
  BY <1>1, FS_EmptySet
<1>2. CASE new = {k + 1}
  BY <1>2, FS_Singleton
<1>3. CASE new = {k + 1, k + 2}
  <2>1. IsFiniteSet({k + 1}) /\ Cardinality({k + 1}) = 1
    BY FS_Singleton
  <2>2. k + 2 \notin {k + 1} /\ new = {k + 1} \cup {k + 2}
    BY <1>3
  <2>3. Cardinality({k + 1} \cup {k + 2}) = 2
    BY <2>1, <2>2, FS_AddElement
  <2> QED BY <2>2, <2>3
<1> QED BY <1>1, <1>2, <1>3

LEMMA GuestRunsKeeps ==
  ASSUME RlmInv, NEW r \in Runs, NEW new, NEW rows, GuestRuns(r, new, rows) PROVE RlmInv'
<1> DEFINE ran == CASE guest[r].cmd = "evaluate" -> {0}
                    [] guest[r].cmd = "resolve" -> {guest[r].event}
                    [] OTHER -> {}
           left == (IF guest[r].cmd = "resolve" THEN guest[r].pending \ {guest[r].event}
                    ELSE guest[r].pending) \cup new
           k == guest[r].calls + Cardinality(new)
           m(done) == [ok |-> TRUE, done |-> done, events |-> new, rows |-> rows,
                       ran |-> guest[r].ran \cup ran]
           g(done) == [guest[r] EXCEPT !.cmd = "none", !.heard = FALSE, !.pending = left,
                         !.calls = k, !.rows = rows, !.ran = @ \cup ran, !.terminal = done,
                         !.msg = m(done)]
<1>0. permit = r /\ With(rec[r], guest[r], run[r]) /\ guest[r].alive
  BY Holder DEF GuestRuns
<1>a. PICK done \in BOOLEAN :
        guest' = [guest EXCEPT ![r].cmd = "none", ![r].heard = FALSE, ![r].pending = left,
                    ![r].calls = k, ![r].rows = rows, ![r].ran = @ \cup ran,
                    ![r].terminal = done, ![r].msg = m(done)]
  BY DEF GuestRuns
<1>1. guest' = [guest EXCEPT ![r] = g(done)]
  <2> HIDE DEF left, k, ran, m
  <2> QED BY <1>a, Zenon
<1>2. StepOf(r, rec[r], g(done), client[r], run[r], native[r]) /\ permit' = permit
  <2> HIDE DEF g
  <2> QED BY <1>1, Untouched DEF GuestRuns, StepOf
<1>3. /\ guest[r].event \in Nodes /\ guest[r].pending \subseteq Events
      /\ guest[r].calls \in 0 .. MaxEvents /\ guest[r].rows \in 0 .. MaxRows
      /\ guest[r].ran \subseteq Nodes
  BY Parts DEF Guests
<1>4. new \subseteq Events /\ rows \in 0 .. MaxRows
  <2>1. /\ new \subseteq Events
        /\ rows \in guest[r].rows .. (IF guest[r].cmd = "init" THEN guest[r].rows ELSE MaxRows)
    BY Zenon DEF GuestRuns
  <2> QED BY <1>3, <2>1, Positive
<1>5. ran \subseteq Nodes
  BY <1>3, Positive DEF Nodes
<1>6. left \subseteq Events
  BY <1>3, <1>4
<1>7. k \in 0 .. MaxEvents
  BY <1>3, <1>4, CallsBounded DEF GuestRuns
<1> HIDE DEF ran, left, k
<1>8. m(done) \in Replies
  BY <1>3, <1>4, <1>5 DEF Replies
<1> HIDE DEF m
<1>9. g(done) \in Guests /\ g(done).alive = guest[r].alive
  BY <1>3, <1>4, <1>5, <1>6, <1>7, <1>8, Parts DEF Guests
<1> HIDE DEF g
<1>10. With(rec[r], g(done), run[r])
  BY <1>0, <1>9 DEF With
<1> QED BY <1>0, <1>2, <1>9, <1>10, Parts, SessionMoves

LEMMA GuestFailsKeeps ==
  ASSUME RlmInv, NEW r \in Runs, GuestFails(r) PROVE RlmInv'
<1> DEFINE m == [NoReply EXCEPT !.rows = guest[r].rows, !.ran = guest[r].ran]
           g == [guest[r] EXCEPT !.cmd = "none", !.heard = FALSE, !.pending = {},
                   !.terminal = TRUE, !.msg = m]
<1>0. permit = r /\ With(rec[r], guest[r], run[r]) /\ guest[r].alive
  BY Holder DEF GuestFails
<1>1. guest' = [guest EXCEPT ![r] = g]
  BY DEF GuestFails
<1>2. StepOf(r, rec[r], g, client[r], run[r], native[r]) /\ permit' = permit
  <2> HIDE DEF g
  <2> QED BY <1>1, Untouched DEF GuestFails, StepOf
<1>3. m \in Replies
  BY Parts, EmptyValues DEF Guests, Replies
<1> HIDE DEF m
<1>4. g \in Guests /\ g.alive = guest[r].alive
  BY <1>3, Parts DEF Guests
<1> HIDE DEF g
<1>5. With(rec[r], g, run[r])
  BY <1>0, <1>4 DEF With
<1> QED BY <1>0, <1>2, <1>4, <1>5, Parts, SessionMoves

-----------------------------------------------------------------------------
(* The coordinator. *)

\* A run that returns leaves nothing of its locals behind.
LEMMA ReturnKeeps ==
  ASSUME RlmInv, NEW r \in Runs, NEW x \in {"none", "failed", "complete"}, NEW c \in Clients,
         StepOf(r, rec[r], guest[r], c, Returned(x), native[r]), permit' = permit,
         permit # r => c.state # "live"
  PROVE  RlmInv'
<1>1. Submits(Returned(x)) /\ Evident(Returned(x)) /\ Returned(x).pc \notin Admitted
  BY ReturnedRuns DEF Submits, Evident, Admitted
<1>2. permit # r => native[r] = "settled"
  BY Holder
<1> QED BY <1>1, <1>2, ReturnedRuns, Parts, RunMoves

LEMMA ThrowKeeps ==
  ASSUME RlmInv, NEW r \in Runs, NEW c \in Clients, NEW n \in NativeStates,
         StepOf(r, rec[r], guest[r], c, [run[r] EXCEPT !.pc = "throw"], n), permit' = permit,
         permit # r => n = "settled" /\ c.state # "live"
  PROVE  RlmInv'
<1> DEFINE u == [run[r] EXCEPT !.pc = "throw"]
<1>1. /\ u \in RunRows /\ u.pc = "throw" /\ u.queue = run[r].queue /\ u.events = run[r].events
  BY Parts, Names DEF RunRows
<1> HIDE DEF u
<1>2. Submits(u) /\ Evident(u) /\ u.pc \notin Admitted
  BY <1>1 DEF Submits, Evident, Admitted
<1>3. StepOf(r, rec[r], guest[r], c, u, n)
  BY DEF u
<1> QED BY <1>1, <1>2, <1>3, Parts, RunMoves

LEMMA BeginsKeeps ==
  ASSUME RlmInv, NEW r \in Runs, RunBegins(r) PROVE RlmInv'
<1> DEFINE u == [run[r] EXCEPT !.pc = "opening"]
<1>1. StepOf(r, rec[r], guest[r], client[r], u, native[r]) /\ permit' = permit
  BY Untouched DEF RunBegins, StepOf
<1>2. u \in RunRows /\ u.pc = "opening" /\ u.queue = run[r].queue /\ u.events = run[r].events
  BY Parts, Names DEF RunRows
<1>3. permit # r
  BY Parts DEF Sound, With, RunBegins
<1>4. native[r] = "settled" /\ client[r].state # "live"
  BY <1>3, Holder
<1> HIDE DEF u
<1>5. Submits(u) /\ Evident(u) /\ u.pc \notin Admitted
  BY <1>2 DEF Submits, Evident, Admitted
<1> QED BY <1>1, <1>2, <1>3, <1>4, <1>5, Parts, RunMoves

LEMMA RefusedKeeps ==
  ASSUME RlmInv, NEW r \in Runs, RunRefused(r) \/ NothingToClose(r) \/ ReleaseDeclined(r)
  PROVE  RlmInv'
<1>1. StepOf(r, rec[r], guest[r], client[r], Returned("failed"), native[r]) /\ permit' = permit
  BY Untouched DEF RunRefused, NothingToClose, ReleaseDeclined, StepOf
<1>2. permit # r => client[r].state # "live"
  BY Holder
<1> QED BY <1>1, <1>2, Parts, ReturnKeeps

LEMMA OpenRefusedKeeps ==
  ASSUME RlmInv, NEW r \in Runs, OpenRefused(r) PROVE RlmInv'
<1>1. /\ StepOf(r, rec[r], guest[r], client[r], [run[r] EXCEPT !.pc = "throw"], native[r])
      /\ permit' = permit
  BY Untouched DEF OpenRefused, StepOf
<1>2. permit # r => native[r] = "settled" /\ client[r].state # "live"
  BY Holder
<1> QED BY <1>1, <1>2, Parts, ThrowKeeps

LEMMA OpenedKeeps ==
  ASSUME RlmInv, NEW r \in Runs, Opened(r) PROVE RlmInv'
<1> DEFINE c == [client[r] EXCEPT !.state = "live"]
           u == [run[r] EXCEPT !.pc = "command", !.op = "init"]
<1>0. permit = r
  BY Holder DEF Opened, Admitted
<1>1. StepOf(r, rec[r], guest[r], c, u, native[r]) /\ permit' = permit
  BY Untouched DEF Opened, StepOf
<1>2. c \in Clients
  BY Parts DEF Clients
<1>3. /\ u \in RunRows /\ u.pc = "command" /\ u.op = "init" /\ u.queue = run[r].queue
      /\ u.events = run[r].events
  BY RowsTyped, Names DEF RunRows
<1> HIDE DEF u, c
<1>4. Submits(u) /\ Evident(u)
  BY <1>3 DEF Submits, Evident
<1> QED BY <1>0, <1>1, <1>2, <1>3, <1>4, Parts, RunMoves

LEMMA AcceptedIs ==
  ASSUME NEW c \in Clients, NEW op, NEW e \in Nodes, NEW m \in Replies
  PROVE  Accepted(c, op, e, m) \in Clients
<1> DEFINE owed == c.owed \cup m.events
           paid == CASE m.ok /\ m.done -> owed [] m.ok /\ op = "resolve" -> {e} [] OTHER -> {}
<1>1. owed \subseteq Events
  BY DEF Clients, Replies
<1>2. (owed \ paid) \subseteq Events /\ (c.settled \cup (paid \cap owed)) \subseteq Events
  BY <1>1 DEF Clients
<1> HIDE DEF owed, paid
<1>3. [c EXCEPT !.owed = owed \ paid, !.settled = @ \cup (paid \cap owed)] \in Clients
  BY <1>2 DEF Clients
<1> QED BY <1>3 DEF Accepted, owed, paid

\* Where the coordinator goes after a usable reply that it took.
LEMMA AfterReplyIs ==
  ASSUME NEW u \in RunRows, u.queue \subseteq u.events, 0 \in u.submitted
  PROVE  LET v == AfterReply(u) IN
         /\ v \in RunRows /\ v.queue \subseteq v.events /\ 0 \in v.submitted
         /\ v.pc \in {"throw", "publish", "child", "command"}
<1>0. u.steps \in 0 .. MaxSteps /\ MaxSteps \in Nat /\ u.reply \in Replies
  BY Positive DEF RunRows
<1>1. CASE u.reply.done /\ u.queue # {}
  <2>1. AfterReply(u) = [u EXCEPT !.pc = "throw"]
    BY <1>1 DEF AfterReply
  <2> QED BY <2>1, Names DEF RunRows
<1>2. CASE u.reply.done /\ u.queue = {}
  <2>1. AfterReply(u) = [u EXCEPT !.pc = "publish", !.complete = TRUE]
    BY <1>2 DEF AfterReply
  <2> QED BY <2>1, Names DEF RunRows
<1>3. CASE ~u.reply.done /\ ~StepsLeft(u)
  <2>1. AfterReply(u) = [u EXCEPT !.pc = "publish"]
    BY <1>3 DEF AfterReply
  <2> QED BY <2>1, Names DEF RunRows
<1>4. CASE ~u.reply.done /\ StepsLeft(u) /\ u.queue # {}
  <2> DEFINE e == Min(u.queue)
  <2>1. AfterReply(u) = [u EXCEPT !.pc = "child", !.steps = @ + 1, !.event = e, !.queue = @ \ {e}]
    BY <1>4 DEF AfterReply
  <2>2. u.queue \subseteq Nat /\ u.queue \subseteq Events /\ Events \subseteq Nodes
    BY Positive DEF RunRows, Events, Nodes
  <2>3. e \in Nodes
    BY <1>4, <2>2, OldestQueued
  <2>4. u.steps + 1 \in 0 .. MaxSteps
    BY <1>0, <1>4 DEF StepsLeft
  <2> HIDE DEF e
  <2>5. u.queue \ {e} \in SUBSET Events /\ u.queue \ {e} \subseteq u.events
    BY <2>2
  <2>6. AfterReply(u) \in RunRows
    BY <2>1, <2>3, <2>4, <2>5, Names DEF RunRows
  <2>7. /\ AfterReply(u).queue = u.queue \ {e} /\ AfterReply(u).events = u.events
        /\ AfterReply(u).submitted = u.submitted /\ AfterReply(u).pc = "child"
    BY <2>1 DEF RunRows
  <2> QED BY <2>5, <2>6, <2>7
<1>5. CASE ~u.reply.done /\ StepsLeft(u) /\ u.queue = {}
  <2>1. AfterReply(u) = [u EXCEPT !.pc = "command", !.op = "pump", !.event = NoEvent, !.steps = @ + 1]
    BY <1>5 DEF AfterReply
  <2>2. u.steps + 1 \in 0 .. MaxSteps /\ NoEvent \in Nodes /\ "pump" \in Ops
    BY <1>0, <1>5, Positive DEF StepsLeft, NoEvent, Nodes, Ops
  <2> DEFINE k == u.steps + 1
  <2>3. AfterReply(u) = [u EXCEPT !.pc = "command", !.op = "pump", !.event = NoEvent, !.steps = k]
    BY <2>1
  <2> HIDE DEF k
  <2>4. k \in 0 .. MaxSteps
    BY <2>2 DEF k
  <2>5. AfterReply(u) \in RunRows
    BY <2>2, <2>3, <2>4, Names DEF RunRows
  <2>6. /\ AfterReply(u).queue = u.queue /\ AfterReply(u).events = u.events
        /\ AfterReply(u).submitted = u.submitted /\ AfterReply(u).pc = "command"
    BY <2>3 DEF RunRows
  <2> QED BY <2>5, <2>6
<1> QED BY <1>1, <1>2, <1>3, <1>4, <1>5

LEMMA ReplyKeeps ==
  ASSUME RlmInv, NEW r \in Runs, ReplyArrives(r) PROVE RlmInv'
<1> DEFINE m == run[r].reply
           seen == [run[r] EXCEPT !.rows = m.rows, !.ran = m.ran]
           took == [seen EXCEPT !.events = @ \cup m.events, !.queue = @ \cup m.events]
           c == Accepted(client[r], run[r].op, run[r].event, m)
           u == CASE run[r].op = "init" -> [seen EXCEPT !.pc = IF m.ok THEN "codegen" ELSE "throw"]
                  [] run[r].op # "init" /\ ~current[r] -> [seen EXCEPT !.pc = "throw"]
                  [] run[r].op # "init" /\ current[r] /\ ~m.ok ->
                       [seen EXCEPT !.pc = IF Proven(seen) THEN "publish" ELSE "throw"]
                  [] OTHER -> AfterReply(took)
<1>0. permit = r /\ run[r].pc = "reply"
  BY Holder DEF ReplyArrives, Admitted
<1>1. m \in Replies /\ run[r].event \in Nodes
  BY Parts DEF RunRows
<1>2. c \in Clients
  BY <1>1, Parts, AcceptedIs
<1>3. StepOf(r, rec[r], guest[r], c, u, native[r]) /\ permit' = permit
  <2>1. client' = [client EXCEPT ![r] = c] /\ run' = [run EXCEPT ![r] = u]
    BY DEF ReplyArrives
  <2> HIDE DEF c, u
  <2> QED BY <2>1, Untouched DEF ReplyArrives, StepOf
<1>4. /\ m.rows \in 0 .. MaxRows /\ m.ran \in SUBSET Nodes /\ m.events \in SUBSET Events
  BY <1>1 DEF Replies
<1> HIDE DEF m
<1>5. /\ seen \in RunRows /\ seen.queue = run[r].queue /\ seen.events = run[r].events
      /\ seen.op = run[r].op /\ seen.submitted = run[r].submitted
  BY <1>4, Parts DEF RunRows
<1> HIDE DEF seen
<1>6. /\ took \in RunRows /\ took.queue \subseteq took.events /\ took.submitted = run[r].submitted
  BY <1>4, <1>5, Parts DEF RunRows
<1> HIDE DEF took
<1>7. run[r].op # "init" => 0 \in run[r].submitted
  BY <1>0, Parts DEF Submits
<1>8. /\ u \in RunRows /\ u.queue \subseteq u.events
      /\ u.pc \in {"codegen", "throw"}
         \/ (u.pc \in {"throw", "publish", "child", "command"} /\ 0 \in u.submitted)
  <2> DEFINE v(p) == [seen EXCEPT !.pc = p]
  <2>1. \A p \in {"codegen", "throw", "publish"} :
           /\ v(p) \in RunRows /\ v(p).queue \subseteq v(p).events /\ v(p).pc = p
           /\ v(p).submitted = run[r].submitted
    BY <1>5, Parts, Names DEF RunRows
  <2>2. CASE run[r].op = "init"
    <3>1. u = v("codegen") \/ u = v("throw")
      BY <2>2
    <3> HIDE DEF u, v
    <3> QED BY <2>1, <3>1
  <2>3. CASE run[r].op # "init" /\ ~current[r]
    <3>1. u = v("throw")
      BY <2>3
    <3> HIDE DEF u, v
    <3> QED BY <2>1, <3>1
  <2>4. CASE run[r].op # "init" /\ current[r] /\ ~m.ok
    <3>1. u = v("publish") \/ u = v("throw")
      BY <2>4
    <3> HIDE DEF u, v
    <3> QED BY <1>7, <2>1, <2>4, <3>1
  <2>5. CASE run[r].op # "init" /\ current[r] /\ m.ok
    <3>1. u = AfterReply(took)
      BY <2>5
    <3> HIDE DEF u
    <3> QED BY <1>6, <1>7, <2>5, <3>1, AfterReplyIs
  <2> QED BY <2>2, <2>3, <2>4, <2>5
<1> HIDE DEF u, c
<1>9. Submits(u) /\ Evident(u) /\ u.pc \notin {"new", "opening"}
  BY <1>8 DEF Submits, Evident
<1> QED BY <1>0, <1>2, <1>3, <1>8, <1>9, Parts, RunMoves

LEMMA ModelAnswersKeeps ==
  ASSUME RlmInv, NEW r \in Runs, ModelAnswers(r) PROVE RlmInv'
<1> DEFINE u == CASE run[r].pc = "codegen" ->
                       [run[r] EXCEPT !.pc = "command", !.op = "evaluate", !.submitted = {0}]
                  [] run[r].pc = "child" ->
                       [run[r] EXCEPT !.pc = "command", !.op = "resolve",
                                      !.submitted = @ \cup {run[r].event}]
                  [] OTHER -> [run[r] EXCEPT !.pc = "finish"]
<1>0. permit = r /\ run[r].pc \in {"codegen", "child", "ledger"}
  BY Holder DEF ModelAnswers, ModelPhases, Admitted
<1>1. StepOf(r, rec[r], guest[r], client[r], u, native[r]) /\ permit' = permit
  <2>1. run' = [run EXCEPT ![r] = u]
    BY DEF ModelAnswers
  <2> HIDE DEF u
  <2> QED BY <2>1, Untouched DEF ModelAnswers, StepOf
<1>2. u \in RunRows /\ u.queue \subseteq u.events /\ Submits(u) /\ Evident(u)
      /\ u.pc \notin {"new", "opening"}
  <2>1. CASE run[r].pc = "codegen"
    <3>1. u = [run[r] EXCEPT !.pc = "command", !.op = "evaluate", !.submitted = {0}]
      BY <2>1
    <3> HIDE DEF u
    <3>a. {0} \in SUBSET Nodes /\ "evaluate" \in Ops
      BY Positive DEF Nodes, Ops
    <3>2. /\ u \in RunRows /\ u.queue = run[r].queue /\ u.events = run[r].events
          /\ u.pc = "command" /\ u.submitted = {0}
      <4>1. run[r] \in RunRows
        BY Parts
      <4> QED BY <3>1, <3>a, <4>1, Names DEF RunRows
    <3> QED BY <3>2, Parts DEF Submits, Evident
  <2>2. CASE run[r].pc = "child"
    <3>1. u = [run[r] EXCEPT !.pc = "command", !.op = "resolve", !.submitted = @ \cup {run[r].event}]
      BY <2>2
    <3> HIDE DEF u
    <3>a. run[r].submitted \cup {run[r].event} \in SUBSET Nodes /\ "resolve" \in Ops
      BY Parts DEF RunRows, Ops
    <3>2. /\ u \in RunRows /\ u.queue = run[r].queue /\ u.events = run[r].events
          /\ u.pc = "command" /\ u.submitted = run[r].submitted \cup {run[r].event}
      <4>1. run[r] \in RunRows
        BY Parts
      <4> QED BY <3>1, <3>a, <4>1, Names DEF RunRows
    <3> QED BY <2>2, <3>2, Parts DEF Submits, Evident
  <2>3. CASE run[r].pc = "ledger"
    <3>1. u = [run[r] EXCEPT !.pc = "finish"]
      BY <2>3
    <3> HIDE DEF u
    <3>2. /\ u \in RunRows /\ u.queue = run[r].queue /\ u.events = run[r].events
          /\ u.pc = "finish" /\ u.submitted = run[r].submitted
          /\ u.rows = run[r].rows /\ u.ran = run[r].ran
      BY <3>1, Parts, Names DEF RunRows
    <3> QED BY <2>3, <3>2, Parts DEF Submits, Evident, Proven
  <2> HIDE DEF u
  <2> QED BY <1>0, <2>1, <2>2, <2>3
<1> HIDE DEF u
<1> QED BY <1>0, <1>1, <1>2, Parts, RunMoves

LEMMA SubtaskKeeps ==
  ASSUME RlmInv, NEW r \in Runs, SubtaskAnswers(r) PROVE RlmInv'
<1> DEFINE u == [run[r] EXCEPT !.pc = "command", !.op = "resolve"]
<1>0. permit = r /\ run[r].pc = "child"
  BY Holder DEF SubtaskAnswers, Admitted
<1>1. StepOf(r, rec[r], guest[r], client[r], u, native[r]) /\ permit' = permit
  BY Untouched DEF SubtaskAnswers, StepOf
<1>2. /\ u \in RunRows /\ u.queue = run[r].queue /\ u.events = run[r].events
      /\ u.pc = "command" /\ u.submitted = run[r].submitted
  BY RowsTyped, Names DEF RunRows
<1> HIDE DEF u
<1>3. Submits(u) /\ Evident(u)
  BY <1>0, <1>2, Parts DEF Submits, Evident
<1> QED BY <1>0, <1>1, <1>2, <1>3, Parts, RunMoves

LEMMA ModelThrowsKeeps ==
  ASSUME RlmInv, NEW r \in Runs, ModelThrows(r) PROVE RlmInv'
<1>0. permit = r
  BY Holder DEF ModelThrows, ModelPhases, Admitted
<1>1. PICK n \in NativeStates : native' = [native EXCEPT ![r] = n]
  BY DEF ModelThrows, NativeStates
<1>2. /\ StepOf(r, rec[r], guest[r], client[r], [run[r] EXCEPT !.pc = "throw"], n)
      /\ permit' = permit
  BY <1>1, Untouched DEF ModelThrows, StepOf
<1> QED BY <1>0, <1>2, Parts, ThrowKeeps

LEMMA SettlesKeeps ==
  ASSUME RlmInv, NEW r \in Runs, NativeSettles(r) PROVE RlmInv'
<1>0. permit = r /\ With(rec[r], guest[r], run[r])
  BY Holder DEF NativeSettles
<1>1. StepOf(r, rec[r], guest[r], client[r], run[r], "settled") /\ permit' = permit
  BY Untouched DEF NativeSettles, StepOf
<1> QED BY <1>0, <1>1, Parts, RunMoves DEF NativeStates, With

LEMMA PublishKeeps ==
  ASSUME RlmInv, NEW r \in Runs, Publish(r) PROVE RlmInv'
<1> DEFINE w == [run[r] EXCEPT !.rows = rec[r].rows, !.ran = rec[r].ran]
           v(p) == [w EXCEPT !.pc = p]
<1>0. permit = r /\ With(rec[r], guest[r], run[r]) /\ run[r].pc = "publish"
  BY Holder DEF Publish, Admitted
<1>1. /\ w \in RunRows /\ w.queue = run[r].queue /\ w.events = run[r].events
      /\ w.submitted = run[r].submitted
  <2>1. rec[r].rows \in 0 .. MaxRows /\ rec[r].ran \in SUBSET Nodes
    BY RowsTyped DEF Records
  <2> QED BY <2>1, RowsTyped DEF RunRows
<1>2. 0 \in w.submitted
  BY <1>0, <1>1, Parts DEF Submits
<1>3. \E p \in {"ledger", "throw"} : \E b \in {rec[r], [rec[r] EXCEPT !.published = TRUE]} :
         /\ StepOf(r, b, guest[r], client[r], v(p), native[r]) /\ permit' = permit
         /\ p = "ledger" => Proven(w)
  <2>1. CASE /\ w.complete /\ CanPublish(rec[r])
             /\ rec' = [rec EXCEPT ![r].published = TRUE]
             /\ run' = [run EXCEPT ![r] = [w EXCEPT !.pc = IF Proven(w) THEN "ledger" ELSE "throw"]]
    <3> DEFINE b == [rec[r] EXCEPT !.published = TRUE]
    <3>1. rec' = [rec EXCEPT ![r] = b]
      BY <2>1
    <3>2. \E p \in {"ledger", "throw"} : run' = [run EXCEPT ![r] = v(p)] /\ (p = "ledger" => Proven(w))
      BY <2>1
    <3>3. \E p \in {"ledger", "throw"} :
             /\ StepOf(r, b, guest[r], client[r], v(p), native[r]) /\ permit' = permit
             /\ p = "ledger" => Proven(w)
      <4> HIDE DEF w, v, b
      <4> QED BY <3>1, <3>2, Untouched DEF Publish, StepOf
    <3> HIDE DEF w, v
    <3> QED BY <3>3
  <2>2. CASE UNCHANGED rec /\ run' = [run EXCEPT ![r] = v("ledger")] /\ Proven(w)
    <3>1. StepOf(r, rec[r], guest[r], client[r], v("ledger"), native[r]) /\ permit' = permit
      <4> HIDE DEF w, v
      <4> QED BY <2>2, Untouched DEF Publish, StepOf
    <3> HIDE DEF w, v
    <3> QED BY <2>2, <3>1
  <2>3. CASE UNCHANGED rec /\ run' = [run EXCEPT ![r] = v("throw")]
    <3>1. StepOf(r, rec[r], guest[r], client[r], v("throw"), native[r]) /\ permit' = permit
      <4> HIDE DEF w, v
      <4> QED BY <2>3, Untouched DEF Publish, StepOf
    <3> HIDE DEF w, v
    <3> QED BY <3>1
  <2> QED BY <2>1, <2>2, <2>3 DEF Publish
<1>4. PICK p \in {"ledger", "throw"}, b \in {rec[r], [rec[r] EXCEPT !.published = TRUE]} :
         /\ StepOf(r, b, guest[r], client[r], v(p), native[r]) /\ permit' = permit
         /\ p = "ledger" => Proven(w)
  BY <1>3
<1>5. b \in Records /\ b.state = rec[r].state
  BY <1>4, Parts DEF Records
<1>6. /\ v(p) \in RunRows /\ v(p).pc = p /\ v(p).queue = w.queue /\ v(p).events = w.events
      /\ v(p).submitted = w.submitted /\ v(p).rows = w.rows /\ v(p).ran = w.ran
  <2> HIDE DEF w
  <2> QED BY <1>1, Names DEF RunRows
<1> HIDE DEF w, v
<1>7. Submits(v(p)) /\ Evident(v(p)) /\ With(b, guest[r], v(p))
  BY <1>0, <1>2, <1>4, <1>5, <1>6 DEF Submits, Evident, Proven, With
<1> QED BY <1>0, <1>1, <1>4, <1>5, <1>6, <1>7, Parts, SessionMoves

-----------------------------------------------------------------------------
(* finalize(). *)

LEMMA FinalizeKeeps ==
  ASSUME RlmInv, NEW r \in Runs, Finalize(r) PROVE RlmInv'
<1> DEFINE reason == IF run[r].pc = "finish" /\ current[r] THEN "COMPLETE"
                     ELSE IF current[r] THEN "ERROR" ELSE "CANCELLED"
           b == IF rec[r].state = "exited" THEN [Stopped(rec[r], reason) EXCEPT !.state = "exited"]
                ELSE Stopped(rec[r], reason)
           c == [client[r] EXCEPT !.state = "closing"]
           u == [run[r] EXCEPT !.pc = "exiting", !.reason = reason]
<1>1. StepOf(r, b, guest[r], c, u, native[r]) /\ permit' = permit
  <2>1. rec' = [rec EXCEPT ![r] = b] /\ client' = [client EXCEPT ![r] = c]
        /\ run' = [run EXCEPT ![r] = u]
    BY DEF Finalize
  <2> HIDE DEF b, c, u
  <2> QED BY <2>1, Untouched DEF Finalize, StepOf
<1>0. permit = r /\ With(rec[r], guest[r], run[r])
  BY Holder DEF Finalize
<1>2. reason \in {"COMPLETE", "ERROR", "CANCELLED"} /\ (reason = "COMPLETE" => run[r].pc = "finish")
  OBVIOUS
<1> HIDE DEF reason
<1>3. b \in Records /\ b.state # "none" /\ (b.state = "exited" <=> rec[r].state = "exited")
  <2>1. Stopped(rec[r], reason) \in Records /\ Stopped(rec[r], reason).state \in {rec[r].state, "terminating"}
    BY Parts, StoppedIs
  <2>2. CASE rec[r].state = "exited"
    BY <2>1, <2>2 DEF Records
  <2>3. CASE rec[r].state # "exited"
    BY <1>0, <2>1, <2>3 DEF With
  <2> QED BY <2>2, <2>3
<1>4. c \in Clients
  BY Parts DEF Clients
<1>5. /\ u \in RunRows /\ u.pc = "exiting" /\ u.reason = reason /\ u.queue = run[r].queue
      /\ u.events = run[r].events /\ u.submitted = run[r].submitted
      /\ u.rows = run[r].rows /\ u.ran = run[r].ran
  BY <1>2, RowsTyped, Names DEF RunRows
<1> HIDE DEF b, c, u
<1>6. Submits(u) /\ Evident(u)
  BY <1>2, <1>5, Parts DEF Submits, Evident, Proven
<1>7. With(b, guest[r], u)
  BY <1>0, <1>3, <1>5 DEF With
<1>8. Sound(r, permit', b, guest[r], c, u, native[r])
  BY <1>0, <1>1, <1>3, <1>4, <1>5, <1>6, <1>7, Parts DEF Sound, Typed
<1> QED BY <1>1, <1>8, OthersKeep

LEMMA ProvedKeeps ==
  ASSUME RlmInv, NEW r \in Runs, ExitProved(r) PROVE RlmInv'
<1>0. permit = r /\ run[r].pc = "exiting"
  BY Holder DEF ExitProved, Admitted
<1>1. CASE native[r] = "unobserved"
  <2>1. StepOf(r, rec[r], guest[r], client[r], Returned("failed"), native[r]) /\ permit' = permit
    BY <1>1, Untouched DEF ExitProved, StepOf, NativeSettled
  <2> QED BY <1>0, <2>1, Parts, ReturnKeeps
<1>2. CASE native[r] # "unobserved"
  <2> DEFINE v == [run[r] EXCEPT !.pc = "clearing"]
             w == [run[r] EXCEPT !.pc = "joining", !.result = "failed"]
  <2>1. PICK u \in {v, w} : StepOf(r, rec[r], guest[r], client[r], u, native[r]) /\ permit' = permit
    BY <1>2, Untouched DEF ExitProved, StepOf, NativeSettled
  <2>2. /\ u \in RunRows /\ u.pc \in {"clearing", "joining"} /\ u.reason = run[r].reason
        /\ u.queue = run[r].queue /\ u.events = run[r].events /\ u.submitted = run[r].submitted
        /\ u.rows = run[r].rows /\ u.ran = run[r].ran
    <3>1. CASE u = v
      BY <3>1, RowsTyped, Names DEF RunRows
    <3>2. CASE u = w
      BY <3>2, RowsTyped, Names DEF RunRows
    <3> QED BY <2>1, <3>1, <3>2
  <2> HIDE DEF v, w
  <2>3. Submits(u) /\ Evident(u)
    BY <1>0, <2>2, Parts DEF Submits, Evident, Proven
  <2> QED BY <1>0, <2>1, <2>2, <2>3, Parts, RunMoves
<1> QED BY <1>1, <1>2

LEMMA JoinedKeeps ==
  ASSUME RlmInv, NEW r \in Runs, Joined(r) PROVE RlmInv'
<1> DEFINE u == [run[r] EXCEPT !.pc = "clearing"]
<1>0. permit = r /\ run[r].pc = "joining"
  BY Holder DEF Joined, Admitted
<1>1. StepOf(r, rec[r], guest[r], client[r], u, native[r]) /\ permit' = permit
  BY Untouched DEF Joined, StepOf
<1>2. /\ u \in RunRows /\ u.pc = "clearing" /\ u.reason = run[r].reason
      /\ u.queue = run[r].queue /\ u.events = run[r].events /\ u.submitted = run[r].submitted
      /\ u.rows = run[r].rows /\ u.ran = run[r].ran
  BY Parts, Names DEF RunRows
<1> HIDE DEF u
<1>3. Submits(u) /\ Evident(u)
  BY <1>0, <1>2, Parts DEF Submits, Evident, Proven
<1> QED BY <1>0, <1>1, <1>2, <1>3, Parts, RunMoves

LEMMA ClearKeeps ==
  ASSUME RlmInv, NEW r \in Runs, ClearSettledEvent(r) PROVE RlmInv'
<1>0. permit = r /\ With(rec[r], guest[r], run[r])
  BY Holder DEF ClearSettledEvent, Admitted
<1>1. PICK e \in run[r].events \ client[r].settled :
         /\ client' = [client EXCEPT ![r].owed = @ \ {e}, ![r].settled = @ \cup {e}]
         /\ rec' = [rec EXCEPT ![r].outstanding = @ \ {e}]
  BY DEF ClearSettledEvent
<1> DEFINE c == [client[r] EXCEPT !.owed = @ \ {e}, !.settled = @ \cup {e}]
           b == [rec[r] EXCEPT !.outstanding = @ \ {e}]
<1>2. client' = [client EXCEPT ![r] = c] /\ rec' = [rec EXCEPT ![r] = b]
  BY <1>1, Untouched
<1>3. e \in Events
  BY Parts DEF RunRows
<1>4. c \in Clients /\ b \in Records /\ b.state = rec[r].state
  <2>0. client[r] \in Clients /\ rec[r] \in Records
    BY Parts
  <2>1. c \in Clients
    BY <1>3, <2>0 DEF Clients
  <2>2. b \in Records /\ b.state = rec[r].state
    BY <1>3, <2>0 DEF Records
  <2> QED BY <2>1, <2>2
<1> HIDE DEF c, b
<1>5. StepOf(r, b, guest[r], c, run[r], native[r]) /\ permit' = permit
  BY <1>2, Untouched DEF ClearSettledEvent, StepOf
<1>6. Sound(r, permit', b, guest[r], c, run[r], native[r])
  BY <1>0, <1>4, <1>5, Parts DEF Sound, Typed, With
<1> QED BY <1>5, <1>6, OthersKeep

LEMMA ReleaseKeeps ==
  ASSUME RlmInv, NEW r \in Runs, Release(r) \/ ReleaseUnanswered(r) PROVE RlmInv'
<1>0. permit = r /\ native[r] = "settled" /\ permit' = NoRun /\ NoRun # r
  BY Holder, Positive DEF Release, ReleaseUnanswered, Freed, Releasable, NativeSettled, Admitted
<1>1. PICK x \in {"none", "failed", "complete"}, c \in {[state |-> "released", owed |-> {}, settled |-> {}],
                [state |-> "quarantined", owed |-> {}, settled |-> {}]} :
         StepOf(r, NoRecord, NoGuest, c, Returned(x), native[r])
  <2>1. CASE Release(r)
    <3> DEFINE x == ResultOf(run[r])
               c == [state |-> "released", owed |-> {}, settled |-> {}]
    <3>1. x \in {"none", "failed", "complete"}
      BY DEF ResultOf
    <3> HIDE DEF x
    <3>2. run' = [run EXCEPT ![r] = Returned(x)]
      BY <2>1 DEF x, Release
    <3>3. StepOf(r, NoRecord, NoGuest, c, Returned(x), native[r])
      BY <1>0, <2>1, <3>2, Untouched DEF Release, Freed, StepOf
    <3> QED BY <3>1, <3>3
  <2>2. CASE ReleaseUnanswered(r)
    <3>1. faults' \in 0 .. MaxFaults
      BY <2>2, OneFault DEF ReleaseUnanswered
    <3>2. StepOf(r, NoRecord, NoGuest, [state |-> "quarantined", owed |-> {}, settled |-> {}],
                 Returned("failed"), native[r])
      BY <1>0, <2>2, <3>1, Untouched DEF ReleaseUnanswered, Freed, StepOf
    <3> QED BY <3>2
  <2> QED BY <2>1, <2>2
<1>2. c \in Clients /\ c.state # "live"
  BY <1>1 DEF Clients
<1>3. Submits(Returned(x)) /\ Evident(Returned(x)) /\ Returned(x).pc \notin Admitted
  BY ReturnedRuns DEF Submits, Evident, Admitted
<1>4. Sound(r, permit', NoRecord, NoGuest, c, Returned(x), native[r])
  BY <1>0, <1>2, <1>3, ReturnedRuns, EmptyValues, Parts DEF Sound, Typed, Without
<1> QED BY <1>1, <1>4, OthersKeep

LEMMA FailsKeeps ==
  ASSUME RlmInv, NEW r \in Runs, RoundTripFails(r) PROVE RlmInv'
<1> DEFINE c == [client[r] EXCEPT !.state =
                  IF run[r].pc \in {"opening", "opened"} THEN "idle" ELSE "quarantined"]
<1>1. c \in Clients /\ c.state # "live"
  BY Parts DEF Clients
<1>2. faults' \in 0 .. MaxFaults /\ permit' = permit
  BY OneFault DEF RoundTripFails
<1>3. client' = [client EXCEPT ![r] = c]
  BY DEF RoundTripFails
<1> HIDE DEF c
<1>4. permit # r => native[r] = "settled"
  BY Holder
<1>5. CASE run[r].pc \in {"exiting", "clearing"}
  <2>1. StepOf(r, rec[r], guest[r], c, Returned("failed"), native[r])
    BY <1>2, <1>3, <1>5, Untouched DEF RoundTripFails, StepOf
  <2> QED BY <1>1, <1>2, <2>1, ReturnKeeps
<1>6. CASE run[r].pc \notin {"exiting", "clearing"}
  <2>1. StepOf(r, rec[r], guest[r], c, [run[r] EXCEPT !.pc = "throw"], native[r])
    BY <1>2, <1>3, <1>6, Untouched DEF RoundTripFails, StepOf
  <2> QED BY <1>1, <1>2, <1>4, <2>1, Parts, ThrowKeeps
<1> QED BY <1>5, <1>6

LEMMA JobEndsKeeps ==
  ASSUME RlmInv, NEW r \in Runs, JobEnds(r) PROVE RlmInv'
<1>1. current' \in [Runs -> BOOLEAN]
  BY DEF JobEnds, RlmInv
<1>2. StepOf(r, rec[r], guest[r], client[r], run[r], native[r]) /\ permit' = permit
  BY <1>1, Untouched DEF JobEnds, StepOf
<1> QED BY <1>2, Parts, OthersKeep

-----------------------------------------------------------------------------
(* The invariant. *)

LEMMA InitInv == RlmInit => RlmInv
<1> SUFFICES ASSUME RlmInit PROVE RlmInv
  OBVIOUS
<1> DEFINE c == [state |-> "idle", owed |-> {}, settled |-> {}]
<1>1. c \in Clients /\ c.state # "live"
  BY DEF Clients
<1>2. NewRun.queue = {} /\ NewRun.pc = "new"
  BY DEF NewRun
<1>3. Submits(NewRun) /\ Evident(NewRun) /\ NewRun.pc \notin Admitted
  BY <1>2 DEF Submits, Evident, Admitted
<1>4. ASSUME NEW r \in Runs PROVE Sound(r, NoRun, NoRecord, NoGuest, c, NewRun, "settled")
  <2> HIDE DEF c
  <2> QED BY <1>1, <1>2, <1>3, Positive, ReturnedRuns, EmptyValues
          DEF Sound, Typed, Without, NativeStates
<1>5. ASSUME NEW r \in Runs PROVE SoundAt(r)
  BY <1>4, <1>5 DEF RlmInit, SoundAt
<1>6. /\ permit \in Runs \cup {NoRun} /\ faults \in 0 .. MaxFaults
      /\ current \in [Runs -> BOOLEAN]
      /\ rec = [r \in Runs |-> rec[r]] /\ guest = [r \in Runs |-> guest[r]]
      /\ client = [r \in Runs |-> client[r]] /\ run = [r \in Runs |-> run[r]]
      /\ native = [r \in Runs |-> native[r]]
  BY Positive DEF RlmInit
<1> QED BY <1>5, <1>6 DEF RlmInv

LEMMA NextInv == RlmInv /\ [RlmNext]_rlmVars => RlmInv'
<1> SUFFICES ASSUME RlmInv, [RlmNext]_rlmVars PROVE RlmInv'
  OBVIOUS
<1>1. CASE UNCHANGED rlmVars
  BY <1>1 DEF rlmVars, RlmInv, SoundAt
<1>2. CASE RlmNext
  <2> PICK r \in Runs :
        \/ Coordinator(r) \/ Model(r) \/ Worker(r)
        \/ DeadlineFires(r) \/ GarbledReply(r) \/ WorkerExits(r)
        \/ NativeSettles(r) \/ RoundTripFails(r) \/ ReleaseUnanswered(r) \/ JobEnds(r)
    BY <1>2 DEF RlmNext
  <2>1. CASE Coordinator(r)
    BY <2>1, BeginsKeeps, RefusedKeeps, OpenKeeps, OpenRefusedKeeps, OpenedKeeps, PostKeeps,
       ReplyKeeps, PublishKeeps, FinalizeKeeps, ProvedKeeps, JoinedKeeps, ClearKeeps, ReleaseKeeps
    DEF Coordinator
  <2>2. CASE Model(r)
    BY <2>2, ModelAnswersKeeps, SubtaskKeeps, ModelThrowsKeeps DEF Model
  <2>3. CASE Worker(r)
    BY <2>3, ReadyKeeps, HearsKeeps, GuestFailsKeeps, GuestRunsKeeps DEF Worker
  <2> QED BY <2>1, <2>2, <2>3, DeadlineKeeps, GarbledKeeps, ExitsKeeps, SettlesKeeps, FailsKeeps,
             ReleaseKeeps, JobEndsKeeps
<1> QED BY <1>1, <1>2

LEMMA Invariant == RlmSpec => []RlmInv
BY InitInv, NextInv, PTL DEF RlmSpec

(* Every record keeps its shape: at most MaxSteps coordinator steps, at most    *)
(* MaxEvents guest calls, and no queued call the coordinator did not take.      *)
THEOREM RlmTypeCorrect == RlmSpec => []RlmTypeOK
<1>1. RlmInv => RlmTypeOK
  <2> SUFFICES ASSUME RlmInv PROVE RlmTypeOK
    OBVIOUS
  <2>1. rec \in [Runs -> Records] /\ client \in [Runs -> Clients]
    BY Parts DEF RlmInv
  <2>2. \A r \in Runs :
          /\ guest[r].pending \subseteq Events /\ guest[r].calls \in 0 .. MaxEvents
          /\ guest[r].rows \in 0 .. MaxRows /\ guest[r].cmd \in Ops \cup {"none"}
    BY Parts DEF Guests
  <2>3. \A r \in Runs :
          /\ run[r].result \in {"none", "failed", "complete"}
          /\ run[r].steps \in 0 .. MaxSteps
          /\ run[r].queue \subseteq run[r].events
          /\ native[r] \in {"settled", "pending", "unobserved"}
    BY Parts DEF RunRows, NativeStates
  <2> QED BY <2>1, <2>2, <2>3 DEF RlmTypeOK, RlmInv, Records, Clients
<1> QED BY <1>1, Invariant, PTL

-----------------------------------------------------------------------------
(* The permit. *)

\* Only the holder is busy.
OnlyHolder == \A r \in Busy : permit = r

LEMMA BusyHolds == RlmInv => OnlyHolder
BY Holder, Parts DEF OnlyHolder, Busy, Sound, Without, NoRecord

\* The actions of one run that do not move the permit and do not return a ledger.
Ordinary(r) ==
  \/ RunBegins(r) \/ RunRefused(r) \/ OpenRefused(r) \/ Opened(r)
  \/ PostCommand(r) \/ ReplyArrives(r) \/ Publish(r)
  \/ NothingToClose(r) \/ Finalize(r) \/ ExitProved(r) \/ Joined(r)
  \/ ClearSettledEvent(r) \/ ReleaseDeclined(r) \/ Model(r) \/ Worker(r)
  \/ DeadlineFires(r) \/ GarbledReply(r) \/ WorkerExits(r)
  \/ NativeSettles(r) \/ RoundTripFails(r) \/ JobEnds(r)

LEMMA GuestIsApart ==
  ASSUME NEW r \in Runs,
         \/ GuestFails(r)
         \/ \E new \in SUBSET Events, rows \in 0 .. MaxRows : GuestRuns(r, new, rows)
  PROVE  UNCHANGED <<rec, run>>
<1>1. CASE GuestFails(r)
  BY <1>1 DEF GuestFails
<1>2. ASSUME NEW new, NEW rows, GuestRuns(r, new, rows)
      PROVE  UNCHANGED <<rec, run>>
  BY <1>2, Zenon DEF GuestRuns
<1> QED BY <1>1, <1>2

LEMMA StepKinds ==
  ASSUME RlmNext
  PROVE  \E r \in Runs : Ordinary(r) \/ OpenSession(r) \/ Release(r) \/ ReleaseUnanswered(r)
BY DEF RlmNext, Coordinator, Ordinary

\* A step of r leaves the records of the other runs as they are.
Alone(r) ==
  \A q \in Runs \ {r} :
    rec'[q] = rec[q] /\ guest'[q] = guest[q] /\ run'[q] = run[q] /\ native'[q] = native[q]

LEMMA OrdinaryAlone ==
  ASSUME RlmInv, NEW r \in Runs, Ordinary(r)
  PROVE  Alone(r) /\ permit' = permit
<1>0. /\ rec = [q \in Runs |-> rec[q]] /\ guest = [q \in Runs |-> guest[q]]
      /\ run = [q \in Runs |-> run[q]] /\ native = [q \in Runs |-> native[q]]
  BY DEF RlmInv
<1>1. CASE \/ RunBegins(r) \/ RunRefused(r) \/ OpenRefused(r) \/ Opened(r)
           \/ NothingToClose(r) \/ Joined(r) \/ ReleaseDeclined(r) \/ JobEnds(r)
  BY <1>0, <1>1
  DEF Alone, RunBegins, RunRefused, OpenRefused, Opened, NothingToClose, Joined,
      ReleaseDeclined, JobEnds
<1>2. CASE PostCommand(r)
  BY <1>0, <1>2 DEF Alone, PostCommand
<1>3. CASE ReplyArrives(r) \/ ExitProved(r) \/ ClearSettledEvent(r)
  BY <1>0, <1>3 DEF Alone, ReplyArrives, ExitProved, ClearSettledEvent
<1>4. CASE Publish(r) \/ Finalize(r) \/ RoundTripFails(r)
  BY <1>0, <1>4 DEF Alone, Publish, Finalize, RoundTripFails
<1>5. CASE Model(r) \/ NativeSettles(r)
  BY <1>0, <1>5 DEF Alone, Model, ModelAnswers, SubtaskAnswers, ModelThrows, NativeSettles
<1>6. CASE WorkerReady(r) \/ GuestFails(r) \/ DeadlineFires(r) \/ GarbledReply(r)
  BY <1>0, <1>6 DEF Alone, WorkerReady, GuestFails, DeadlineFires, GarbledReply
<1>7. CASE \E new \in SUBSET Events, rows \in 0 .. MaxRows : GuestRuns(r, new, rows)
  <2>1. PICK new, rows : GuestRuns(r, new, rows)
    BY <1>7
  <2>2. \A q \in Runs \ {r} : guest'[q] = guest[q]
    <3> DEFINE g == guest[r]
               ran == CASE g.cmd = "evaluate" -> {0}
                        [] g.cmd = "resolve" -> {g.event}
                        [] OTHER -> {}
               left == (IF g.cmd = "resolve" THEN g.pending \ {g.event} ELSE g.pending) \cup new
               k == g.calls + Cardinality(new)
               m(done) == [ok |-> TRUE, done |-> done, events |-> new, rows |-> rows,
                           ran |-> g.ran \cup ran]
    <3>1. PICK done \in BOOLEAN :
            guest' = [guest EXCEPT ![r].cmd = "none", ![r].heard = FALSE, ![r].pending = left,
                        ![r].calls = k, ![r].rows = rows, ![r].ran = @ \cup ran,
                        ![r].terminal = done, ![r].msg = m(done)]
      BY <2>1 DEF GuestRuns
    <3> HIDE DEF ran, left, k, m
    <3> QED BY <1>0, <3>1
  <2> QED BY <2>1, <2>2 DEF Alone, GuestRuns
<1>8. CASE BackendHears(r)
  BY <1>0, <1>8 DEF Alone, BackendHears
<1>9. CASE WorkerExits(r)
  BY <1>0, <1>9 DEF Alone, WorkerExits
<1> QED BY <1>1, <1>2, <1>3, <1>4, <1>5, <1>6, <1>7, <1>8, <1>9 DEF Ordinary, Worker

LEMMA PermitAlone ==
  ASSUME RlmInv, NEW r \in Runs, OpenSession(r) \/ Release(r) \/ ReleaseUnanswered(r)
  PROVE  Alone(r)
<1>0. /\ rec = [q \in Runs |-> rec[q]] /\ guest = [q \in Runs |-> guest[q]]
      /\ run = [q \in Runs |-> run[q]] /\ native = [q \in Runs |-> native[q]]
  BY DEF RlmInv
<1> QED BY <1>0 DEF Alone, OpenSession, Release, ReleaseUnanswered, Freed

LEMMA AloneBusy ==
  ASSUME NEW r \in Runs, Alone(r)
  PROVE  Busy' \ {r} = Busy \ {r}
BY DEF Alone, Busy

\* Such a step that leaves the permit alone is one of the holder's, a settling, or neither.
LEMMA WorkOrSettle ==
  ASSUME RlmInv, NEW r \in Runs, permit' = permit, Busy' \ {r} = Busy \ {r},
         r \in Busy' => permit = r
  PROVE  [ThePermit!PermitNext]_(ThePermit!permitVars)
<1>1. CASE r \in Busy'
  <2>1. Busy' = Busy \cup {r}
    BY <1>1
  <2> QED BY <1>1, <2>1 DEF ThePermit!PermitNext, ThePermit!Work
<1>2. CASE r \notin Busy'
  <2>1. Busy' = Busy \ {r}
    BY <1>2
  <2> QED BY <2>1 DEF ThePermit!PermitNext, ThePermit!Settle
<1> QED BY <1>1, <1>2

(* Every step of the four layers is a step of the permit, or none of its       *)
(* business: a session starts only when the permit is free, only the holder     *)
(* has a Worker, a guest call or provider I/O under way, and releaseAfterJoin   *)
(* (rlm-runtime.ts) gives the permit back only when it has none left.           *)
THEOREM PermitImplemented == RlmSpec => ImplementsPermit
<1>1. RlmInit => ThePermit!PermitInit
  BY DEF RlmInit, ThePermit!PermitInit, Busy, NoGuest, NoRecord
<1>2. RlmInv /\ OnlyHolder' /\ [RlmNext]_rlmVars => [ThePermit!PermitNext]_(ThePermit!permitVars)
  <2> SUFFICES ASSUME RlmInv, OnlyHolder', [RlmNext]_rlmVars
               PROVE  [ThePermit!PermitNext]_(ThePermit!permitVars)
    OBVIOUS
  <2>0. \A r \in Busy' : permit' = r
    BY DEF OnlyHolder
  <2>1. CASE UNCHANGED rlmVars
    BY <2>1 DEF rlmVars, Busy, ThePermit!permitVars
  <2>2. CASE RlmNext
    <3> PICK r \in Runs : Ordinary(r) \/ OpenSession(r) \/ Release(r) \/ ReleaseUnanswered(r)
      BY <2>2, StepKinds
    <3>1. CASE Ordinary(r)
      <4>1. permit' = permit /\ Busy' \ {r} = Busy \ {r}
        BY <3>1, OrdinaryAlone, AloneBusy
      <4>2. r \in Busy' => permit = r
        BY <4>1, <2>0
      <4> QED BY <4>1, <4>2, WorkOrSettle
    <3>2. CASE OpenSession(r)
      <4>1. Busy' \ {r} = Busy \ {r}
        BY <3>2, PermitAlone, AloneBusy
      <4>2. r \in Busy'
        BY <3>2 DEF OpenSession, Busy, RlmInv
      <4>3. permit = NoRun /\ permit' = r
        BY <3>2 DEF OpenSession, Admits
      <4>4. Busy' = Busy \cup {r}
        BY <4>1, <4>2
      <4> QED BY <4>3, <4>4 DEF ThePermit!PermitNext, ThePermit!Take
    <3>3. CASE Release(r) \/ ReleaseUnanswered(r)
      <4>1. Busy' \ {r} = Busy \ {r}
        BY <3>3, PermitAlone, AloneBusy
      <4>2. Freed(r) /\ permit' = NoRun /\ NoRun # r
        BY <3>3, Positive DEF Release, ReleaseUnanswered, Freed
      <4>3. permit = r /\ ~guest[r].alive
        BY <4>2, Holder DEF Freed, Admitted, Releasable, With
      <4>4. r \notin Busy
        BY <4>2, <4>3 DEF Freed, Releasable, NativeSettled, Busy
      <4>5. r \notin Busy'
        BY <2>0, <4>2
      <4>6. Busy' = Busy
        BY <4>1, <4>4, <4>5
      <4> QED BY <4>2, <4>3, <4>4, <4>6 DEF ThePermit!PermitNext, ThePermit!Give
    <3> QED BY <3>1, <3>2, <3>3
  <2> QED BY <2>1, <2>2
<1> QED BY <1>1, <1>2, BusyHolds, Invariant, PTL DEF RlmSpec, ImplementsPermit, ThePermit!PermitSpec

-----------------------------------------------------------------------------
(* What a run returns. *)

LEMMA AfterReplyResult ==
  ASSUME NEW u \in RunRows
  PROVE  AfterReply(u).result = u.result
<1>1. CASE u.reply.done /\ u.queue # {}
  BY <1>1 DEF AfterReply, RunRows
<1>2. CASE u.reply.done /\ u.queue = {}
  BY <1>2 DEF AfterReply, RunRows
<1>3. CASE ~u.reply.done /\ ~StepsLeft(u)
  BY <1>3 DEF AfterReply, RunRows
<1>4. CASE ~u.reply.done /\ StepsLeft(u) /\ u.queue # {}
  BY <1>4 DEF AfterReply, RunRows
<1>5. CASE ~u.reply.done /\ StepsLeft(u) /\ u.queue = {}
  BY <1>5 DEF AfterReply, RunRows
<1> QED BY <1>1, <1>2, <1>3, <1>4, <1>5

\* Nothing but Release turns a result into a ledger.
LEMMA OrdinaryResult ==
  ASSUME RlmInv, NEW r \in Runs, Ordinary(r)
  PROVE  run'[r].result \in {run[r].result, "failed"}
<1>0. run = [q \in Runs |-> run[q]] /\ run[r] \in RunRows
  BY Parts DEF RlmInv
<1>a. Returned("failed").result = "failed"
  BY ReturnedRuns
<1>1. CASE \/ RunBegins(r) \/ RunRefused(r) \/ OpenRefused(r) \/ Opened(r)
           \/ NothingToClose(r) \/ Joined(r) \/ ReleaseDeclined(r) \/ JobEnds(r)
  BY <1>0, <1>a, <1>1
  DEF RunBegins, RunRefused, OpenRefused, Opened, NothingToClose, Joined,
      ReleaseDeclined, JobEnds, RunRows
<1>2. CASE PostCommand(r)
  BY <1>0, <1>2 DEF PostCommand, RunRows
<1>3. CASE ReplyArrives(r)
  <2> DEFINE m == run[r].reply
             seen == [run[r] EXCEPT !.rows = m.rows, !.ran = m.ran]
             took == [seen EXCEPT !.events = @ \cup m.events, !.queue = @ \cup m.events]
  <2>1. m.rows \in 0 .. MaxRows /\ m.ran \in SUBSET Nodes /\ m.events \in SUBSET Events
    BY <1>0 DEF RunRows, Replies
  <2>2. seen \in RunRows /\ seen.result = run[r].result
    <3> HIDE DEF m
    <3> QED BY <1>0, <2>1 DEF RunRows
  <2>3. took \in RunRows /\ took.result = run[r].result
    <3> HIDE DEF m, seen
    <3> QED BY <2>1, <2>2 DEF RunRows
  <2>4. AfterReply(took).result = run[r].result
    BY <2>3, AfterReplyResult
  <2>5. \A p : [seen EXCEPT !.pc = p].result = run[r].result
    <3> HIDE DEF seen
    <3> QED BY <2>2 DEF RunRows
  <2>6. run'[r] = AfterReply(took) \/ \E p : run'[r] = [seen EXCEPT !.pc = p]
    BY <1>0, <1>3 DEF ReplyArrives
  <2> HIDE DEF m, seen, took
  <2> QED BY <2>4, <2>5, <2>6
<1>4. CASE ExitProved(r)
  BY <1>0, <1>a, <1>4 DEF ExitProved, RunRows
<1>5. CASE Publish(r)
  <2> DEFINE w == [run[r] EXCEPT !.rows = rec[r].rows, !.ran = rec[r].ran]
  <2>1. \E p : run'[r] = [w EXCEPT !.pc = p]
    BY <1>0, <1>5 DEF Publish
  <2> QED BY <1>0, <2>1 DEF RunRows
<1>6. CASE Finalize(r) \/ RoundTripFails(r)
  BY <1>0, <1>a, <1>6 DEF Finalize, RoundTripFails, RunRows
<1>7. CASE Model(r)
  <2>1. CASE ModelAnswers(r)
    <3> USE <1>0, <2>1 DEF ModelAnswers, RunRows
    <3>1. CASE run[r].pc = "codegen"
      BY <3>1
    <3>2. CASE run[r].pc = "child"
      BY <3>2
    <3>3. CASE run[r].pc = "ledger"
      BY <3>3
    <3> QED BY <3>1, <3>2, <3>3 DEF ModelPhases
  <2>2. CASE SubtaskAnswers(r) \/ ModelThrows(r)
    BY <1>0, <2>2 DEF SubtaskAnswers, ModelThrows, RunRows
  <2> QED BY <1>7, <2>1, <2>2 DEF Model
<1>8. CASE BackendHears(r)
  BY <1>0, <1>8 DEF BackendHears, RunRows
<1>9. CASE WorkerExits(r)
  BY <1>0, <1>9 DEF WorkerExits, RunRows
<1>10. CASE UNCHANGED run
  BY <1>10
<1>11. WorkerReady(r) \/ NativeSettles(r) \/ ClearSettledEvent(r) \/ DeadlineFires(r) \/ GarbledReply(r)
         => UNCHANGED run
  BY DEF NativeSettles, ClearSettledEvent, WorkerReady, DeadlineFires, GarbledReply
<1>12. Worker(r) => BackendHears(r) \/ UNCHANGED run
  BY <1>11, GuestIsApart DEF Worker
<1> QED BY <1>1, <1>2, <1>3, <1>4, <1>5, <1>6, <1>7, <1>8, <1>9, <1>10, <1>11, <1>12 DEF Ordinary

(* A ledger is returned only by a run that was released after its Worker's      *)
(* exit, read every row and executed every source it submitted, whatever        *)
(* deadline, lost round trip or stopped Worker came in between.                 *)
THEOREM LedgerIsProved == RlmSpec => ResultIsProved
<1> DEFINE A == \A r \in Runs : run'[r].result = "complete" /\ run[r].result # "complete" =>
                  /\ client'[r].state = "released" /\ ~guest[r].alive
                  /\ run[r].rows = MaxRows
                  /\ 0 \in run[r].submitted /\ run[r].submitted \subseteq run[r].ran
<1>1. RlmInv /\ [RlmNext]_rlmVars => [A]_rlmVars
  <2> SUFFICES ASSUME RlmInv, RlmNext, NEW q \in Runs, run'[q].result = "complete",
                      run[q].result # "complete"
               PROVE  /\ client'[q].state = "released" /\ ~guest[q].alive
                      /\ run[q].rows = MaxRows
                      /\ 0 \in run[q].submitted /\ run[q].submitted \subseteq run[q].ran
    OBVIOUS
  <2> PICK r \in Runs : Ordinary(r) \/ OpenSession(r) \/ Release(r) \/ ReleaseUnanswered(r)
    BY StepKinds
  <2>1. q = r
    BY OrdinaryAlone, PermitAlone DEF Alone
  <2>2. ~Ordinary(r)
    BY <2>1, OrdinaryResult
  <2>3. ~OpenSession(r)
    BY <2>1, Parts DEF OpenSession, RlmInv, RunRows
  <2>4. ~ReleaseUnanswered(r)
    BY <2>1, ReturnedRuns DEF ReleaseUnanswered, RlmInv
  <2>5. Release(r)
    BY <2>2, <2>3, <2>4
  <2>6. client'[r].state = "released"
    BY <2>5 DEF Release, RlmInv
  <2>7. permit = r /\ With(rec[r], guest[r], run[r]) /\ run[r].pc = "clearing"
    BY <2>5, Holder DEF Release, Freed, Admitted
  <2>8. ~guest[r].alive
    BY <2>5, <2>7 DEF Release, Freed, Releasable, With
  <2>9. run'[r] = Returned(ResultOf(run[r])) /\ ResultOf(run[r]) \in {"failed", "complete"}
    BY <2>5 DEF Release, ResultOf, RlmInv
  <2>10. ResultOf(run[r]) = "complete"
    BY <2>1, <2>9, ReturnedRuns
  <2>11. run[r].reason = "COMPLETE"
    BY <2>10 DEF ResultOf
  <2>12. 0 \in run[r].submitted /\ Proven(run[r])
    BY <2>7, <2>11, Parts DEF Evident
  <2> QED BY <2>1, <2>6, <2>8, <2>12 DEF Proven
<1>2. RlmSpec => [][A]_rlmVars
  BY <1>1, Invariant, PTL DEF RlmSpec
<1> QED BY <1>2 DEF ResultIsProved

(* Once a session is cancelled the message handler of node-backend.mjs is       *)
(* deaf: whatever its Worker still has in flight, and whichever run's step      *)
(* comes next, the evidence, the completion and the calls the host believes in  *)
(* stay as they are until the session is released.                              *)
THEOREM CancelledStaysDeaf == RlmSpec => CancelledIsDeaf
<1> DEFINE A == \A r \in Runs : rec[r].cancelled /\ rec'[r].state # "none" =>
                  /\ rec'[r].complete = rec[r].complete
                  /\ rec'[r].rows = rec[r].rows
                  /\ rec'[r].outstanding \subseteq rec[r].outstanding
<1>1. RlmInv /\ [RlmNext]_rlmVars => [A]_rlmVars
  <2> SUFFICES ASSUME RlmInv, RlmNext, NEW q \in Runs, rec[q].cancelled, rec'[q].state # "none"
               PROVE  /\ rec'[q].complete = rec[q].complete
                      /\ rec'[q].rows = rec[q].rows
                      /\ rec'[q].outstanding \subseteq rec[q].outstanding
    OBVIOUS
  <2> PICK r \in Runs : Ordinary(r) \/ OpenSession(r) \/ Release(r) \/ ReleaseUnanswered(r)
    BY StepKinds
  <2>0. rec = [p \in Runs |-> rec[p]] /\ rec[r] \in Records
    BY Parts DEF RlmInv
  <2>1. CASE q # r
    BY <2>1, OrdinaryAlone, PermitAlone DEF Alone
  <2>2. CASE q = r
    <3>1. CASE Release(r) \/ ReleaseUnanswered(r)
      BY <2>0, <2>2, <3>1 DEF Release, ReleaseUnanswered, Freed, NoRecord
    <3>a. CASE OpenSession(r)
      BY <2>0, <2>2, <3>a DEF OpenSession, Records
    <3>b. CASE WorkerReady(r) \/ WorkerExits(r)
      BY <2>0, <2>2, <3>b DEF WorkerReady, WorkerExits, Records
    <3>c. CASE ClearSettledEvent(r)
      <4>1. PICK e : rec' = [rec EXCEPT ![r].outstanding = @ \ {e}]
        BY <3>c DEF ClearSettledEvent
      <4> QED BY <2>0, <2>2, <4>1 DEF Records
    <3>3. CASE PostCommand(r) \/ Publish(r)
      BY <2>0, <2>2, <3>3 DEF PostCommand, Publish, Records
    <3>4. CASE DeadlineFires(r) \/ GarbledReply(r)
      BY <2>0, <2>2, <3>4, StoppedIs DEF DeadlineFires, GarbledReply
    <3>5. CASE Finalize(r)
      <4>1. PICK reason : rec'[r] = IF rec[r].state = "exited"
                                    THEN [Stopped(rec[r], reason) EXCEPT !.state = "exited"]
                                    ELSE Stopped(rec[r], reason)
        BY <2>0, <3>5 DEF Finalize
      <4>2. Stopped(rec[r], reason) \in Records
        BY <2>0, StoppedIs
      <4> QED BY <2>0, <2>2, <4>1, <4>2, StoppedIs DEF Records
    <3>6. CASE BackendHears(r)
      BY <2>2, <3>6 DEF BackendHears, Listens
    <3>7. CASE \/ RunBegins(r) \/ RunRefused(r) \/ OpenRefused(r) \/ Opened(r) \/ ReplyArrives(r)
               \/ NothingToClose(r) \/ ExitProved(r) \/ Joined(r) \/ ReleaseDeclined(r)
      <4>1. UNCHANGED rec
        BY <3>7 DEF RunBegins, RunRefused, OpenRefused, Opened, ReplyArrives, NothingToClose,
                    ExitProved, Joined, ReleaseDeclined
      <4> QED BY <2>2, <4>1
    <3>8. CASE Model(r) \/ NativeSettles(r) \/ RoundTripFails(r) \/ JobEnds(r)
      <4>1. UNCHANGED rec
        BY <3>8 DEF Model, ModelAnswers, SubtaskAnswers, ModelThrows, NativeSettles,
                    RoundTripFails, JobEnds
      <4> QED BY <2>2, <4>1
    <3>9. CASE \/ GuestFails(r)
               \/ \E new \in SUBSET Events, rows \in 0 .. MaxRows : GuestRuns(r, new, rows)
      <4>1. UNCHANGED rec
        BY <3>9, GuestIsApart
      <4> QED BY <2>2, <4>1
    <3> QED BY <3>1, <3>a, <3>b, <3>c, <3>3, <3>4, <3>5, <3>6, <3>7, <3>8, <3>9 DEF Ordinary, Worker
  <2> QED BY <2>1, <2>2
<1>2. RlmSpec => [][A]_rlmVars
  BY <1>1, Invariant, PTL DEF RlmSpec
<1> QED BY <1>2 DEF CancelledIsDeaf
=============================================================================
