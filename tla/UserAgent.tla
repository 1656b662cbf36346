------------------------------ MODULE UserAgent ------------------------------
(***************************************************************************)
(* The UserAgent Durable Object (packages/engine/src/agent/user-agent.ts): *)
(* the turn gate, chat and commission turns, held calls and their          *)
(* resolution, task input, cancellation, session ends and the kill switch. *)
(*                                                                         *)
(* The object is single-threaded between awaits, so an action is what a    *)
(* handler runs up to its next await (or its return), and `turn` is the    *)
(* program counter of the one turn the gate admits. Reads, quit, kill and  *)
(* session starts do not take the gate and interleave with the awaits.     *)
(* A crash loses `turn` and `orphan` and keeps `db`.                       *)
(* A refused call (busy, not found, not cancellable) at most reaps first,  *)
(* which is ReadReaps.                                                     *)
(***************************************************************************)
EXTENDS AgentStore

CONSTANTS
    MaxPending,    \* MAX_PENDING_COMMISSIONS
    MaxToolCalls,  \* bound: tool calls of one turn (MAX_ITERATIONS in the code)
    MaxClosers,    \* bound: closers of one entry after which no fault strikes
    Faults,        \* storage faults admitted: "kill_audit", "split_close"
    AnswersInput   \* whether users answer a parked input hold through the
                   \* confirmation route, which does not look at hold_kind

ASSUME BoundsAssumption == MaxPending \in Nat /\ MaxToolCalls \in Nat
                                           /\ MaxClosers \in Nat
ASSUME FaultsAssumption == Faults \subseteq {"kill_audit", "split_close"}
ASSUME AnswersInputAssumption == AnswersInput \in BOOLEAN

VARIABLES
    db,      \* the SQLite store (AgentStore)
    turn,    \* the turn behind `turnInFlight`, at its current await
    orphan,  \* the hold whose tool_use ends conversationMessages, or None
    ran      \* history: how often the call behind a hold was sent to its tool

vars == <<db, turn, orphan, ran>>

Turn == [pc: {"idle", "llm", "scopes", "tool", "hold"},
         op: {"none", "chat", "commission", "resolve", "provide", "direct"},
         run: Runs \cup {None},
         hold: Entries \cup {None},      \* the held row the turn is resolving
         entry: Entries \cup {None},     \* its pending entry, as loaded
         direct: BOOLEAN,                \* its directExecute flag, as loaded
         tool: Tools \cup {None},        \* the call executeTool is evaluating
         sess: Sessions \cup {None},     \* the session executeTool captured
         calls: Nat,
         severed: BOOLEAN]               \* history: a session ended, or kill
                                         \* struck, since the turn began

Idle == [pc |-> "idle", op |-> "none", run |-> None, hold |-> None,
         entry |-> None, direct |-> FALSE, tool |-> None, sess |-> None,
         calls |-> 0, severed |-> FALSE]

TypeOK == /\ db \in Database
          /\ turn \in Turn
          /\ orphan \in Entries \cup {None}
          /\ ran \in [Entries -> Nat]

Init == db = EmptyDatabase /\ turn = Idle /\ orphan = None
        /\ ran = [h \in Entries |-> 0]

\* A turn in its conversation loop, at the await of the LLM.
LoopTurn(op, r) == [Idle EXCEPT !.pc = "llm", !.op = op, !.run = r]

\* The history bit: sessions of d that d2 has ended cut the turn off.
Sever(t, d, d2) ==
    [t EXCEPT !.severed = @ \/ (t.pc # "idle" /\ d2.sess # d.sess)]

-----------------------------------------------------------------------------
(* How a turn ends. Each operator is the tail of the handler after the     *)
(* call it made returned.                                                  *)

\* executeTool answered `held`: the loop persists the turn on the new row,
\* and the handler that owns the turn finishes around it.
HeldDatabase(d, t, h) ==
    LET kept == WithRow(d, h, [d.hold[h] EXCEPT !.direct = (t.op = "direct")])
    IN  CASE t.op = "commission" ->
               updateCommissionStatus(kept, t.run, "awaiting_confirmation")
          [] t.op = "resolve" ->
               updateCommissionStatus(deleteHeldToolCalls(kept, {t.hold}),
                                      t.run, "awaiting_confirmation")
          [] t.op = "provide" ->
               updateCommissionStatus(
                   deleteHeldToolCalls(CloseObserved(kept, t.entry), {t.hold}),
                   t.run, "awaiting_confirmation")
          [] OTHER -> kept

\* A fault strikes between the write of a closer and the write of the row it
\* closes: the isolate dies with only the first on disk.
FaultAfterClose(closed) ==
    /\ "split_close" \in Faults
    /\ \A e \in Entries : closed.obs[e] <= MaxClosers
    /\ db' = closed /\ turn' = Idle /\ orphan' = None

EndHeld(d, t, h) ==
    /\ db' = HeldDatabase(d, t, h)
    /\ turn' = Idle
    /\ orphan' = IF t.run = None /\ t.op # "direct" THEN h ELSE orphan

\* The loop returned its final answer. commissionTerminalStatus folds the
\* turn's tool outcomes into one of three statuses.
EndFinished(d, t) ==
    \E status \in {"completed", "denied", "failed"} :
        /\ db' = IF t.op = "chat" THEN d
                 ELSE updateCommissionStatus(
                         IF t.op = "resolve" THEN deleteHeldToolCalls(d, {t.hold}) ELSE d,
                         t.run, status)
        /\ turn' = Idle
        /\ orphan' = IF t.run = None /\ ~t.direct THEN None ELSE orphan

\* resumeAndFinalize: a direct hold has no conversation and ends here; any
\* other hold re-enters the loop and keeps its `answered` row until it is done.
Resume(d, t) ==
    IF t.direct THEN EndFinished(d, [t EXCEPT !.op = "resolve"])
    ELSE /\ db' = d
         /\ turn' = [t EXCEPT !.pc = "llm", !.op = "resolve", !.tool = None,
                              !.sess = None, !.entry = None]
         /\ UNCHANGED orphan

\* executeTool returned without holding (executed, denied or refused).
ToolAnswered(d, t) ==
    CASE t.op = "provide" ->
           \/ Resume(SetTurnState(CloseObserved(d, t.entry), t.hold, "answered"), t)
           \/ FaultAfterClose(CloseObserved(d, t.entry))
      [] t.op = "direct" -> db' = d /\ turn' = Idle /\ UNCHANGED orphan
      [] OTHER -> /\ db' = d
                  /\ turn' = [t EXCEPT !.pc = "llm", !.tool = None, !.sess = None]
                  /\ UNCHANGED orphan

-----------------------------------------------------------------------------
(* executeTool.                                                            *)

\* Wrong: the session and run columns are swapped.
NewRowSwapped(t, h, kind, spend) ==
    [st |-> "parked", kind |-> kind, spend |-> spend, direct |-> TRUE,
     tool |-> t.tool, run |-> t.sess, sess |-> t.run, entry |-> h]

\* The row executeTool and parkInputHold insert.
NewRow(t, h, kind, spend) ==
    [st |-> "parked", kind |-> kind, spend |-> spend, direct |-> TRUE,
     tool |-> t.tool, run |-> t.run, sess |-> t.sess, entry |-> h]

\* Wrong: a grant of any session counts.
GrantedAnywhere(d, t) == \E s \in Sessions : <<s, t.tool>> \in d.grants

\* queryPolicyEntries and evaluatePolicy: a live session grant of the session
\* executeTool captured.
Granted(d, t) == <<t.sess, t.tool>> \in d.grants /\ t.sess \notin d.aged

\* The governance decision and what follows it. A session grant of the
\* captured session allows, the deny floor alone asks, and a money verb over
\* its cap asks even when granted. A task grant is minted and consumed in one
\* step by resolveConfirmation, so none is ever standing here.
Decide(d, t) ==
    \/ \E h \in Entries \ d.opened :
          /\ Granted(d, t) => t.tool \in SpendTools
          /\ EndHeld(Park(d, h, NewRow(t, h, "confirmation", Granted(d, t))), t, h)
          /\ UNCHANGED ran
    \/ /\ Granted(d, t)
       /\ db' = d /\ turn' = [t EXCEPT !.pc = "tool"] /\ UNCHANGED orphan
       /\ ran' = IF t.op = "provide" THEN [ran EXCEPT ![t.hold] = @ + 1] ELSE ran

\* Wrong: the gate applies to human turns instead of commissioned ones.
missingSlotsHuman(d, t) == t.run = None /\ t.tool \in SlotTools

missingRequiredSlots(d, t) ==
    t.run # None /\ t.tool \in SlotTools /\ ~d.run[t.run].slot

\* executeTool up to its first await: reap, resolve (and capture) the active
\* session, then the gates in the order of the code.
ExecuteTool(d0, t0, tool) ==
    LET d1 == Reaped(d0) IN
    \E s \in ActiveCandidates(d1) :
        LET d == resolveActiveSession(d1, s)
            t == [Sever(t0, d0, d1) EXCEPT !.tool = tool, !.sess = s]
        IN  \/ /\ missingRequiredSlots(d, t)             \* parkInputHold
               /\ \E h \in Entries \ d.opened :
                     EndHeld(markNeedsInput(Park(d, h, NewRow(t, h, "input", FALSE)),
                                            t.run), t, h)
               /\ UNCHANGED ran
            \/ /\ ~missingRequiredSlots(d, t)            \* refused, not connected
               /\ ToolAnswered(d, t) /\ UNCHANGED ran
            \/ /\ ~missingRequiredSlots(d, t)
               /\ tool \in ScopedTools                   \* await readGrantedScopes
               /\ db' = d /\ turn' = [t EXCEPT !.pc = "scopes"]
               /\ UNCHANGED <<orphan, ran>>
            \/ /\ ~missingRequiredSlots(d, t)
               /\ tool \notin ScopedTools
               /\ Decide(d, t)

\* The granted scopes are read: deny on a miss, else decide.
ScopesRead ==
    /\ turn.pc = "scopes"
    /\ \/ ToolAnswered(db, turn) /\ UNCHANGED ran
       \/ Decide(db, turn)

\* dispatchTool of an allowed call returned (the closer of its own allow
\* entry is not a pending one and is left out).
ToolReturns ==
    turn.pc = "tool" /\ ToolAnswered(db, turn) /\ UNCHANGED ran

-----------------------------------------------------------------------------
(* Turns: chat, commission, direct execution, and the loop they run.       *)

\* healCrashedDispatchHolds: a dispatched human row here was stranded by a
\* crash (the gate excludes a live resolve); close its entry, drop the row.
healCrashedDispatchHolds(d) ==
    LET H == {h \in UnresolvedHuman(d) : d.hold[h].st = "dispatched"}
        E == {d.hold[h].entry : h \in H}
    IN  [deleteHeldToolCalls(d, H) EXCEPT
            !.obs = [e \in Entries |-> IF e \in E THEN d.obs[e] + 1 ELSE d.obs[e]]]

\* repairOrphanedToolUse and discardResolvedHeldCalls: the trailing tool_use is
\* answered in the buffer, so an `answered` row still carrying it is dropped.
repairOrphanedToolUse(d) ==
    IF orphan # None /\ d.hold[orphan].st = "answered"
    THEN deleteHeldToolCalls(d, {orphan}) ELSE d

\* chat: heal, refuse while a call of the human's waits, else start the loop.
Chat ==
    /\ turn.pc = "idle"
    /\ LET d1 == healCrashedDispatchHolds(Reaped(db))
           d2 == repairOrphanedToolUse(d1)
       IN  \/ /\ UnresolvedHuman(d1) # {}
              /\ db' = d1 /\ UNCHANGED <<turn, orphan>>
           \/ /\ UnresolvedHuman(d1) = {}
              /\ \E s \in ActiveCandidates(d2) : db' = resolveActiveSession(d2, s)
              /\ turn' = LoopTurn("chat", None)
              /\ orphan' = None
    /\ UNCHANGED ran

\* commissionGoal's admission: repair the runs a crash left `running`, expire
\* the ones whose session ended, count the rest against the cap.
ReconciledRuns(d) ==
    expireRuns(RepairRuns(d, Runs),
               {r \in Runs : d.run[r].status # "running" /\ d.run[r].sess # None
                             /\ d.sess[d.run[r].sess] = "ended"})

PendingRuns(d) == {r \in Runs : d.run[r].status \in NonTerminal}

\* Wrong: one run too many.
AtCapOffByOne(d) == Cardinality(PendingRuns(d)) > MaxPending

AtCap(d) == Cardinality(PendingRuns(d)) >= MaxPending

\* commissionGoal: refuse at the cap, else record the run and start its loop.
CommissionGoal(r, slot) ==
    /\ turn.pc = "idle"
    /\ db.run[r].status = "unborn"
    /\ LET d == ReconciledRuns(Reaped(db))
       IN  \/ /\ AtCap(d)
              /\ db' = d /\ UNCHANGED turn
           \/ /\ ~AtCap(d)
              /\ \E s \in ActiveCandidates(d) :
                    db' = insertCommissionRun(resolveActiveSession(d, s), r, s, slot)
              /\ turn' = LoopTurn("commission", r)
    /\ UNCHANGED <<orphan, ran>>

\* The dev execute route: one call, no conversation.
executeToolDirect(tool) ==
    turn.pc = "idle" /\ ExecuteTool(db, LoopTurn("direct", None), tool)

\* The model asked for a tool, or the resume drains a call parked behind the
\* held one.
LoopCallsTool(tool) ==
    /\ turn.pc = "llm"
    /\ turn.calls < MaxToolCalls
    /\ ExecuteTool(db, [turn EXCEPT !.calls = @ + 1], tool)

LoopFinishes == turn.pc = "llm" /\ EndFinished(db, turn) /\ UNCHANGED ran

\* Wrong: the marker is not cleared on the error path.
LoopThrowsKeepsGate ==
    /\ turn.pc = "llm"
    /\ turn' = [turn EXCEPT !.pc = "thrown"]
    /\ UNCHANGED <<db, orphan, ran>>

\* createMessage threw. The buffer is rolled back; a fresh commission fails,
\* a resume keeps its `answered` row for a retry.
LoopThrows ==
    /\ turn.pc = "llm"
    /\ db' = IF turn.op = "commission"
             THEN updateCommissionStatus(db, turn.run, "failed") ELSE db
    /\ turn' = Idle
    /\ orphan' = IF turn.run = None /\ orphan # turn.hold THEN None ELSE orphan
    /\ UNCHANGED ran

-----------------------------------------------------------------------------
(* resolveConfirmation.                                                    *)

\* The turn that resolves hold h, as loaded before the gate.
ResolveTurn(h) ==
    [LoopTurn("resolve", db.hold[h].run) EXCEPT
        !.hold = h, !.entry = db.hold[h].entry, !.direct = db.hold[h].direct,
        !.tool = db.hold[h].tool]

\* The row already carries its answer: only the resume is retried.
ResolveAnswered(h) ==
    /\ turn.pc = "idle" /\ Loadable(db, h) /\ db.hold[h].st = "answered"
    /\ Resume(db, ResolveTurn(h))
    /\ UNCHANGED ran

\* A crash after the dispatch: close the entry and record the answer in one
\* transaction, never send the call again.
ResolveDispatched(h) ==
    /\ turn.pc = "idle" /\ Loadable(db, h) /\ db.hold[h].st = "dispatched"
    /\ Resume(SetTurnState(CloseObserved(db, db.hold[h].entry), h, "answered"),
              ResolveTurn(h))
    /\ UNCHANGED ran

\* A parked row a user answers.
Answerable(h) ==
    /\ Loadable(db, h) /\ db.hold[h].st = "parked"
    /\ db.hold[h].kind = "input" => AnswersInput

\* Choice "deny". The closer and the `answered` mark are two writes: a fault
\* between them ("split_close") keeps the first only.
ResolveDeny(h) ==
    /\ turn.pc = "idle" /\ Answerable(h)
    /\ LET closed == CloseObserved(db, db.hold[h].entry)
       IN  \/ Resume(SetTurnState(closed, h, "answered"), ResolveTurn(h))
           \/ FaultAfterClose(closed)
    /\ UNCHANGED ran

\* An affirmative choice: "task" or "session" on an ordinary hold,
\* "approve_once" on a spending one. A money verb over its cap is held again
\* (unless this very breach was just approved); anything else is marked
\* `dispatched` and sent.
ResolveApprove(h, session) ==
    /\ turn.pc = "idle" /\ Answerable(h)
    /\ session => ~db.hold[h].spend
    /\ LET row == db.hold[h]
           d == IF session THEN [db EXCEPT !.grants = @ \cup {<<row.sess, row.tool>>}]
                ELSE db
       IN  \/ /\ row.tool \in SpendTools
              /\ \E e \in Entries \ db.opened :
                    db' = updateCommissionStatus(reholdForSpend(d, h, e), row.run,
                                                 "awaiting_confirmation")
              /\ UNCHANGED <<turn, ran>>
           \/ /\ db' = SetTurnState(d, h, "dispatched")
              /\ turn' = [ResolveTurn(h) EXCEPT !.pc = "hold"]
              /\ ran' = [ran EXCEPT ![h] = @ + 1]
    /\ UNCHANGED orphan

\* dispatchTool of a confirmed call returned: writeOutcomeWithSpend closes the
\* entry and records `answered` in one transaction, then the turn resumes.
HeldCallReturns ==
    /\ turn.pc = "hold"
    /\ Resume(SetTurnState(CloseObserved(db, turn.entry), turn.hold, "answered"), turn)
    /\ UNCHANGED ran

\* That transaction threw and rolled back: the row still reads `dispatched`.
HeldOutcomeWriteFails ==
    /\ turn.pc = "hold"
    /\ turn' = Idle
    /\ UNCHANGED <<db, orphan, ran>>

-----------------------------------------------------------------------------
(* Task operations.                                                        *)

\* provideTaskInput: bind the value, mark the row `dispatched`, re-attempt the
\* parked call through executeTool. `complete` says whether every required
\* slot is now bound.
ProvideTaskInput(r, h, complete) ==
    /\ turn.pc = "idle"
    /\ LET d == Reaped(db)
           bound == SetTurnState(clearNeedsInput(updateRunData(d, r, complete), r),
                                 h, "dispatched")
       IN  /\ d.run[r].status = "needs_input"
           /\ h \in selectInputHoldForTask(d, r)
           /\ ExecuteTool(bound,
                  [LoopTurn("provide", r) EXCEPT !.hold = h,
                      !.entry = d.hold[h].entry, !.direct = d.hold[h].direct],
                  d.hold[h].tool)

\* Wrong: the task's holds stay approvable.
CancelTaskKeepsHolds(r) ==
    /\ turn.pc = "idle"
    /\ Reaped(db).run[r].status \in {"awaiting_confirmation", "needs_input"}
    /\ db' = cancelRun(Reaped(db), r)
    /\ UNCHANGED <<turn, orphan, ran>>

\* cancelTask: refused while a resolve owns one of the holds, else the holds,
\* their entries and the status go in one transaction.
CancelTask(r) ==
    /\ turn.pc = "idle"
    /\ LET d == Reaped(db)
           H == selectHeldCallsForRun(d, r)
       IN  /\ d.run[r].status \in {"awaiting_confirmation", "needs_input"}
           /\ \A h \in H : ~HasResolution(d, h)
           /\ db' = cancelRun(SweepHolds(d, H), r)
    /\ UNCHANGED <<turn, orphan, ran>>

\* amendTask: merge values into the data of a run still waiting for input.
AmendTask(r, complete) ==
    /\ turn.pc = "idle"
    /\ LET d == Reaped(db)
       IN  /\ d.run[r].status = "needs_input"
           /\ db' = updateRunData(d, r, complete)
    /\ UNCHANGED <<turn, orphan, ran>>

-----------------------------------------------------------------------------
(* Handlers that do not take the gate.                                     *)

\* readCommissionRun: reap, repair an unowned `running` run, expire a run
\* whose session ended.
ReadCommissionRun(r) ==
    /\ LET d1 == Reaped(db)
           d2 == IF turn.pc = "idle" THEN RepairRuns(d1, {r}) ELSE d1
           s  == d2.run[r].sess
       IN  /\ db' = IF s # None /\ d2.sess[s] = "ended" THEN expireRuns(d2, {r}) ELSE d2
           /\ turn' = Sever(turn, db, d1)
    /\ UNCHANGED <<orphan, ran>>

\* getActiveSession, readStatus, listTasks and every other read that reaps.
ReadReaps ==
    /\ db' = Reaped(db) /\ turn' = Sever(turn, db, Reaped(db))
    /\ UNCHANGED <<orphan, ran>>

\* startSession: refused while a session is open, else mints one.
StartSession ==
    /\ LET d == Reaped(db)
       IN  /\ IF selectOpenSessions(d) # {} THEN db' = d
              ELSE \E s \in ActiveCandidates(d) : db' = resolveActiveSession(d, s)
           /\ turn' = Sever(turn, db, d)
    /\ UNCHANGED <<orphan, ran>>

\* endSession("quit").
EndSession ==
    /\ LET d == Reaped(db)
           d2 == EndSessions(d, selectOpenSessions(d) \cap ActiveCandidates(d))
       IN  db' = d2 /\ turn' = Sever(turn, db, d2)
    /\ UNCHANGED <<orphan, ran>>

\* killSwitch. TX1 deletes every grant and hold and always commits; TX2 writes
\* the outcomes and ends the sessions, and a fault in it is swallowed.
KillSwitch(auditLost) ==
    /\ auditLost => "kill_audit" \in Faults
    /\ LET H == selectHeldCalls(db)
           tx1 == [deleteHeldToolCalls(db, H) EXCEPT !.grants = {}]
           tx2 == [EndSessions(SweepHolds(db, H), selectOpenSessions(db))
                       EXCEPT !.grants = {}]
       IN  db' = IF auditLost THEN tx1 ELSE tx2
    /\ turn' = [turn EXCEPT !.severed = turn.pc # "idle"]
    /\ UNCHANGED <<orphan, ran>>

-----------------------------------------------------------------------------
(* The environment.                                                        *)

\* The wall clock passes session s's cap, and so every older session's.
SessionAges(s) ==
    /\ db.sess[s] # "none" /\ s \notin db.aged
    /\ db' = [db EXCEPT !.aged = @ \cup {u \in Sessions : u <= s}]
    /\ UNCHANGED <<turn, orphan, ran>>

\* The isolate dies: memory is lost, the store survives.
Crash ==
    /\ turn.pc # "idle" \/ orphan # None
    /\ turn' = Idle /\ orphan' = None
    /\ UNCHANGED <<db, ran>>

Next ==
    \/ Chat
    \/ \E r \in Runs, slot \in BOOLEAN : CommissionGoal(r, slot)
    \/ \E tool \in Tools : executeToolDirect(tool) \/ LoopCallsTool(tool)
    \/ LoopFinishes \/ LoopThrows \/ ScopesRead \/ ToolReturns
    \/ \E h \in Entries : \/ ResolveAnswered(h) \/ ResolveDispatched(h)
                          \/ ResolveDeny(h)
                          \/ \E session \in BOOLEAN : ResolveApprove(h, session)
    \/ HeldCallReturns \/ HeldOutcomeWriteFails
    \/ \E r \in Runs, h \in Entries, b \in BOOLEAN : ProvideTaskInput(r, h, b)
    \/ \E r \in Runs : \/ CancelTask(r) \/ ReadCommissionRun(r)
                       \/ \E b \in BOOLEAN : AmendTask(r, b)
    \/ ReadReaps \/ StartSession \/ EndSession
    \/ \E lost \in BOOLEAN : KillSwitch(lost)
    \/ \E s \in Sessions : SessionAges(s)
    \/ Crash

Spec == Init /\ [][Next]_vars

\* Every await of a turn completes or throws (the LLM request has a timeout,
\* a fetch fails), the clock moves on, and something reads the agent.
LoopStep == LoopFinishes \/ LoopThrows \/ \E tool \in Tools : LoopCallsTool(tool)

FairSpec == /\ Spec
            /\ WF_vars(LoopStep) /\ WF_vars(ScopesRead) /\ WF_vars(ToolReturns)
            /\ WF_vars(HeldCallReturns \/ HeldOutcomeWriteFails)
            /\ WF_vars(ReadReaps)
            /\ \A s \in Sessions : WF_vars(SessionAges(s))

-----------------------------------------------------------------------------
(* Properties.                                                             *)

InFlight == turn.pc # "idle"

\* The audit log closes each pending decision at most once, whatever the order
\* of resolve, provide, cancel, quit, kill, reap and crash
\* (closeDecisionEntryInTxn, turnStateHasResolution).
ClosedOnce == \A e \in Entries : db.obs[e] + db.inf[e] <= 1

\* A parked row's decision is still open: nothing a user can still approve has
\* already been recorded as decided.
ParkedIsOpen ==
    \A h \in selectHeldCalls(db) :
        db.hold[h].st = "parked" => ~hasCloser(db, db.hold[h].entry)

\* The call behind a hold is sent to its tool at most once, through retries of
\* a resolve, crashes after the dispatch, heals and re-provided input.
SentOnce == \A h \in Entries : ran[h] <= 1

\* The decision trail of held calls: no decision is closed twice, nothing that
\* was decided can still be approved, and no approved call is sent twice,
\* whatever the order of resolve, provide, cancel, quit, kill, reap and crash.
DecisionsSound == ClosedOnce /\ ParkedIsOpen /\ SentOnce

\* An entry that is open and accounted for (its row exists, or the turn in
\* flight owns it) stays accounted for until it is closed. The two accepted
\* exceptions: its call had already been dispatched (an open entry beats a
\* fictional one), and a kill whose audit transaction was lost.
Tracked(e) == \/ \E h \in selectHeldCalls(db) : db.hold[h].entry = e
              \/ InFlight /\ turn.entry = e

Dispatched(e) == \/ \E h \in selectHeldCalls(db) : db.hold[h].entry = e /\ HasResolution(db, h)
                 \/ InFlight /\ turn.entry = e

NoSilentDrop ==
    [][\A e \in Entries :
         (Tracked(e) /\ ~Tracked(e)' /\ db'.obs[e] + db'.inf[e] = 0)
             => Dispatched(e) \/ KillSwitch(TRUE)]_vars

\* A task's terminal status is final, although quit, kill and reap write it
\* under a turn that will still report its own outcome.
TerminalIsFinal ==
    [][\A r \in Runs : db.run[r].status \in Terminal
                            => db'.run[r].status = db.run[r].status]_vars

\* A run that is not terminal belongs to a session that is still open: no
\* order of session ends and status writes leaves a task waiting on a session
\* nobody will close again.
LiveRunHasOpenSession ==
    \A r \in Runs : db.run[r].status \in NonTerminal
                        => db.run[r].sess # None /\ db.sess[db.run[r].sess] = "open"

\* The pending queue is bounded, crash orphans included.
PendingBounded == Cardinality(PendingRuns(db)) <= MaxPending

\* A cancelled task is inert: no row of it can be approved later and no turn
\* of it is running.
CancelledIsInert ==
    \A r \in Runs : db.run[r].status = "cancelled"
        => selectHeldCallsForRun(db, r) = {} /\ ~(InFlight /\ turn.run = r)

\* Tasks and sessions agree, whichever of quit, kill, reap and cancel strikes
\* under a running turn: a live task has an open session and a cancelled one
\* has neither a row nor a turn.
TasksSound == LiveRunHasOpenSession /\ CancelledIsInert

\* Once a session ends or kill strikes during a turn, the rest of that turn
\* sends no further call on a standing grant: it can only ask again. (A turn cut
\* off while executeTool awaits the scopes of a scoped verb can send that call.)
SeveredTurnSendsNothing ==
    [][turn.severed /\ turn'.pc = "tool" => turn.pc = "tool"]_vars

\* A held row's session is open, so the session's end will sweep it
\* (endSessionRowInTxn: "else a parked call stays approvable against a dead
\* session"). A verb whose scopes are read first can be parked on a session
\* that ended during the read.
HoldOnOpenSession ==
    \A h \in selectHeldCalls(db) : db.sess[db.hold[h].sess] = "open"

\* A run that counts against the cap at the next admission can still move: a
\* hold of it survives (commissionGoal: "a stranded or truly-failed run never
\* consumes a slot").
CountedRunHasHold ==
    ~InFlight =>
        LET d == ReconciledRuns(Reaped(db))
        IN  \A r \in PendingRuns(d) : selectHeldCallsForRun(d, r) # {}

\* A commissioned call with a required slot is not sent before the client
\* supplied the value (executeTool's required-slot gate).
NoUnboundSend ==
    (turn.pc \in {"tool", "hold"} /\ turn.run # None /\ turn.tool \in SlotTools)
        => db.run[turn.run].slot

\* Every turn gives the gate back.
TurnEnds == InFlight ~> ~InFlight

\* No row stays in held_tool_calls for ever: it is resolved, cancelled, or its
\* session's end sweeps it.
HoldLeaves == \A h \in Entries : db.hold[h].st # "absent" ~> db.hold[h].st = "absent"
=============================================================================
