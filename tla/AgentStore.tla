----------------------------- MODULE AgentStore -----------------------------
(***************************************************************************)
(* The durable half of the UserAgent Durable Object: the SQLite tables     *)
(* session_state, commission_runs, held_tool_calls, policy_entries and the *)
(* decision entries of audit_log, with the writes the handlers compose.    *)
(*                                                                         *)
(* A database value d is a record:                                         *)
(*   d.sess    the life of each session row: not yet minted, open, ended   *)
(*   d.aged    sessions whose started_at is more than SESSION_LIFETIME_MS  *)
(*             in the past (the wall clock, seen through the one comparison*)
(*             the code makes with it)                                     *)
(*   d.run     commission_runs: status, session, and whether the run's     *)
(*             data map supplies the required slot                         *)
(*   d.hold    held_tool_calls, one record per row ("absent" = no row)     *)
(*   d.opened  the pending decision entries written so far                 *)
(*   d.obs     closers written on an entry because an outcome was observed *)
(*   d.inf     closers written on an entry because a sweep inferred one    *)
(*   d.grants  session grants, as <<session, tool>>                        *)
(*                                                                         *)
(* Hold ids and pending audit entry ids are drawn from one set, Entries:   *)
(* a hold's id is the id of the entry it was parked with.                  *)
(*                                                                         *)
(* Definitions marked "Wrong" are never used by the specification: each is *)
(* a plausible mistake in the definition that follows it, kept to show     *)
(* that the properties can fail.                                           *)
(***************************************************************************)
EXTENDS Integers, FiniteSets

CONSTANTS
    Sessions,     \* session ids, numbered in the order they are minted
    Runs,         \* commission run (task) ids
    Entries,      \* pending audit entry ids, also used as hold ids
    Tools,        \* the tools the model may call
    SlotTools,    \* tools with a required data slot
    ScopedTools,  \* tools with requiredScopes: executeTool awaits a decrypt
    SpendTools,   \* money verbs
    None

ASSUME SessionsAssumption == Sessions \subseteq Nat
ASSUME ToolsAssumption ==
    SlotTools \subseteq Tools /\ ScopedTools \subseteq Tools /\ SpendTools \subseteq Tools
ASSUME NoneAssumption ==
    None \notin Sessions \cup Runs \cup Entries \cup Tools

NonTerminal == {"running", "awaiting_confirmation", "needs_input"}
Terminal == {"completed", "denied", "failed", "expired", "cancelled"}
RunStatus == {"unborn"} \cup NonTerminal \cup Terminal

Row == [st: {"absent", "parked", "dispatched", "answered"},
        kind: {"confirmation", "input"},
        spend: BOOLEAN,                  \* spend_context is set
        direct: BOOLEAN,                 \* directExecute: no turn to resume
        tool: Tools \cup {None},
        run: Runs \cup {None},
        sess: Sessions \cup {None},
        entry: Entries \cup {None}]      \* pending_audit_entry_id

NoRow == [st |-> "absent", kind |-> "confirmation", spend |-> FALSE,
          direct |-> FALSE, tool |-> None, run |-> None, sess |-> None,
          entry |-> None]

Database == [sess: [Sessions -> {"none", "open", "ended"}],
             aged: SUBSET Sessions,
             run: [Runs -> [status: RunStatus, sess: Sessions \cup {None},
                            slot: BOOLEAN]],
             hold: [Entries -> Row],
             opened: SUBSET Entries,
             obs: [Entries -> Nat],
             inf: [Entries -> Nat],
             grants: SUBSET (Sessions \X Tools)]

EmptyDatabase == [sess |-> [s \in Sessions |-> "none"],
                  aged |-> {},
                  run |-> [r \in Runs |-> [status |-> "unborn", sess |-> None,
                                           slot |-> FALSE]],
                  hold |-> [h \in Entries |-> NoRow],
                  opened |-> {},
                  obs |-> [e \in Entries |-> 0],
                  inf |-> [e \in Entries |-> 0],
                  grants |-> {}]

-----------------------------------------------------------------------------
(* Reads.                                                                  *)

selectHeldCalls(d) == {h \in Entries : d.hold[h].st # "absent"}

selectHeldCallsForRun(d, r) == {h \in selectHeldCalls(d) : d.hold[h].run = r}

selectInputHoldForTask(d, r) ==
    {h \in selectHeldCallsForRun(d, r) : d.hold[h].kind = "input"}

selectOpenSessions(d) == {s \in Sessions : d.sess[s] = "open"}

\* turnStateHasResolution: the resolve path owns the row's outcome.
HasResolution(d, h) == d.hold[h].st \in {"dispatched", "answered"}

hasCloser(d, e) == d.obs[e] + d.inf[e] > 0

\* loadHeldCall: a row is readable until its session's cap passes. The check
\* is on started_at alone, never on ended_at.
Loadable(d, h) == d.hold[h].st # "absent" /\ d.hold[h].sess \notin d.aged

\* unresolvedHeldCallIds over the human's own holds: what the chat guard sees.
UnresolvedHuman(d) ==
    {h \in selectHeldCalls(d) : /\ d.hold[h].run = None
                                /\ d.hold[h].st # "answered"
                                /\ Loadable(d, h)}

-----------------------------------------------------------------------------
(* Audit closers.                                                          *)

\* closeDecisionEntryInTxn, basis "observed": always writes.
CloseObserved(d, e) == [d EXCEPT !.obs = [d.obs EXCEPT ![e] = @ + 1]]

\* closeDecisionEntryInTxn, basis "inferred": skipped when a closer exists.
CloseInferred(d, E) ==
    [d EXCEPT !.inf = [e \in Entries |->
        IF e \in E /\ ~hasCloser(d, e) THEN d.inf[e] + 1 ELSE d.inf[e]]]

-----------------------------------------------------------------------------
(* held_tool_calls.                                                        *)

deleteHeldToolCalls(d, H) ==
    [d EXCEPT !.hold = [h \in Entries |-> IF h \in H THEN NoRow ELSE d.hold[h]]]

WithRow(d, h, row) == [d EXCEPT !.hold = [d.hold EXCEPT ![h] = row]]

\* storeHeldTurnState: an UPDATE, so nothing happens once the row is gone.
SetTurnState(d, h, st) ==
    IF d.hold[h].st = "absent" THEN d
    ELSE WithRow(d, h, [d.hold[h] EXCEPT !.st = st])

\* A new row and the pending entry it waits on.
Park(d, h, row) ==
    [WithRow(d, h, row) EXCEPT !.opened = @ \cup {h}]

\* The spend chain of resolveConfirmation: close the superseded entry, open a
\* new one, point the same row at it.
reholdForSpend(d, h, e) ==
    [WithRow(CloseObserved(d, d.hold[h].entry), h,
             [d.hold[h] EXCEPT !.entry = e, !.spend = TRUE])
        EXCEPT !.opened = @ \cup {e}]

\* Wrong: an outcome is inferred for rows a resolve owns, too.
SweepEveryHold(d, H) ==
    deleteHeldToolCalls(CloseInferred(d, {d.hold[h].entry : h \in H}), H)

\* What every teardown does to the holds it removes: an inferred outcome for
\* the ones still parked, none for the ones a resolve owns, then the delete.
SweepHolds(d, H) ==
    deleteHeldToolCalls(
        CloseInferred(d, {d.hold[h].entry : h \in {g \in H : ~HasResolution(d, g)}}),
        H)

-----------------------------------------------------------------------------
(* commission_runs: each UPDATE carries the statuses it may leave.         *)

MoveRuns(d, R, from, to) ==
    [d EXCEPT !.run = [r \in Runs |->
        IF r \in R /\ d.run[r].status \in from
        THEN [d.run[r] EXCEPT !.status = to] ELSE d.run[r]]]

insertCommissionRun(d, r, s, slot) ==
    [d EXCEPT !.run = [d.run EXCEPT ![r] =
        [status |-> "running", sess |-> s, slot |-> slot]]]

\* Wrong: no guard on the status the run leaves.
updateStatusUnguarded(d, r, to) ==
    MoveRuns(d, {r}, NonTerminal \cup Terminal, to)

updateCommissionStatus(d, r, to) ==
    MoveRuns(d, {r}, {"running", "awaiting_confirmation"}, to)

markNeedsInput(d, r) ==
    MoveRuns(d, {r}, {"running", "awaiting_confirmation"}, "needs_input")

clearNeedsInput(d, r) == MoveRuns(d, {r}, {"needs_input"}, "running")

cancelRun(d, r) ==
    MoveRuns(d, {r}, {"awaiting_confirmation", "needs_input"}, "cancelled")

expireRuns(d, R) == MoveRuns(d, R, NonTerminal, "expired")

\* updateRunData with a merged map: a supplied slot is never unbound again.
updateRunData(d, r, complete) ==
    [d EXCEPT !.run = [d.run EXCEPT ![r] = [d.run[r] EXCEPT !.slot = @ \/ complete]]]

\* Wrong: every unowned run is taken for a waiting one.
RepairRunsToAwaiting(d, R) ==
    MoveRuns(d, R, {"running"}, "awaiting_confirmation")

\* The crash repair of commissionGoal and readCommissionRun: a `running` run
\* that no turn owns is awaiting if a hold of it survives, failed otherwise.
RepairRuns(d, R) ==
    [d EXCEPT !.run = [r \in Runs |->
        IF r \in R /\ d.run[r].status = "running"
        THEN [d.run[r] EXCEPT !.status =
                 IF selectHeldCallsForRun(d, r) # {}
                 THEN "awaiting_confirmation" ELSE "failed"]
        ELSE d.run[r]]]

-----------------------------------------------------------------------------
(* Sessions.                                                               *)

\* Wrong: the holds of the session stay in the table.
EndSessionsKeepHolds(d, S) ==
    [expireRuns(d, {r \in Runs : d.run[r].sess \in S}) EXCEPT
        !.sess = [s \in Sessions |-> IF s \in S THEN "ended" ELSE d.sess[s]]]

\* Wrong: the holds go without an outcome on their entries.
EndSessionsNoOutcome(d, S) ==
    EndSessionsKeepHolds(
        deleteHeldToolCalls(d, {h \in selectHeldCalls(d) : d.hold[h].sess \in S}), S)

\* endSessionRowInTxn: sweep the holds, expire the runs, stamp ended_at.
EndSessions(d, S) ==
    LET swept == SweepHolds(d, {h \in selectHeldCalls(d) : d.hold[h].sess \in S})
        runs  == expireRuns(swept, {r \in Runs : d.run[r].sess \in S})
    IN  [runs EXCEPT !.sess = [s \in Sessions |->
            IF s \in S THEN "ended" ELSE d.sess[s]]]

\* reapExpiredSessions: end every open session past its cap.
Reaped(d) == EndSessions(d, selectOpenSessions(d) \cap d.aged)

\* The session resolveActiveSession returns: the newest open one, else the
\* next id to be minted (no candidate once the ids are used up).
ActiveCandidates(d) ==
    LET open  == selectOpenSessions(d)
        fresh == {s \in Sessions : d.sess[s] = "none"}
    IN  IF open # {} THEN {s \in open : \A u \in open : u <= s}
        ELSE {s \in fresh : \A u \in fresh : s <= u}

\* createSessionInTxn: the row of a new session.
createSession(d, s) == [d EXCEPT !.sess = [d.sess EXCEPT ![s] = "open"]]

\* resolveActiveSession: keep it and supersede any other, or mint it.
resolveActiveSession(d, s) ==
    IF s \in selectOpenSessions(d)
    THEN EndSessions(d, selectOpenSessions(d) \ {s})
    ELSE createSession(d, s)
=============================================================================
