---------------------------- MODULE Conversation ----------------------------
(***************************************************************************)
(* The conversation loop (packages/engine/src/llm/conversation.ts) and the *)
(* buffer it works on: the human's shared one of user-agent.ts, or a       *)
(* commission's own. What UserAgent abstracts to an orphaned tool_use is   *)
(* here the list of messages itself, because the provider refuses a list   *)
(* in which a tool_use is not answered by the very next message.           *)
(*                                                                         *)
(* Messages keep their role and the ids of their tool_use or tool_result   *)
(* blocks; wording, usage and fencing are left out. A model client is its  *)
(* outcome: some blocks and a stop reason, or a throw.                     *)
(***************************************************************************)
EXTENDS Integers, Sequences

CONSTANTS Rows,      \* held_tool_calls rows
          MaxUses,   \* bound: tool_use blocks ever emitted
          MaxIter,   \* MAX_ITERATIONS
          MaxTurns,  \* bound: chats and commissions begun
          NoRow

ASSUME ConvAssumption == MaxUses \in Nat /\ MaxIter \in Nat /\ MaxTurns \in Nat /\ NoRow \notin Rows

VARIABLES cvBuf,    \* conversationMessages
          cvTurn,   \* the turn behind the gate
          cvHold,   \* the held rows with their turn_state
          cvUses,   \* tool_use ids given out
          cvTurns   \* turns begun

cvVars == <<cvBuf, cvTurn, cvHold, cvUses, cvTurns>>

Uses == 1..MaxUses

Message == [kind: {"user", "text", "use", "results", "hole"}, ids: SUBSET Uses]

Msg(kind, ids) == [kind |-> kind, ids |-> ids]

\* Tool-call records of a turn: the id, and whether it still reads `held`.
Record == Uses \X BOOLEAN

IdleTurn == [pc |-> "idle", shared |-> TRUE, own |-> <<>>, roll |-> 0, iter |-> 0,
             todo |-> <<>>, done |-> {}, row |-> NoRow, recs |-> <<>>]

NoHold == [st |-> "none", shared |-> TRUE, base |-> <<>>, held |-> 0, parked |-> <<>>,
           done |-> {}, iter |-> 0, recs |-> <<>>]

ConvTypeOK ==
    /\ cvBuf \in Seq(Message)
    /\ cvTurn \in [pc: {"idle", "llm", "tool", "send"}, shared: BOOLEAN, own: Seq(Message),
                   roll: Nat, iter: 0..MaxIter, todo: Seq(Uses), done: SUBSET Uses,
                   row: Rows \cup {NoRow}, recs: Seq(Record)]
    /\ cvHold \in [Rows -> [st: {"none", "parked", "dispatched", "answered", "gone"},
                            shared: BOOLEAN, base: Seq(Message), held: 0..MaxUses,
                            parked: Seq(Uses), done: SUBSET Uses, iter: 0..MaxIter,
                            recs: Seq(Record)]]
    /\ cvUses \in 0..MaxUses /\ cvTurns \in 0..MaxTurns

ConvInit ==
    /\ cvBuf = <<>> /\ cvTurn = IdleTurn
    /\ cvHold = [h \in Rows |-> NoHold]
    /\ cvUses = 0 /\ cvTurns = 0

Messages(t) == IF t.shared THEN cvBuf ELSE t.own

\* The turn goes on as t with the message list m.
GoesOn(t, m) ==
    /\ cvTurn' = IF t.shared THEN t ELSE [t EXCEPT !.own = m]
    /\ cvBuf' = IF t.shared THEN m ELSE cvBuf

\* The gate opens; a shared buffer keeps the list m.
Ends(t, m) == cvTurn' = IdleTurn /\ cvBuf' = IF t.shared THEN m ELSE cvBuf

Gone(hold, H) == [h \in Rows |-> IF h \in H THEN [hold[h] EXCEPT !.st = "gone"] ELSE hold[h]]

\* A resume that returned drops the row it came from.
Finalized(t) == Gone(cvHold, {t.row} \cap Rows)

-----------------------------------------------------------------------------
(* Turns begin.                                                            *)

\* The tool_use ids of the last message, when it is an assistant's.
Trailing(m) == IF m # <<>> /\ m[Len(m)].kind = "use" THEN m[Len(m)].ids ELSE {}

\* repairOrphanedToolUse: synthetic results for a trailing tool_use.
Repaired(m) == IF Trailing(m) # {} THEN Append(m, Msg("results", Trailing(m))) ELSE m

\* discardResolvedHeldCalls.
Discarded(hold, ids) == Gone(hold, {h \in Rows : hold[h].st = "answered" /\ hold[h].held \in ids})

\* chat: stranded dispatches are healed; a call that waits for the human
\* refuses the message; otherwise the buffer is repaired and the loop entered.
ConvChat ==
    /\ cvTurn.pc = "idle" /\ cvTurns < MaxTurns
    /\ LET healed == Gone(cvHold, {h \in Rows : cvHold[h].shared /\ cvHold[h].st = "dispatched"})
       IN  IF \E h \in Rows : healed[h].shared /\ healed[h].st = "parked"
           THEN cvHold' = healed /\ UNCHANGED <<cvTurn, cvBuf, cvTurns>>
           ELSE /\ cvHold' = Discarded(healed, Trailing(cvBuf))
                /\ cvTurns' = cvTurns + 1
                /\ GoesOn([IdleTurn EXCEPT !.pc = "llm", !.roll = Len(Repaired(cvBuf))],
                          Append(Repaired(cvBuf), Msg("user", {})))
    /\ UNCHANGED cvUses

\* commissionGoal: the same loop on a buffer of its own.
ConvCommission ==
    /\ cvTurn.pc = "idle" /\ cvTurns < MaxTurns
    /\ cvTurns' = cvTurns + 1
    /\ GoesOn([IdleTurn EXCEPT !.pc = "llm", !.shared = FALSE], <<Msg("user", {})>>)
    /\ UNCHANGED <<cvHold, cvUses>>

-----------------------------------------------------------------------------
(* The loop.                                                               *)

\* The assistant's message: a reply without blocks becomes a line of text, since
\* the provider refuses an empty one.
AssistantMessage(ids) == IF ids # {} THEN Msg("use", ids) ELSE Msg("text", {})

\* createMessage answered with n tool_use blocks. Without any, or under
\* another stop reason, the turn is over; else its calls are executed in order.
ModelAnswers(n, toolUse) ==
    /\ cvTurn.pc = "llm" /\ cvTurn.iter < MaxIter
    /\ cvUses + n <= MaxUses
    /\ cvUses' = cvUses + n
    /\ LET ids == {cvUses + i : i \in 1..n}
           m == Append(Messages(cvTurn), AssistantMessage(ids))
       IN  IF toolUse /\ n > 0
           THEN /\ GoesOn([cvTurn EXCEPT !.pc = "tool", !.iter = @ + 1, !.done = {},
                                         !.todo = [i \in 1..n |-> cvUses + i]], m)
                /\ UNCHANGED cvHold
           ELSE Ends(cvTurn, m) /\ cvHold' = Finalized(cvTurn)
    /\ UNCHANGED cvTurns

\* `messages.length = k`: a longer list is cut, a shorter one gets holes.
Resized(m, k) == [i \in 1..k |-> IF i <= Len(m) THEN m[i] ELSE Msg("hole", {})]

\* createMessage threw: the list is cut to where it was when the loop was
\* entered. A held row stays, with its answer.
ModelThrows ==
    /\ cvTurn.pc = "llm" /\ cvTurn.iter < MaxIter
    /\ Ends(cvTurn, Resized(Messages(cvTurn), cvTurn.roll))
    /\ UNCHANGED <<cvHold, cvUses, cvTurns>>

\* The iteration budget is spent: the turn ends without another call.
LoopExhausted ==
    /\ cvTurn.pc = "llm" /\ cvTurn.iter = MaxIter
    /\ Ends(cvTurn, Messages(cvTurn)) /\ cvHold' = Finalized(cvTurn)
    /\ UNCHANGED <<cvUses, cvTurns>>

\* Once no call is left, the results go back in one message.
AfterAnswer(t, m) ==
    IF t.todo = <<>> THEN GoesOn([t EXCEPT !.pc = "llm"], Append(m, Msg("results", t.done)))
    ELSE GoesOn([t EXCEPT !.pc = "tool"], m)

\* executeTool returned an outcome: executed, failed or refused, it is the
\* call's result.
ToolAnswers ==
    /\ cvTurn.pc = "tool"
    /\ LET u == Head(cvTurn.todo)
       IN  AfterAnswer([cvTurn EXCEPT !.todo = Tail(@), !.done = @ \cup {u},
                                      !.recs = Append(@, <<u, FALSE>>)], Messages(cvTurn))
    /\ UNCHANGED <<cvHold, cvUses, cvTurns>>

\* Wrong: the calls behind the held one are forgotten.
ParksHeadOnly(t, m) ==
    [NoHold EXCEPT !.st = "parked", !.shared = t.shared, !.base = m, !.held = Head(t.todo),
                   !.done = t.done, !.iter = t.iter, !.recs = Append(t.recs, <<Head(t.todo), TRUE>>)]

\* The turn state persistHeldTurn writes: the list, this call, the ones behind
\* it, the results so far.
HeldTurnState(t, m) ==
    [st |-> "parked", shared |-> t.shared, base |-> m, held |-> Head(t.todo),
     parked |-> Tail(t.todo), done |-> t.done, iter |-> t.iter,
     recs |-> Append(t.recs, <<Head(t.todo), TRUE>>)]

\* executeTool parked the call: the turn ends, its list left as it stands.
ToolHolds(h) ==
    /\ cvTurn.pc = "tool" /\ cvHold[h].st = "none"
    /\ cvHold' = [Finalized(cvTurn) EXCEPT ![h] = HeldTurnState(cvTurn, Messages(cvTurn))]
    /\ Ends(cvTurn, Messages(cvTurn))
    /\ UNCHANGED <<cvUses, cvTurns>>

-----------------------------------------------------------------------------
(* Resuming a held turn.                                                   *)

\* The stale `held` record is replaced by the outcome.
Resolved(recs, u) == [i \in DOMAIN recs |-> IF recs[i] = <<u, TRUE>> THEN <<u, FALSE>> ELSE recs[i]]

\* resumeHeldTurn and answerAndDrainParkedCalls: the list is rebuilt from the
\* row, the calls parked behind the held one are executed before the model is
\* asked again. The length to roll back to is the one found, not the row's.
ResumeTurn(h) ==
    LET s == cvHold[h]
    IN  AfterAnswer([IdleTurn EXCEPT !.shared = s.shared, !.row = h, !.iter = s.iter,
                        !.roll = IF s.shared THEN Len(cvBuf) ELSE 0,
                        !.todo = s.parked, !.done = s.done \cup {s.held},
                        !.recs = Resolved(s.recs, s.held)], s.base)

Answered(h) == cvHold' = [cvHold EXCEPT ![h].st = IF @ = "gone" THEN @ ELSE "answered"]

\* A denial answers the call at once; so does the retry of a resume that threw,
\* and the recovery of a call whose answer was lost with a crash.
ConvResolve(h) ==
    /\ cvTurn.pc = "idle" /\ cvHold[h].st \in {"parked", "dispatched", "answered"}
    /\ Answered(h) /\ ResumeTurn(h)
    /\ UNCHANGED <<cvUses, cvTurns>>

\* An approval marks the row and sends the call.
ConvApprove(h) ==
    /\ cvTurn.pc = "idle" /\ cvHold[h].st = "parked"
    /\ cvHold' = [cvHold EXCEPT ![h].st = "dispatched"]
    /\ cvTurn' = [IdleTurn EXCEPT !.pc = "send", !.row = h]
    /\ UNCHANGED <<cvBuf, cvUses, cvTurns>>

\* The tool answered: the row carries it, if it is still there, and the turn
\* goes on either way.
SendReturns ==
    /\ cvTurn.pc = "send"
    /\ Answered(cvTurn.row) /\ ResumeTurn(cvTurn.row)
    /\ UNCHANGED <<cvUses, cvTurns>>

\* A session end, a reap or kill takes the row away, in or out of a turn.
ConvSweep(h) ==
    /\ cvHold[h].st \in {"parked", "dispatched", "answered"}
    /\ cvHold' = Gone(cvHold, {h})
    /\ UNCHANGED <<cvBuf, cvTurn, cvUses, cvTurns>>

\* The object is evicted, or the daemon restarts: memory is gone.
ConvRestart ==
    /\ cvBuf' = <<>> /\ cvTurn' = IdleTurn
    /\ UNCHANGED <<cvHold, cvUses, cvTurns>>

ConvNext ==
    \/ ConvChat \/ ConvCommission \/ ModelThrows \/ LoopExhausted
    \/ \E n \in 0..2, toolUse \in BOOLEAN : ModelAnswers(n, toolUse)
    \/ ToolAnswers \/ SendReturns \/ ConvRestart
    \/ \E h \in Rows : ToolHolds(h) \/ ConvResolve(h) \/ ConvApprove(h) \/ ConvSweep(h)

ConvSpec == ConvInit /\ [][ConvNext]_cvVars

-----------------------------------------------------------------------------
\* What the provider accepts, over the messages that exist: a tool_use is
\* answered in full by the next message, and results answer nothing else.
Acceptable(m) ==
    /\ m # <<>> /\ m[1].kind \in {"user", "hole"}
    /\ \A i \in 1..Len(m) :
         /\ m[i].kind = "use" => i < Len(m) /\ m[i + 1] = Msg("results", m[i].ids)
         /\ m[i].kind = "results" => i > 1 /\ m[i - 1] = Msg("use", m[i].ids)

\* Every request the loop sends is acceptable: through holds, cascades,
\* denials, sweeps, throws, restarts and retries, no tool_use is left
\* unanswered or answered twice, which would make every later turn of the
\* conversation fail.
RequestsValid == cvTurn.pc = "llm" /\ cvTurn.iter < MaxIter => Acceptable(Messages(cvTurn))

\* A turn has one record per tool_use across all its resumes, and only the
\* call that waits reads `held`.
OneRecordPerCall ==
    /\ \A i, j \in DOMAIN cvTurn.recs : cvTurn.recs[i][1] = cvTurn.recs[j][1] => i = j
    /\ \A i \in DOMAIN cvTurn.recs : ~cvTurn.recs[i][2]
    /\ \A h \in Rows : \A i \in DOMAIN cvHold[h].recs :
         cvHold[h].recs[i][2] <=> cvHold[h].recs[i][1] = cvHold[h].held

\* The conversation can go on: what is sent to the model is well formed and the
\* records of a turn are one per call, through every hold, resume and restart.
ConversationSound == ConvTypeOK /\ RequestsValid /\ OneRecordPerCall

\* "Rollback messages to pre-call state so next chat() isn't corrupted": the
\* buffer never has an element that is no message.
RollbackKeepsMessages == \A i \in DOMAIN cvBuf : cvBuf[i].kind # "hole"
=============================================================================
