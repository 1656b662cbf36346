------------------------------ MODULE Spending ------------------------------
(***************************************************************************)
(* Permission and spending of the money verb: the policy entries and their *)
(* evaluation, the spend stage of the governance pipeline, the spending    *)
(* holds of resolveConfirmation and the ledger (user-agent.ts,             *)
(* packages/governance, data/helpers/{policy-entries,spend-ledger,         *)
(* user-settings}.ts). The paid service is the mock merchant of            *)
(* packages/tools, which charges a quote once however often it is          *)
(* committed.                                                              *)
(*                                                                         *)
(* The gate admits one turn; what it runs before the dispatch is one step. *)
(* A quote stands for the quote id with the caller's idempotency key.      *)
(***************************************************************************)
EXTENDS Integers, FiniteSets, FiniteSetsExt

CONSTANTS Quotes,
          Cents,        \* the bound total of a quote, or NoPrice
          Asks,         \* held rows
          Limits,       \* the values a user gives a limit
          DefaultLimit, \* of both windows
          MaxSession, MaxMonth, MaxChanges,  \* bound: sessions, months, changes of a limit
          NoPrice, NoAsk, NoContext

ASSUME SpendAssumption ==
    /\ Cents \in [Quotes -> Nat \cup {NoPrice}]
    /\ Limits \subseteq Nat /\ DefaultLimit \in Limits
    /\ MaxSession \in Nat /\ MaxMonth \in Nat /\ MaxChanges \in Nat

VARIABLES
    spLimit,    \* user_settings: the two limits
    spLedger,   \* spend_ledger
    spEntries,  \* policy_entries
    spHold,     \* held_tool_calls of the money verb
    spTurn,     \* the dispatch in flight
    spNow,      \* the active session, the month, and the changes made
    spPaid,     \* at the merchant: the orders committed
    spLost,     \* history: the record of some order was lost
    spUses      \* history: dispatches on the authority of one hold (up to 2)

spVars == <<spLimit, spLedger, spEntries, spHold, spTurn, spNow, spPaid, spLost, spUses>>

Windows == {"session", "month"}

Spend == [quote: Quotes, session: 0..MaxSession, month: 0..MaxMonth]

\* Only a priced order reaches the ledger.
Priced == {r \in Spend : Cents[r.quote] # NoPrice}

Total(rows) == MapThenSumSet(LAMBDA r : Cents[r.quote], rows)

\* What a hold shows: the limits passed, each with the total of some orders.
Context == [reason: {"over_limit", "unpriced", "totals_unavailable"},
            breaches: SUBSET [window: Windows, limit: Limits, spent: {Total(R) : R \in SUBSET Priced}]]

ASSUME ContextAssumption == NoContext \notin Context

Floor == [source |-> "standing", session |-> -1, decision |-> "deny", priority |-> 0, by |-> NoAsk]

Grant(source, s, h) == [source |-> source, session |-> s, decision |-> "allow", priority |-> 10, by |-> h]

NotParked == [st |-> "none", quote |-> NoAsk, session |-> 0, ctx |-> NoContext]

Closed == [NotParked EXCEPT !.st = "closed"]

SpendIdle == [quote |-> NoAsk, session |-> 0, ask |-> NoAsk]

SpendTypeOK ==
    /\ spLimit \in [Windows -> Limits]
    /\ spLedger \subseteq Priced /\ spPaid \subseteq Priced /\ spLost \in BOOLEAN
    /\ Floor \in spEntries
    /\ spEntries \subseteq {Floor} \cup {Grant(src, s, h) : src \in {"session", "task"},
                                                          s \in 0..MaxSession, h \in Asks \cup {NoAsk}}
    /\ \A h \in Asks : /\ spHold[h].st \in {"none", "parked", "closed"}
                       /\ spHold[h].quote \in Quotes \cup {NoAsk}
                       /\ spHold[h].ctx = NoContext \/ spHold[h].ctx \in Context
    /\ spTurn \in [quote: Quotes \cup {NoAsk}, session: 0..MaxSession, ask: Asks \cup {NoAsk}]
    /\ spNow \in [session: 0..MaxSession, month: 0..MaxMonth, changes: 0..MaxChanges]
    /\ spUses \in [Asks -> 0..2]

SpendInit ==
    /\ spLimit = [w \in Windows |-> DefaultLimit]
    /\ spLedger = {} /\ spPaid = {} /\ spLost = FALSE
    /\ spEntries = {Floor}                       \* migrate, assertDenyFloor
    /\ spHold = [h \in Asks |-> NotParked]
    /\ spTurn = SpendIdle /\ spNow = [session |-> 0, month |-> 0, changes |-> 0]
    /\ spUses = [h \in Asks |-> 0]

-----------------------------------------------------------------------------
(* Permission.                                                             *)

\* queryPolicyEntries: the floor, and the grants of this session.
queryPolicyEntries(s) == {e \in spEntries : e.source = "standing" \/ e.session = s}

\* evaluatePolicy: the highest priority, a deny before an allow. (Scopes are
\* left out: all quotes are of one merchant.)
evaluatePolicy(E) ==
    CHOOSE e \in E : \A f \in E : \/ e.priority > f.priority
                                  \/ /\ e.priority = f.priority
                                     /\ e.decision = "deny" \/ f.decision = "allow"

\* consumeTaskGrant, before the dispatch and before the park alike.
Consumed(E, e) == IF e.source = "task" THEN E \ {e} ELSE E

-----------------------------------------------------------------------------
(* The cap.                                                                *)

\* sumSessionSpendCents, sumMonthSpendCents.
Spent(rows, w, s) ==
    Total({r \in rows : IF w = "session" THEN r.session = s ELSE r.month >= spNow.month})

\* evaluateSpend: the windows the order would exceed, with what is shown.
Breaches(q, rows, s) ==
    {[window |-> w, limit |-> spLimit[w], spent |-> Spent(rows, w, s)] :
       w \in {v \in Windows : Spent(rows, v, s) + Cents[q] > spLimit[v]}}

\* runSpendStage: NoContext lets the call through. The ledger may not be
\* readable.
runSpendStage(q, s, readable) ==
    IF Cents[q] = NoPrice THEN [reason |-> "unpriced", breaches |-> {}]
    ELSE IF ~readable THEN [reason |-> "totals_unavailable", breaches |-> {}]
    ELSE IF Breaches(q, spLedger, s) = {} THEN NoContext
    ELSE [reason |-> "over_limit", breaches |-> Breaches(q, spLedger, s)]

-----------------------------------------------------------------------------
(* Orders.                                                                 *)

Parks(h, q, s, ctx) ==
    spHold' = [spHold EXCEPT ![h] = [st |-> "parked", quote |-> q, session |-> s, ctx |-> ctx]]

\* The call goes out; h is the hold whose single answer lets it, if any.
Dispatches(q, s, h) ==
    /\ spTurn' = [quote |-> q, session |-> s, ask |-> h]
    /\ spUses' = IF h = NoAsk THEN spUses
                 ELSE [spUses EXCEPT ![h] = IF @ = 2 THEN 2 ELSE @ + 1]

Money == <<spLimit, spLedger, spNow, spPaid, spLost>>

\* executeTool of the money verb: the floor alone asks; a granted call is
\* priced, and asks over a cap; else it is dispatched. A task grant is spent
\* either way.
Order(q, readable) ==
    /\ spTurn = SpendIdle
    /\ LET s == spNow.session
           e == evaluatePolicy(queryPolicyEntries(s))
           ctx == runSpendStage(q, s, readable)
       IN  \/ /\ e.decision = "deny" \/ ctx # NoContext
              /\ \E h \in Asks :
                   /\ spHold[h].st = "none"
                   /\ Parks(h, q, s, IF e.decision = "deny" THEN NoContext ELSE ctx)
              /\ UNCHANGED <<spTurn, spUses>>
              /\ spEntries' = Consumed(spEntries, e)
           \/ /\ e.decision = "allow" /\ ctx = NoContext
              /\ Dispatches(q, s, e.by)
              /\ spEntries' = Consumed(spEntries, e)
              /\ UNCHANGED spHold
    /\ UNCHANGED Money

\* Wrong: the task grant stays until the order it chained to is dispatched.
GrantKeptWhileParked(E, s, h, choice, sent) ==
    IF choice = "session" THEN E \cup {Grant("session", s, NoAsk)}
    ELSE IF sent THEN E ELSE E \cup {Grant("task", s, h)}

\* What an affirmative answer leaves in policy_entries: a session grant, or a
\* task grant minted and consumed in the same step.
Granting(E, s, h, choice, sent) ==
    IF choice = "session" THEN E \cup {Grant("session", s, NoAsk)} ELSE E

\* resolveConfirmation of an ordinary hold: the grant, then the cap again. A
\* breach parks the same row once more, as a spending hold.
AnswerAsk(h, choice, readable) ==
    /\ spTurn = SpendIdle
    /\ spHold[h].st = "parked" /\ spHold[h].ctx = NoContext
    /\ LET q == spHold[h].quote
           s == spHold[h].session
           ctx == runSpendStage(q, s, readable)
       IN  /\ spEntries' = Granting(spEntries, s, h, choice, ctx = NoContext)
           /\ IF ctx # NoContext
              THEN Parks(h, q, s, ctx) /\ UNCHANGED <<spTurn, spUses>>
              ELSE spHold' = [spHold EXCEPT ![h] = Closed] /\ Dispatches(q, s, h)
    /\ UNCHANGED Money

\* Wrong: an approval stands whatever changed since it was asked for.
StandsAlways(h, ctx) == TRUE

\* alreadyAnswered, or no breach any more.
Stands(h, ctx) == ctx = NoContext \/ ctx = spHold[h].ctx

\* approve_once: the amounts the user answered must still be the amounts, or
\* the row is parked with the new ones.
ApproveOnce(h, readable) ==
    /\ spTurn = SpendIdle
    /\ spHold[h].st = "parked" /\ spHold[h].ctx # NoContext
    /\ LET q == spHold[h].quote
           s == spHold[h].session
           ctx == runSpendStage(q, s, readable)
       IN  IF Stands(h, ctx)
           THEN spHold' = [spHold EXCEPT ![h] = Closed] /\ Dispatches(q, s, h)
           ELSE Parks(h, q, s, ctx) /\ UNCHANGED <<spTurn, spUses>>
    /\ UNCHANGED <<spEntries, spLimit, spLedger, spNow, spPaid, spLost>>

DenyAsk(h) ==
    /\ spTurn = SpendIdle /\ spHold[h].st = "parked"
    /\ spHold' = [spHold EXCEPT ![h] = Closed]
    /\ UNCHANGED <<spTurn, spUses, spEntries>> /\ UNCHANGED Money

\* The row of an order: the session the call was made in, the month it landed.
OrderRow == [quote |-> spTurn.quote, session |-> spTurn.session, month |-> spNow.month]

\* The merchant charges a quote once.
Charged == IF \E r \in spPaid : r.quote = spTurn.quote THEN spPaid ELSE spPaid \cup {OrderRow}

\* writeOutcomeWithSpend after a success: one ledger row per quote and key. A
\* row that cannot be written does not undo the outcome.
OrderLands(written) ==
    /\ spTurn # SpendIdle /\ Cents[spTurn.quote] # NoPrice
    /\ spPaid' = Charged
    /\ spLedger' = IF written /\ ~\E r \in spLedger : r.quote = spTurn.quote
                   THEN spLedger \cup {OrderRow} ELSE spLedger
    /\ spLost' = (spLost \/ ~written)
    /\ spTurn' = SpendIdle
    /\ UNCHANGED <<spLimit, spEntries, spHold, spNow, spUses>>

\* Invalid, expired, declined.
OrderFails ==
    /\ spTurn # SpendIdle /\ spTurn' = SpendIdle
    /\ UNCHANGED <<spEntries, spHold, spUses>> /\ UNCHANGED Money

\* A crash while the order is out: nothing here will record it, and the marker
\* keeps the row from being sent again.
SpendCrash ==
    /\ spTurn # SpendIdle /\ Cents[spTurn.quote] # NoPrice
    /\ spPaid' = Charged /\ spLost' = TRUE
    /\ spTurn' = SpendIdle
    /\ UNCHANGED <<spLimit, spLedger, spEntries, spHold, spNow, spUses>>

\* writeSpendLimits, at any time.
SetLimit(w, cents) ==
    /\ cents # spLimit[w] /\ spNow.changes < MaxChanges
    /\ spLimit' = [spLimit EXCEPT ![w] = cents]
    /\ spNow' = [spNow EXCEPT !.changes = @ + 1]
    /\ UNCHANGED <<spLedger, spEntries, spHold, spTurn, spPaid, spLost, spUses>>

\* The session ends (kill also clears the grants): its holds are swept, also
\* under a dispatch, and the next call opens another.
SpendSessionEnds(kill) ==
    /\ spNow.session < MaxSession
    /\ spNow' = [spNow EXCEPT !.session = @ + 1]
    /\ spHold' = [h \in Asks |-> IF spHold[h].st = "parked" THEN Closed
                                 ELSE spHold[h]]
    /\ spEntries' = IF kill THEN {Floor} ELSE spEntries
    /\ UNCHANGED <<spLimit, spLedger, spTurn, spPaid, spLost, spUses>>

MonthTurns ==
    /\ spNow.month < MaxMonth
    /\ spNow' = [spNow EXCEPT !.month = @ + 1]
    /\ UNCHANGED <<spLimit, spLedger, spEntries, spHold, spTurn, spPaid, spLost, spUses>>

SpendNext ==
    \/ \E q \in Quotes, readable \in BOOLEAN : Order(q, readable)
    \/ \E h \in Asks, readable \in BOOLEAN :
         \/ \E choice \in {"task", "session"} : AnswerAsk(h, choice, readable)
         \/ ApproveOnce(h, readable)
    \/ \E h \in Asks : DenyAsk(h)
    \/ \E written \in BOOLEAN : OrderLands(written)
    \/ OrderFails \/ SpendCrash \/ MonthTurns
    \/ \E w \in Windows, cents \in Limits : SetLimit(w, cents)
    \/ \E kill \in BOOLEAN : SpendSessionEnds(kill)

SpendSpec == SpendInit /\ [][SpendNext]_spVars

-----------------------------------------------------------------------------
\* While every payment made was recorded, an order goes out above a limit only
\* on an answer to exactly these limits and these totals, or to the statement
\* that they are unknown: a cap lowered, or an order landed, while the user was
\* deciding asks again.
OverCapOnlyAsSeen ==
    [][spTurn = SpendIdle /\ spTurn' # SpendIdle /\ ~spLost /\ Cents[spTurn'.quote] # NoPrice =>
         LET over == Breaches(spTurn'.quote, spPaid, spTurn'.session)
         IN  \/ over = {}
             \/ \E h \in Asks : /\ h = spTurn'.ask /\ spHold[h].ctx # NoContext
                                /\ spHold[h].ctx.reason = "over_limit" => spHold[h].ctx.breaches = over
      ]_spVars

\* An answer that is good for one call lets one call through: no other call
\* redeems it while the order it led to waits on the cap.
SingleUse == \A h \in Asks : spUses[h] <= 1

\* Grants are well formed and good for what they were given for.
GrantsSound == SpendTypeOK /\ SingleUse
=============================================================================
