------------------------ MODULE UserAgentHoldProofs ------------------------
(***************************************************************************)
(* Proofs about what a held call waits on: its session, its task and the   *)
(* value its task must supply. Every theorem names what it needs of the    *)
(* constants: no fault of a kind, no scoped verb.                          *)
(*                                                                         *)
(* Sane(d, o) is what the store has in common between any two operators,   *)
(* SaneTurn(t, d) what the turn in flight may rely on, and Shrinks(d, d2)  *)
(* what an operator does that adds neither a row nor a session: it takes   *)
(* Sane to Sane for every turn, and drops no parked row without an outcome.*)
(***************************************************************************)
EXTENDS UserAgentProofs

LiveRun(d, r) == d.run[r].status \in NonTerminal

Waiting(d, r) == d.run[r].status \in {"awaiting_confirmation", "needs_input"}

OneOpen(d) ==
    \A s, u \in Sessions : d.sess[s] = "open" /\ d.sess[u] = "open" => s = u

GrantsMinted(d) == \A s \in Sessions, v \in Tools : <<s, v>> \in d.grants => d.sess[s] # "none"

\* A row's session was minted, and is the session of its task while that lives.
RowsMinted(d) ==
    \A h \in Entries : Present(d, h) =>
        /\ d.sess[d.hold[h].sess] # "none"
        /\ d.hold[h].run # None /\ LiveRun(d, d.hold[h].run)
               => d.hold[h].sess = d.run[d.hold[h].run].sess

\* A parked call that only waits for a yes has the value it needs.
RowsBound(d) ==
    \A h \in Entries :
        /\ d.hold[h].st = "parked" /\ d.hold[h].kind = "confirmation"
        /\ d.hold[h].run # None /\ d.hold[h].tool \in SlotTools
        => d.run[d.hold[h].run].slot

RowsOnOpen(d) == \A h \in Entries : Present(d, h) => d.sess[d.hold[h].sess] = "open"

RunsHaveRows(d) ==
    \A r \in Runs : Waiting(d, r) => \E h \in Entries : Present(d, h) /\ d.hold[h].run = r

\* The hold whose tool_use ends the human's buffer is the human's.
OrphanHuman(d, o) ==
    o # None => /\ o \in d.opened
                /\ Present(d, o) => d.hold[o].run = None

Sane(d, o) ==
    /\ OneOpen(d) /\ GrantsMinted(d) /\ RowsMinted(d) /\ RowsBound(d) /\ OrphanHuman(d, o)
    /\ ScopedTools = {} => RowsOnOpen(d)
    /\ "kill_audit" \notin Faults => RunsHaveRows(d)

TurnBound(t, d) ==
    /\ t.pc \in {"scopes", "tool", "hold"} /\ t.run # None /\ t.tool \in SlotTools
    => d.run[t.run].slot

\* The session executeTool captured, while its scopes are read.
TurnSession(t, d) ==
    t.pc = "scopes" =>
        /\ t.tool \in ScopedTools /\ t.sess \in Sessions /\ d.sess[t.sess] # "none"
        /\ t.run # None /\ LiveRun(d, t.run) => t.sess = d.run[t.run].sess

\* The row a turn resolves is its task's and no longer waits.
TurnRow(t, d) ==
    t.pc # "idle" /\ t.hold # None =>
        /\ d.hold[t.hold].st # "parked"
        /\ Present(d, t.hold) => d.hold[t.hold].run = t.run

\* Once the turn is severed, no standing grant is of a session that can act.
Severed(t, d) ==
    t.severed =>
        /\ t.pc # "idle"
        /\ \A s \in Sessions, v \in Tools : <<s, v>> \in d.grants => d.sess[s] = "ended"

SaneTurn(t, d) == TurnBound(t, d) /\ TurnSession(t, d) /\ TurnRow(t, d) /\ Severed(t, d)

HoldInv == Sane(db, orphan) /\ SaneTurn(turn, db)

-----------------------------------------------------------------------------
(* Operators that add neither a row nor a session.                         *)

\* What is left of row a in b: nothing, or the same call, not parked anew.
RowShrinks(a, b) ==
    b.st # "absent" =>
        /\ a.st # "absent" /\ b.run = a.run /\ b.sess = a.sess /\ b.tool = a.tool
        /\ b.kind = a.kind
        /\ b.st = "parked" => a.st = "parked"

Shrinks(d, d2) ==
    /\ d2 \in Database
    /\ \A s \in Sessions : \/ d2.sess[s] = d.sess[s]
                           \/ d.sess[s] = "open" /\ d2.sess[s] = "ended"
    /\ d2.grants \subseteq d.grants /\ d.opened \subseteq d2.opened
    /\ \A h \in Entries : /\ RowShrinks(d.hold[h], d2.hold[h])
                          /\ Present(d2, h) => d2.sess[d.hold[h].sess] = d.sess[d.hold[h].sess]
    /\ \A r \in Runs : /\ d2.run[r].sess = d.run[r].sess
                       /\ d.run[r].slot => d2.run[r].slot
                       /\ LiveRun(d2, r) => LiveRun(d, r)

LEMMA RowRun ==
    ASSUME NEW d \in Database, NEW h \in Entries, d.hold[h].run # None
    PROVE  d.hold[h].run \in Runs
BY RowFacts

LEMMA ShrinksTrans ==
    ASSUME NEW a, NEW b, NEW c, Good(a), Shrinks(a, b), Shrinks(b, c)
    PROVE  Shrinks(a, c)
<1>1. \A h \in Entries : RowShrinks(a.hold[h], c.hold[h]) BY DEF Shrinks, RowShrinks
<1>2. ASSUME NEW h \in Entries, Present(c, h)
      PROVE  c.sess[a.hold[h].sess] = a.sess[a.hold[h].sess]
  <2>1. Present(b, h) /\ b.hold[h].sess = a.hold[h].sess
    BY <1>2 DEF Shrinks, RowShrinks, Present
  <2> QED BY <1>2, <2>1 DEF Shrinks
<1>3. \A s \in Sessions : \/ c.sess[s] = a.sess[s]
                          \/ a.sess[s] = "open" /\ c.sess[s] = "ended"
  BY DEF Shrinks
<1>4. \A r \in Runs : /\ c.run[r].sess = a.run[r].sess
                      /\ a.run[r].slot => c.run[r].slot
                      /\ LiveRun(c, r) => LiveRun(a, r)
  BY DEF Shrinks
<1>5. c \in Database /\ c.grants \subseteq a.grants /\ a.opened \subseteq c.opened BY DEF Shrinks
<1> QED BY <1>1, <1>2, <1>3, <1>4, <1>5 DEF Shrinks

LEMMA SaneShrinks ==
    ASSUME NEW d, NEW o, NEW d2, Good(d), Sane(d, o), Shrinks(d, d2),
           o \in Entries \cup {None}, "kill_audit" \notin Faults => RunsHaveRows(d2)
    PROVE  Sane(d2, o)
<1>0. d \in Database /\ d2 \in Database BY DEF Good, Shrinks
<1>1. OneOpen(d2) BY DEF Sane, OneOpen, Shrinks
<1>2. GrantsMinted(d2) BY DEF Sane, GrantsMinted, Shrinks
<1>3. \A h \in Entries : Present(d2, h) =>
        /\ Present(d, h) /\ d2.hold[h].run = d.hold[h].run /\ d2.hold[h].sess = d.hold[h].sess
        /\ d2.hold[h].tool = d.hold[h].tool /\ d2.hold[h].kind = d.hold[h].kind
        /\ d2.hold[h].st = "parked" => d.hold[h].st = "parked"
        /\ d2.sess[d.hold[h].sess] = d.sess[d.hold[h].sess]
  BY DEF Shrinks, RowShrinks, Present
<1>4. RowsMinted(d2)
  <2> SUFFICES ASSUME NEW h \in Entries, Present(d2, h)
               PROVE  /\ d2.sess[d2.hold[h].sess] # "none"
                      /\ d2.hold[h].run # None /\ LiveRun(d2, d2.hold[h].run)
                           => d2.hold[h].sess = d2.run[d2.hold[h].run].sess
    BY DEF RowsMinted
  <2>1. d.sess[d.hold[h].sess] # "none" BY <1>3 DEF Sane, RowsMinted
  <2>2. ASSUME d2.hold[h].run # None, LiveRun(d2, d2.hold[h].run)
        PROVE  d2.hold[h].sess = d2.run[d2.hold[h].run].sess
    <3>1. d2.hold[h].run \in Runs BY <1>0, <2>2, RowRun
    <3> QED BY <1>3, <2>2, <3>1 DEF Sane, RowsMinted, Shrinks
  <2> QED BY <1>3, <2>1, <2>2
<1>5. RowsBound(d2)
  <2> SUFFICES ASSUME NEW h \in Entries, d2.hold[h].st = "parked",
                      d2.hold[h].kind = "confirmation", d2.hold[h].run # None,
                      d2.hold[h].tool \in SlotTools
               PROVE  d2.run[d2.hold[h].run].slot
    BY DEF RowsBound
  <2>1. Present(d2, h) BY DEF Present
  <2>2. d2.hold[h].run \in Runs BY <1>0, RowRun
  <2> QED BY <1>3, <2>1, <2>2 DEF Sane, RowsBound, Shrinks
<1>6. OrphanHuman(d2, o) BY <1>3 DEF Sane, OrphanHuman, Shrinks
<1>7. ScopedTools = {} => RowsOnOpen(d2) BY <1>3 DEF Sane, RowsOnOpen
<1> QED BY <1>1, <1>2, <1>4, <1>5, <1>6, <1>7 DEF Sane

LEMMA TurnShrinks ==
    ASSUME NEW t \in Turn, NEW d, NEW d2, SaneTurn(t, d), Shrinks(d, d2)
    PROVE  SaneTurn(t, d2)
<1>0. t.run \in Runs \cup {None} /\ t.hold \in Entries \cup {None} BY TurnFacts
<1>1. TurnBound(t, d2) BY <1>0 DEF SaneTurn, TurnBound, Shrinks
<1>2. TurnSession(t, d2) BY <1>0 DEF SaneTurn, TurnSession, Shrinks
<1>3. TurnRow(t, d2) BY <1>0 DEF SaneTurn, TurnRow, Shrinks, RowShrinks, Present
<1>4. Severed(t, d2) BY DEF SaneTurn, Severed, Shrinks
<1> QED BY <1>1, <1>2, <1>3, <1>4 DEF SaneTurn

\* Rows and sessions are untouched, statuses move among the living.
LEMMA ShrinksRuns ==
    ASSUME NEW d \in Database, NEW d2 \in Database, d2.hold = d.hold, d2.sess = d.sess,
           d2.grants = d.grants, d2.opened = d.opened,
           \A r \in Runs : /\ d2.run[r].sess = d.run[r].sess
                           /\ d.run[r].slot => d2.run[r].slot
                           /\ LiveRun(d2, r) => LiveRun(d, r)
    PROVE  Shrinks(d, d2)
BY DEF Shrinks, RowShrinks

LEMMA ShrinksCopy ==
    ASSUME NEW d \in Database, NEW d2 \in Database, d2.hold = d.hold, d2.sess = d.sess,
           d2.grants \subseteq d.grants, d2.run = d.run, d2.opened = d.opened
    PROVE  Shrinks(d, d2)
BY DEF Shrinks, RowShrinks, LiveRun

LEMMA MoveRunsShrinks ==
    ASSUME NEW d \in Database, NEW R, NEW from \in SUBSET NonTerminal, NEW to \in RunStatus
    PROVE  LET d2 == MoveRuns(d, R, from, to) IN
           /\ Shrinks(d, d2) /\ d2.hold = d.hold /\ d2.sess = d.sess /\ d2.grants = d.grants
           /\ \A r \in Runs : d2.run[r].status = IF r \in R /\ d.run[r].status \in from
                                                THEN to ELSE d.run[r].status
<1> DEFINE d2 == MoveRuns(d, R, from, to)
<1>1. /\ d2 \in Database /\ d2.sess = d.sess /\ d2.hold = d.hold /\ d2.grants = d.grants
      /\ d2.opened = d.opened
      /\ \A r \in Runs :
            /\ d2.run[r].sess = d.run[r].sess /\ d2.run[r].slot = d.run[r].slot
            /\ d2.run[r].status = IF r \in R /\ d.run[r].status \in from
                                  THEN to ELSE d.run[r].status
  BY MoveRunsFields
<1> HIDE DEF d2
<1>2. \A r \in Runs : LiveRun(d2, r) => LiveRun(d, r) BY <1>1 DEF LiveRun
<1>3. Shrinks(d, d2) BY <1>1, <1>2, ShrinksRuns
<1> QED BY <1>1, <1>3 DEF d2

\* Rows untouched: a run that waits was waiting, or has a row.
LEMMA RowsKept ==
    ASSUME NEW d, NEW d2, RunsHaveRows(d), d2.hold = d.hold,
           \A r \in Runs : Waiting(d2, r) => \/ Waiting(d, r)
                              \/ \E h \in Entries : Present(d, h) /\ d.hold[h].run = r
    PROVE  RunsHaveRows(d2)
BY DEF RunsHaveRows, Present

LEMMA ExpireRunsSane ==
    ASSUME NEW d \in Database, NEW R
    PROVE  /\ Shrinks(d, expireRuns(d, R))
           /\ RunsHaveRows(d) => RunsHaveRows(expireRuns(d, R))
<1> DEFINE d2 == MoveRuns(d, R, NonTerminal, "expired")
<1>1. "expired" \in RunStatus BY DEF RunStatus, Terminal
<1>2. /\ Shrinks(d, d2) /\ d2.hold = d.hold
      /\ \A r \in Runs : d2.run[r].status = IF r \in R /\ d.run[r].status \in NonTerminal
                                             THEN "expired" ELSE d.run[r].status
  BY <1>1, MoveRunsShrinks
<1> HIDE DEF d2
<1>3. \A r \in Runs : Waiting(d2, r) => Waiting(d, r) BY <1>2 DEF Waiting
<1>4. RunsHaveRows(d) => RunsHaveRows(d2) BY <1>2, <1>3, RowsKept
<1> QED BY <1>2, <1>4 DEF expireRuns, d2

LEMMA UpdateStatusSane ==
    ASSUME NEW d \in Database, NEW r,
           NEW to \in {"awaiting_confirmation", "completed", "denied", "failed"}
    PROVE  LET d2 == updateCommissionStatus(d, r, to) IN
           /\ Shrinks(d, d2) /\ d2.hold = d.hold /\ d2.sess = d.sess /\ d2.grants = d.grants
           /\ \A q \in Runs : d2.run[q].status =
                 IF q = r /\ d.run[q].status \in {"running", "awaiting_confirmation"}
                 THEN to ELSE d.run[q].status
<1> DEFINE from == {"running", "awaiting_confirmation"}
           R == {r}
           d2 == MoveRuns(d, R, from, to)
<1>1. to \in RunStatus /\ from \in SUBSET NonTerminal
  BY DEF RunStatus, Terminal, NonTerminal
<1> HIDE DEF from, R
<1>2. /\ Shrinks(d, d2) /\ d2.hold = d.hold /\ d2.sess = d.sess /\ d2.grants = d.grants
      /\ \A q \in Runs : d2.run[q].status = IF q \in R /\ d.run[q].status \in from
                                             THEN to ELSE d.run[q].status
  BY <1>1, MoveRunsShrinks
<1>3. d2 = updateCommissionStatus(d, r, to) BY DEF updateCommissionStatus, from, R
<1> HIDE DEF d2
<1> QED BY <1>2, <1>3 DEF from, R

\* updateRunData: the slot only fills.
LEMMA UpdateRunDataSane ==
    ASSUME NEW d \in Database, NEW r \in Runs, NEW b \in BOOLEAN
    PROVE  LET d2 == updateRunData(d, r, b) IN
           /\ Shrinks(d, d2) /\ d2.hold = d.hold
           /\ d2.obs = d.obs /\ d2.inf = d.inf
           /\ \A q \in Runs : d2.run[q].status = d.run[q].status
           /\ RunsHaveRows(d) => RunsHaveRows(d2)
<1> DEFINE x == [d.run[r] EXCEPT !.slot = @ \/ b]
           f == [d.run EXCEPT ![r] = x]
           d2 == [d EXCEPT !.run = f]
<1>1. d.run[r] \in RunRow BY Fields
<1>2. /\ x \in RunRow /\ x.sess = d.run[r].sess /\ x.status = d.run[r].status
      /\ d.run[r].slot => x.slot
  BY <1>1 DEF RunRow
<1>3. updateRunData(d, r, b) = d2 BY DEF updateRunData
<1> HIDE DEF x
<1>4. /\ f \in [Runs -> RunRow]
      /\ \A q \in Runs : f[q].sess = d.run[q].sess /\ f[q].status = d.run[q].status
  BY <1>2, Fields
<1>s. \A q \in Runs : d.run[q].slot => f[q].slot BY <1>2, Fields
<1> HIDE DEF f
<1>5. /\ d2 \in Database /\ d2.run = f /\ d2.hold = d.hold /\ d2.sess = d.sess
      /\ d2.grants = d.grants /\ d2.obs = d.obs /\ d2.inf = d.inf /\ d2.opened = d.opened
  <2>1. d2 \in Database BY <1>4 DEF Database, RunRow
  <2> QED BY <2>1 DEF Database
<1> HIDE DEF d2
<1>6. \A q \in Runs : /\ LiveRun(d2, q) => LiveRun(d, q) 
                      /\ Waiting(d2, q) => Waiting(d, q)
                      /\ d2.run[q].status = d.run[q].status
  BY <1>4, <1>5 DEF LiveRun, Waiting
<1>7. Shrinks(d, d2)
  <2>1. \A q \in Runs : d2.run[q].sess = d.run[q].sess BY <1>4, <1>5
  <2>2. \A q \in Runs : d.run[q].slot => d2.run[q].slot BY <1>s, <1>5
  <2> QED BY <1>5, <1>6, <2>1, <2>2, ShrinksRuns
<1>8. RunsHaveRows(d) => RunsHaveRows(d2) BY <1>5, <1>6, RowsKept
<1> QED BY <1>3, <1>5, <1>6, <1>7, <1>8

LEMMA ClearNeedsInputSane ==
    ASSUME NEW d \in Database, NEW r \in Runs
    PROVE  LET d2 == clearNeedsInput(d, r) IN
           /\ Shrinks(d, d2) /\ d2.hold = d.hold /\ d2.obs = d.obs /\ d2.inf = d.inf
           /\ RunsHaveRows(d) => RunsHaveRows(d2)
<1> DEFINE from == {"needs_input"}
           R == {r}
           d2 == MoveRuns(d, R, from, "running")
<1>1. "running" \in RunStatus /\ from \in SUBSET NonTerminal
  BY DEF RunStatus, Terminal, NonTerminal
<1> HIDE DEF from, R
<1>2. /\ Shrinks(d, d2) /\ d2.hold = d.hold
      /\ \A q \in Runs : d2.run[q].status = IF q \in R /\ d.run[q].status \in from
                                             THEN "running" ELSE d.run[q].status
  BY <1>1, MoveRunsShrinks
<1>3. d2.obs = d.obs /\ d2.inf = d.inf BY <1>1, MoveRunsFields
<1>4. d2 = clearNeedsInput(d, r) BY DEF clearNeedsInput, from, R
<1> HIDE DEF d2
<1>5. RunsHaveRows(d) => RunsHaveRows(d2) BY <1>2, RowsKept DEF Waiting
<1> QED BY <1>2, <1>3, <1>4, <1>5

\* The repair gives `awaiting_confirmation` to a run with a row only.
LEMMA RepairRunsSane ==
    ASSUME NEW d \in Database, NEW R
    PROVE  LET d2 == RepairRuns(d, R) IN
           /\ Shrinks(d, d2) /\ d2.hold = d.hold /\ d2.sess = d.sess
           /\ d2.obs = d.obs /\ d2.inf = d.inf
           /\ \A r \in Runs : r \in R => d2.run[r].status # "running"
           /\ RunsHaveRows(d) => RunsHaveRows(d2)
<1> DEFINE to(r) == IF selectHeldCallsForRun(d, r) # {}
                    THEN "awaiting_confirmation" ELSE "failed"
           g(r) == IF r \in R /\ d.run[r].status = "running"
                   THEN [d.run[r] EXCEPT !.status = to(r)] ELSE d.run[r]
           f == [r \in Runs |-> g(r)]
           d2 == [d EXCEPT !.run = f]
<1>1. ASSUME NEW r \in Runs
      PROVE  /\ to(r) \in {"awaiting_confirmation", "failed"}
             /\ to(r) = "awaiting_confirmation"
                  => \E h \in Entries : Present(d, h) /\ d.hold[h].run = r
  BY DEF selectHeldCallsForRun, selectHeldCalls, Present
<1>2. RepairRuns(d, R) = d2 BY DEF RepairRuns
<1> HIDE DEF to
<1>3. ASSUME NEW r \in Runs
      PROVE  /\ g(r) \in RunRow /\ g(r).sess = d.run[r].sess /\ g(r).slot = d.run[r].slot
             /\ g(r).status = IF r \in R /\ d.run[r].status = "running" THEN to(r)
                              ELSE d.run[r].status
  <2>1. d.run[r] \in RunRow BY Fields
  <2>2. to(r) \in {"awaiting_confirmation", "failed"} BY <1>1
  <2>3. /\ [d.run[r] EXCEPT !.status = to(r)] \in RunRow
        /\ [d.run[r] EXCEPT !.status = to(r)].status = to(r)
        /\ [d.run[r] EXCEPT !.status = to(r)].sess = d.run[r].sess
        /\ [d.run[r] EXCEPT !.status = to(r)].slot = d.run[r].slot
    BY <2>1, <2>2 DEF RunRow, RunStatus, NonTerminal, Terminal
  <2> QED BY <2>1, <2>2, <2>3
<1> HIDE DEF g
<1>4. f \in [Runs -> RunRow] /\ \A r \in Runs : f[r] = g(r) BY <1>3
<1> HIDE DEF f
<1>5. d2 \in Database BY <1>4 DEF Database, RunRow
<1>6. /\ d2.run = f /\ d2.hold = d.hold /\ d2.sess = d.sess /\ d2.grants = d.grants
      /\ d2.obs = d.obs /\ d2.inf = d.inf /\ d2.opened = d.opened
  BY DEF Database
<1> HIDE DEF d2
<1>7. \A r \in Runs :
          /\ d2.run[r].sess = d.run[r].sess /\ d2.run[r].slot = d.run[r].slot
          /\ d2.run[r].status = IF r \in R /\ d.run[r].status = "running" THEN to(r)
                                ELSE d.run[r].status
  BY <1>3, <1>4, <1>6
<1>8. \A r \in Runs : LiveRun(d2, r) => LiveRun(d, r) BY <1>7 DEF LiveRun, NonTerminal
<1>9. Shrinks(d, d2) BY <1>5, <1>6, <1>7, <1>8, ShrinksRuns
<1>10. \A r \in Runs : Waiting(d2, r) =>
           Waiting(d, r) \/ \E h \in Entries : Present(d, h) /\ d.hold[h].run = r
  BY <1>1, <1>7 DEF Waiting
<1>11. RunsHaveRows(d) => RunsHaveRows(d2) BY <1>6, <1>10, RowsKept
<1>12. \A r \in Runs : r \in R => d2.run[r].status # "running" BY <1>1, <1>7
<1> QED BY <1>2, <1>6, <1>9, <1>11, <1>12

LEMMA CloseObservedSane ==
    ASSUME NEW d \in Database, NEW e
    PROVE  LET d2 == CloseObserved(d, e) IN
           /\ Shrinks(d, d2)
           /\ RunsHaveRows(d) => RunsHaveRows(d2)
<1> DEFINE d2 == CloseObserved(d, e)
<1>1. /\ d2 \in Database /\ d2.sess = d.sess /\ d2.run = d.run /\ d2.hold = d.hold
      /\ d2.grants = d.grants /\ d2.opened = d.opened
  BY CloseObservedFields
<1> HIDE DEF d2
<1>2. Shrinks(d, d2) BY <1>1, ShrinksCopy
<1>3. RunsHaveRows(d) => RunsHaveRows(d2) BY <1>1, RowsKept DEF Waiting
<1> QED BY <1>2, <1>3 DEF d2

\* Rows go or move on, and nothing else changes.
LEMMA ShrinksRows ==
    ASSUME NEW d \in Database, NEW d2 \in Database, d2.sess = d.sess, d2.run = d.run,
           d2.grants \subseteq d.grants, d.opened \subseteq d2.opened,
           \A h \in Entries : RowShrinks(d.hold[h], d2.hold[h])
    PROVE  Shrinks(d, d2)
BY DEF Shrinks, LiveRun

LEMMA DeleteSane ==
    ASSUME NEW d \in Database, NEW H,
           \A h \in Entries \cap H : Present(d, h) /\ d.hold[h].run # None
                                        => ~Waiting(d, d.hold[h].run)
    PROVE  LET d2 == deleteHeldToolCalls(d, H) IN
           /\ Shrinks(d, d2)
           /\ RunsHaveRows(d) => RunsHaveRows(d2)
<1> DEFINE d2 == deleteHeldToolCalls(d, H)
<1>1. /\ d2 \in Database /\ d2.sess = d.sess /\ d2.run = d.run /\ d2.grants = d.grants
      /\ d2.hold = [h \in Entries |-> IF h \in H THEN NoRow ELSE d.hold[h]]
      /\ d2.opened = d.opened
  BY DeleteFields
<1> HIDE DEF d2
<1>2. \A h \in Entries : RowShrinks(d.hold[h], d2.hold[h])
  BY <1>1, NoRowAbsent DEF RowShrinks
<1>3. Shrinks(d, d2) BY <1>1, <1>2, ShrinksRows
<1>4. ASSUME RunsHaveRows(d), NEW r \in Runs, Waiting(d2, r)
      PROVE  \E h \in Entries : Present(d2, h) /\ d2.hold[h].run = r
  <2>1. Waiting(d, r) BY <1>1, <1>4 DEF Waiting
  <2>2. PICK h \in Entries : Present(d, h) /\ d.hold[h].run = r
    BY <1>4, <2>1 DEF RunsHaveRows
  <2>3. h \notin H BY <2>1, <2>2, NoneFacts
  <2>4. d2.hold[h] = d.hold[h] BY <1>1, <2>3
  <2> QED BY <2>2, <2>4 DEF Present
<1>5. RunsHaveRows(d) => RunsHaveRows(d2) BY <1>4 DEF RunsHaveRows
<1> QED BY <1>3, <1>5 DEF d2

LEMMA SetTurnStateSane ==
    ASSUME NEW d \in Database, NEW h \in Entries \cup {None},
           NEW st \in {"dispatched", "answered"}
    PROVE  LET d2 == SetTurnState(d, h, st) IN
           /\ Shrinks(d, d2)
           /\ RunsHaveRows(d) => RunsHaveRows(d2)
<1> DEFINE d2 == SetTurnState(d, h, st)
           row == [d.hold[h] EXCEPT !.st = st]
<1>1. /\ d2 \in Database /\ d2.sess = d.sess /\ d2.run = d.run /\ d2.grants = d.grants
      /\ d2.hold = [g \in Entries |->
            IF g = h /\ d.hold[h].st # "absent" THEN row ELSE d.hold[g]]
      /\ d2.opened = d.opened
  <2>1. st \in {"parked", "dispatched", "answered"} OBVIOUS
  <2> QED BY <2>1, SetTurnStateFields
<1> HIDE DEF d2
<1>2. h \in Entries =>
        /\ row.st = st /\ row.run = d.hold[h].run /\ row.sess = d.hold[h].sess
        /\ row.tool = d.hold[h].tool /\ row.kind = d.hold[h].kind
  BY Fields DEF Row
<1> HIDE DEF row
<1>3. \A g \in Entries : /\ RowShrinks(d.hold[g], d2.hold[g])
                         /\ Present(d, g) => Present(d2, g) /\ d2.hold[g].run = d.hold[g].run
  BY <1>1, <1>2 DEF RowShrinks, Present
<1>4. Shrinks(d, d2) BY <1>1, <1>3, ShrinksRows
<1>5. RunsHaveRows(d) => RunsHaveRows(d2) BY <1>1, <1>3 DEF RunsHaveRows, Waiting
<1> QED BY <1>4, <1>5 DEF d2

-----------------------------------------------------------------------------
(* Parked rows and their outcome.                                          *)

\* A parked row of d is still parked on its entry in d2, or the entry has an
\* outcome there.
Accounted(d, d2) ==
    /\ \A e \in Entries : hasCloser(d, e) => hasCloser(d2, e)
    /\ \A h \in Entries : d.hold[h].st = "parked" =>
          \/ hasCloser(d2, d.hold[h].entry)
          \/ d2.hold[h].st = "parked" /\ d2.hold[h].entry = d.hold[h].entry

LEMMA AccountedTrans ==
    ASSUME NEW a, NEW b, NEW c, RowsOpen(a), a \in Database, Accounted(a, b), Accounted(b, c)
    PROVE  Accounted(a, c)
<1>1. \A h \in Entries : a.hold[h].st = "parked" => a.hold[h].entry \in Entries
  BY Fields DEF RowsOpen, Present
<1> QED BY <1>1 DEF Accounted

LEMMA AccountedCopy ==
    ASSUME NEW a, NEW b, b.hold = a.hold, b.obs = a.obs, b.inf = a.inf
    PROVE  Accounted(a, b)
BY DEF Accounted, hasCloser

LEMMA SweepAccounted ==
    ASSUME NEW d \in Database, RowsOpen(d), NEW H
    PROVE  Accounted(d, SweepHolds(d, H))
<1> DEFINE d2 == SweepHolds(d, H)
           E == {d.hold[h].entry : h \in {g \in H : ~HasResolution(d, g)}}
<1>1. /\ d2.hold = [h \in Entries |-> IF h \in H THEN NoRow ELSE d.hold[h]]
      /\ d2.inf = [e \in Entries |->
                 IF e \in E /\ ~hasCloser(d, e) THEN d.inf[e] + 1 ELSE d.inf[e]]
      /\ d2.obs = d.obs
  BY SweepFields
<1>2. \A h \in H \cap Entries : d.hold[h].st = "parked" => d.hold[h].entry \in E
  BY DEF HasResolution
<1> HIDE DEF d2, E
<1>3. \A e \in Entries : d.obs[e] \in Nat /\ d.inf[e] \in Nat BY RowFacts
<1>4. \A e \in Entries : /\ hasCloser(d, e) => hasCloser(d2, e)
                         /\ e \in E => hasCloser(d2, e)
  BY <1>1, <1>3 DEF hasCloser
<1>5. \A h \in Entries : d.hold[h].st = "parked" => d.hold[h].entry \in Entries
  BY Fields DEF RowsOpen, Present
<1>6. Accounted(d, d2) BY <1>1, <1>2, <1>4, <1>5 DEF Accounted
<1> QED BY <1>6 DEF d2

-----------------------------------------------------------------------------
(* Sessions.                                                               *)

\* What holds of the store before and after any operator, for the turn t.
Held(d, t, o) ==
    /\ Good(d) /\ Audit(d, t, ran) /\ o \in Entries \cup {None}
    /\ Sane(d, o) /\ SaneTurn(t, d)

LEMMA EndSessionsShrinks ==
    ASSUME NEW d, Good(d), RowsOpen(d), RowsMinted(d), NEW S \in SUBSET selectOpenSessions(d)
    PROVE  LET d2 == EndSessions(d, S) IN
           /\ Shrinks(d, d2) /\ Accounted(d, d2)
           /\ d2.sess = [s \in Sessions |-> IF s \in S THEN "ended" ELSE d.sess[s]]
           /\ d2.opened = d.opened
           /\ RunsHaveRows(d) => RunsHaveRows(d2)
<1> DEFINE H == {h \in selectHeldCalls(d) : d.hold[h].sess \in S}
           w == SweepHolds(d, H)
           R == {r \in Runs : d.run[r].sess \in S}
           x == expireRuns(w, R)
           f == [s \in Sessions |-> IF s \in S THEN "ended" ELSE d.sess[s]]
           d2 == [x EXCEPT !.sess = f]
<1>0. /\ d \in Database /\ RowsOpen(d) /\ RowsMinted(d) /\ RunsGood(d) /\ RowsGood(d)
  BY DEF Good
<1>3. EndSessions(d, S) = d2 BY DEF EndSessions
<1>6. \A h \in Entries : h \in H <=> Present(d, h) /\ d.hold[h].sess \in S
  BY DEF selectHeldCalls, Present
<1> HIDE DEF H
<1>1. /\ w \in Database /\ w.sess = d.sess /\ w.run = d.run /\ w.grants = d.grants
      /\ w.hold = [h \in Entries |-> IF h \in H THEN NoRow ELSE d.hold[h]]
      /\ w.opened = d.opened
  <2>1. d \in Database BY <1>0
  <2>2. w.hold = [h \in Entries |-> IF h \in H THEN NoRow ELSE d.hold[h]] BY <2>1, SweepRows
  <2> QED BY <2>1, <2>2, SweepFields
<1>2. Accounted(d, w) BY <1>0, SweepAccounted
<1>4. /\ f \in [Sessions -> {"none", "open", "ended"}]
      /\ \A s \in Sessions : f[s] = IF s \in S THEN "ended" ELSE d.sess[s]
  BY <1>0, Fields
<1>5. \A s \in S : s \in Sessions /\ d.sess[s] = "open" BY DEF selectOpenSessions
<1>7. \A r \in Runs : r \in R <=> d.run[r].sess \in S OBVIOUS
<1>8. f = [s \in Sessions |-> IF s \in S THEN "ended" ELSE d.sess[s]] OBVIOUS
<1> HIDE DEF w, R, f
<1>9. /\ x \in Database /\ x.hold = w.hold /\ x.grants = w.grants /\ x.opened = w.opened
      /\ x.obs = w.obs /\ x.inf = w.inf
      /\ \A r \in Runs :
            /\ x.run[r].sess = w.run[r].sess /\ x.run[r].slot = w.run[r].slot
            /\ x.run[r].status = IF r \in R /\ w.run[r].status \in NonTerminal
                                 THEN "expired" ELSE w.run[r].status
  <2>1. "expired" \in RunStatus BY DEF RunStatus, Terminal
  <2>2. w \in Database BY <1>1
  <2> QED BY <2>1, <2>2, MoveRunsFields DEF expireRuns
<1> HIDE DEF x
<1>10. d2 \in Database /\ d2.sess = f
  <2>1. x \in Database BY <1>9
  <2> QED BY <1>4, <2>1 DEF Database
<1>11. /\ d2.run = x.run /\ d2.hold = x.hold /\ d2.grants = x.grants
       /\ d2.opened = x.opened /\ d2.obs = x.obs /\ d2.inf = x.inf
  <2>1. x \in Database BY <1>9
  <2> QED BY <2>1 DEF Database
<1> HIDE DEF d2
<1>12. \A r \in Runs :
          /\ d2.run[r].sess = d.run[r].sess /\ d2.run[r].slot = d.run[r].slot
          /\ d2.run[r].status = IF r \in R /\ d.run[r].status \in NonTerminal
                                THEN "expired" ELSE d.run[r].status
  BY <1>1, <1>9, <1>11
<1>13. \A h \in Entries : d2.hold[h] = IF h \in H THEN NoRow ELSE d.hold[h]
  BY <1>1, <1>9, <1>11
<1>14. Shrinks(d, d2)
  <2>1. \A s \in Sessions : \/ d2.sess[s] = d.sess[s]
                            \/ d.sess[s] = "open" /\ d2.sess[s] = "ended"
    BY <1>4, <1>5, <1>10
  <2>2. d2.grants \subseteq d.grants /\ d2.opened = d.opened BY <1>1, <1>9, <1>11
  <2>3. \A h \in Entries : RowShrinks(d.hold[h], d2.hold[h])
    BY <1>13, NoRowAbsent DEF RowShrinks
  <2>4. ASSUME NEW h \in Entries, Present(d2, h)
        PROVE  d2.sess[d.hold[h].sess] = d.sess[d.hold[h].sess]
    <3>1. h \notin H /\ d2.hold[h] = d.hold[h] BY <1>13, <2>4, NoRowAbsent DEF Present
    <3>2. Present(d, h) BY <2>4, <3>1 DEF Present
    <3>3. d.hold[h].sess \in Sessions BY <1>0, <3>2 DEF RowsGood, Present
    <3> QED BY <1>4, <1>6, <1>10, <3>1, <3>2, <3>3
  <2>5. \A r \in Runs : LiveRun(d2, r) => LiveRun(d, r) BY <1>12 DEF LiveRun
  <2> QED BY <1>10, <1>12, <2>1, <2>2, <2>3, <2>4, <2>5 DEF Shrinks
<1>15. Accounted(d, d2)
  <2>1. Accounted(w, d2) BY <1>9, <1>11, AccountedCopy
  <2> QED BY <1>0, <1>2, <2>1, AccountedTrans
<1>16. ASSUME RunsHaveRows(d), NEW r \in Runs, Waiting(d2, r)
       PROVE  \E h \in Entries : Present(d2, h) /\ d2.hold[h].run = r
  <2>1. d.run[r].sess \notin S /\ Waiting(d, r) /\ LiveRun(d, r)
    BY <1>7, <1>12, <1>16 DEF Waiting, LiveRun, NonTerminal
  <2>2. PICK h \in Entries : Present(d, h) /\ d.hold[h].run = r
    BY <1>16, <2>1 DEF RunsHaveRows
  <2>3. d.hold[h].sess = d.run[r].sess BY <1>0, <2>1, <2>2, NoneFacts DEF RowsMinted
  <2>4. h \notin H BY <1>6, <2>1, <2>3
  <2>5. d2.hold[h] = d.hold[h] BY <1>13, <2>4
  <2> QED BY <2>2, <2>5 DEF Present
<1>17. RunsHaveRows(d) => RunsHaveRows(d2) BY <1>16 DEF RunsHaveRows
<1>18. d2.opened = d.opened BY <1>1, <1>9, <1>11
<1> QED BY <1>3, <1>8, <1>10, <1>14, <1>15, <1>17, <1>18

LEMMA HeldShrinks ==
    ASSUME NEW d, NEW t, NEW o, Held(d, t, o), NEW d2, Good(d2), Audit(d2, t, ran),
           Shrinks(d, d2), RunsHaveRows(d) => RunsHaveRows(d2)
    PROVE  Held(d2, t, o)
<1>1. t \in Turn BY DEF Held, Audit
<1>2. Sane(d2, o) BY SaneShrinks DEF Held, Sane
<1>3. SaneTurn(t, d2) BY <1>1, TurnShrinks DEF Held
<1> QED BY <1>2, <1>3 DEF Held

LEMMA EndSessionsSane ==
    ASSUME NEW d, NEW t, NEW o, Held(d, t, o), NEW S \in SUBSET selectOpenSessions(d)
    PROVE  LET d2 == EndSessions(d, S) IN
           /\ Held(d2, t, o) /\ Shrinks(d, d2) /\ Accounted(d, d2)
           /\ d2.sess = [s \in Sessions |-> IF s \in S THEN "ended" ELSE d.sess[s]]
           /\ d2.opened = d.opened
<1> DEFINE d2 == EndSessions(d, S)
<1>0. Good(d) /\ RowsOpen(d) /\ RowsMinted(d) BY DEF Held, Audit, Store, Sane
<1>1. /\ Shrinks(d, d2) /\ Accounted(d, d2)
      /\ d2.sess = [s \in Sessions |-> IF s \in S THEN "ended" ELSE d.sess[s]]
      /\ d2.opened = d.opened
      /\ RunsHaveRows(d) => RunsHaveRows(d2)
  BY <1>0, EndSessionsShrinks
<1>2. Good(d2) BY <1>0, EndSessionsGood
<1>3. Audit(d2, t, ran) BY EndSessionsAudit DEF Held
<1> HIDE DEF d2
<1>4. Held(d2, t, o) BY <1>1, <1>2, <1>3, HeldShrinks
<1> QED BY <1>1, <1>4 DEF d2

LEMMA ReapedSane ==
    ASSUME NEW d, NEW t, NEW o, Held(d, t, o)
    PROVE  /\ Held(Reaped(d), t, o) /\ Shrinks(d, Reaped(d)) /\ Accounted(d, Reaped(d))
           /\ Reaped(d).opened = d.opened
<1> DEFINE S == selectOpenSessions(d) \cap d.aged
<1>1. S \in SUBSET selectOpenSessions(d) OBVIOUS
<1> HIDE DEF S
<1>2. LET d2 == EndSessions(d, S)
      IN  Held(d2, t, o) /\ Shrinks(d, d2) /\ Accounted(d, d2) /\ d2.opened = d.opened
  BY <1>1, EndSessionsSane
<1> QED BY <1>2 DEF Reaped, S

\* The turn is severed by what ended between d and d2, when it ended.
LEMMA SeverSane ==
    ASSUME NEW d, NEW t, NEW o, Held(d, t, o), NEW d2, Held(d2, t, o), Shrinks(d, d2)
    PROVE  Held(d2, Sever(t, d, d2), o)
<1> DEFINE b == t.severed \/ (t.pc # "idle" /\ d2.sess # d.sess)
           u == [t EXCEPT !.severed = b]
<1>0. t \in Turn /\ d \in Database /\ d2 \in Database BY DEF Held, Audit
<1>1. b \in BOOLEAN /\ Sever(t, d, d2) = u BY <1>0 DEF Sever
<1>2. Audit(d2, u, ran)
  <2>1. Audit(d2, Sever(t, d, d2), ran) BY SeverAudit DEF Held
  <2> QED BY <1>1, <2>1
<1>3. Severed(u, d2)
  <2>1. u.severed = b /\ u.pc = t.pc BY <1>0, <1>1 DEF Turn
  <2>2. CASE t.severed
    <3>1. t.pc # "idle" /\ \A s \in Sessions, v \in Tools :
              <<s, v>> \in d2.grants => d2.sess[s] = "ended"
      BY <2>2 DEF Held, SaneTurn, Severed
    <3> QED BY <2>1, <3>1 DEF Severed
  <2>3. CASE t.pc # "idle" /\ d2.sess # d.sess
    <3>1. d.sess \in [Sessions -> {"none", "open", "ended"}]
          /\ d2.sess \in [Sessions -> {"none", "open", "ended"}]
      BY <1>0, Fields
    <3>2. PICK s \in Sessions : d2.sess[s] # d.sess[s] BY <2>3, <3>1
    <3>3. \A x \in Sessions : d2.sess[x] # "open"
      BY <3>2 DEF Shrinks, Held, Sane, OneOpen
    <3>4. \A x \in Sessions, v \in Tools : <<x, v>> \in d2.grants => d2.sess[x] = "ended"
      BY <3>1, <3>3 DEF Held, Sane, GrantsMinted
    <3> QED BY <2>1, <2>3, <3>4 DEF Severed
  <2> QED BY <2>1, <2>2, <2>3 DEF Severed
<1> HIDE DEF b
<1>4. /\ u.pc = t.pc /\ u.run = t.run /\ u.tool = t.tool /\ u.sess = t.sess /\ u.hold = t.hold
  BY <1>0, <1>1 DEF Turn
<1> HIDE DEF u
<1>5. TurnBound(u, d2) /\ TurnSession(u, d2) /\ TurnRow(u, d2)
  BY <1>4 DEF Held, SaneTurn, TurnBound, TurnSession, TurnRow
<1>6. Held(d2, u, o) BY <1>2, <1>3, <1>5 DEF Held, SaneTurn
<1> QED BY <1>1, <1>6

LEMMA ResolveSessionSane ==
    ASSUME NEW d, NEW t, NEW o, Held(d, t, o), NEW s \in ActiveCandidates(d)
    PROVE  LET d2 == resolveActiveSession(d, s) IN
           /\ Held(d2, t, o) /\ Accounted(d, d2) /\ d2.opened = d.opened
           /\ s \in Sessions /\ d2.sess[s] = "open"
<1> DEFINE d2 == resolveActiveSession(d, s)
<1>0. d \in Database /\ t \in Turn BY DEF Held, Audit
<1>1. s \in Sessions /\ d2.sess[s] = "open" /\ Good(d2) BY ResolveSessionGood DEF Held
<1>2. Audit(d2, t, ran) BY <1>1, ResolveSessionAudit DEF Held
<1>3. CASE s \in selectOpenSessions(d)
  <2> DEFINE S == selectOpenSessions(d) \ {s}
  <2>1. d2 = EndSessions(d, S) BY <1>3 DEF resolveActiveSession
  <2>2. S \in SUBSET selectOpenSessions(d) OBVIOUS
  <2> HIDE DEF S
  <2>3. LET e == EndSessions(d, S)
        IN  Held(e, t, o) /\ Accounted(d, e) /\ e.opened = d.opened
    BY <2>2, EndSessionsSane
  <2> QED BY <1>1, <2>1, <2>3
<1>4. CASE s \notin selectOpenSessions(d)
  <2> DEFINE f == [d.sess EXCEPT ![s] = "open"]
             e == [d EXCEPT !.sess = f]
  <2>1. d2 = e BY <1>4 DEF resolveActiveSession, createSession
  <2>2. d.sess[s] = "none" /\ \A u \in Sessions : d.sess[u] # "open"
    BY <1>4 DEF ActiveCandidates, selectOpenSessions
  <2>3. f \in [Sessions -> {"none", "open", "ended"}]
        /\ \A u \in Sessions : f[u] = IF u = s THEN "open" ELSE d.sess[u]
    BY <1>0, <1>1, Fields
  <2> HIDE DEF f
  <2>4. e \in Database BY <1>0, <2>3 DEF Database
  <2>5. /\ e.sess = f /\ e.run = d.run /\ e.hold = d.hold /\ e.grants = d.grants
        /\ e.obs = d.obs /\ e.inf = d.inf /\ e.opened = d.opened
    BY <1>0 DEF Database
  <2> HIDE DEF e
  <2>6. \A u \in Sessions : /\ d.sess[u] # "none" => e.sess[u] = d.sess[u]
                            /\ e.sess[u] = "open" => u = s
    BY <2>2, <2>3, <2>5
  <2>7. \A h \in Entries : /\ Present(e, h) <=> Present(d, h)
                           /\ Present(d, h) => d.hold[h].sess \in Sessions
    BY <2>5 DEF Held, Good, RowsGood, Present
  <2>8. \A h \in Entries : Present(d, h) => d.sess[d.hold[h].sess] # "none"
    BY DEF Held, Sane, RowsMinted
  <2>9. OneOpen(e) BY <2>6 DEF OneOpen
  <2>10. GrantsMinted(e) BY <2>5, <2>6 DEF Held, Sane, GrantsMinted
  <2>11. RowsMinted(e)
    BY <2>5, <2>6, <2>7, <2>8 DEF Held, Sane, RowsMinted, LiveRun
  <2>12. RowsBound(e) BY <2>5 DEF Held, Sane, RowsBound
  <2>13. OrphanHuman(e, o) BY <1>0, <2>5, <2>7, Fields DEF Held, Sane, OrphanHuman
  <2>14. ScopedTools = {} => RowsOnOpen(e)
    BY <2>2, <2>7 DEF Held, Sane, RowsOnOpen
  <2>15. RunsHaveRows(d) => RunsHaveRows(e) BY <2>5, <2>7 DEF RunsHaveRows, Waiting
  <2>16. Sane(e, o)
    BY <2>9, <2>10, <2>11, <2>12, <2>13, <2>14, <2>15 DEF Held, Sane
  <2>17. TurnBound(t, e) /\ TurnRow(t, e)
    <3>1. t.hold \in Entries \cup {None} BY <1>0, TurnFacts
    <3> QED BY <2>5, <2>7, <3>1 DEF Held, SaneTurn, TurnBound, TurnRow
  <2>18. TurnSession(t, e) BY <2>5, <2>6 DEF Held, SaneTurn, TurnSession, LiveRun
  <2>19. Severed(t, e) BY <2>5, <2>6 DEF Held, SaneTurn, Severed
  <2>20. Held(e, t, o)
    BY <1>1, <1>2, <2>1, <2>16, <2>17, <2>18, <2>19 DEF Held, SaneTurn
  <2>21. Accounted(d, e) BY <2>5, AccountedCopy
  <2> QED BY <1>1, <2>1, <2>5, <2>20, <2>21
<1> QED BY <1>3, <1>4

-----------------------------------------------------------------------------
(* The tails of a turn. Lands(d) is what a step from d must establish.     *)

\* After the step, the entry e has an outcome, or a row or the turn waits on it.
Tracks(e) ==
    \/ hasCloser(db', e)
    \/ \E g \in Entries : db'.hold[g].st # "absent" /\ db'.hold[g].entry = e
    \/ turn'.pc # "idle" /\ turn'.entry = e

KeepsParked(d) ==
    /\ \A e \in Entries : hasCloser(d, e) => hasCloser(db', e)
    /\ \A h \in Entries : d.hold[h].st = "parked" => Tracks(d.hold[h].entry)

Lands(d) == Sane(db', orphan') /\ SaneTurn(turn', db') /\ KeepsParked(d)

LEMMA ParkedEntry ==
    ASSUME NEW d \in Database, RowsOpen(d), NEW h \in Entries, d.hold[h].st = "parked"
    PROVE  d.hold[h].entry \in Entries /\ d.hold[h].entry \in d.opened
BY Fields DEF RowsOpen, Present

LEMMA LandsAccounted ==
    ASSUME NEW CONSTANT a \in Database, RowsOpen(a), NEW CONSTANT b, Accounted(a, b), Lands(b)
    PROVE  Lands(a)
<1>1. ASSUME NEW h \in Entries, a.hold[h].st = "parked" PROVE Tracks(a.hold[h].entry)
  <2>1. a.hold[h].entry \in Entries BY <1>1, ParkedEntry
  <2>2. CASE hasCloser(b, a.hold[h].entry)
    <3>1. hasCloser(db', a.hold[h].entry) BY <2>1, <2>2 DEF Lands, KeepsParked
    <3> QED BY <3>1 DEF Tracks
  <2>3. CASE b.hold[h].st = "parked" /\ b.hold[h].entry = a.hold[h].entry
    <3>1. Tracks(b.hold[h].entry) BY <2>3 DEF Lands, KeepsParked
    <3> QED BY <2>3, <3>1
  <2> QED BY <1>1, <2>2, <2>3 DEF Accounted
<1>2. \A e \in Entries : hasCloser(a, e) => hasCloser(db', e)
  BY DEF Accounted, Lands, KeepsParked
<1>3. KeepsParked(a) BY <1>1, <1>2 DEF KeepsParked
<1> QED BY <1>3 DEF Lands

LEMMA KeepsAccounted ==
    ASSUME NEW CONSTANT d, Accounted(d, db') PROVE KeepsParked(d)
<1>1. ASSUME NEW h \in Entries, d.hold[h].st = "parked" PROVE Tracks(d.hold[h].entry)
  BY <1>1 DEF Accounted, Tracks
<1> QED BY <1>1 DEF KeepsParked, Accounted

LEMMA SaneNone == ASSUME NEW d, NEW o, Sane(d, o) PROVE Sane(d, None)
BY DEF Sane, OrphanHuman

LEMMA SaneIdle == ASSUME NEW d PROVE SaneTurn(Idle, d)
BY DEF SaneTurn, TurnBound, TurnSession, TurnRow, Severed, Idle

\* What HeldTo leaves open: sessions and grants stay, only the turn's task
\* may begin to wait, and the new row is the call that was parked.
HeldMore(d, t, h, row, d2) ==
    /\ d2.sess = d.sess /\ d2.grants = d.grants
    /\ \A r \in Runs : /\ d2.run[r].sess = d.run[r].sess /\ d2.run[r].slot = d.run[r].slot
                       /\ LiveRun(d2, r) => LiveRun(d, r)
                       /\ Waiting(d2, r) => Waiting(d, r) \/ r = t.run
    /\ d2.hold[h].sess = row.sess /\ d2.hold[h].tool = row.tool

\* The same of Park and the status parkInputHold writes.
ParkedMore(d, t, p) ==
    /\ p.sess = d.sess /\ p.grants = d.grants
    /\ \A r \in Runs : /\ p.run[r].sess = d.run[r].sess /\ p.run[r].slot = d.run[r].slot
                       /\ LiveRun(p, r) => LiveRun(d, r)
                       /\ Waiting(p, r) => Waiting(d, r) \/ r = t.run

LEMMA ParkMore ==
    ASSUME NEW d \in Database, NEW t, NEW h \in Entries, NEW row \in Row
    PROVE  /\ ParkedMore(d, t, Park(d, h, row))
           /\ ParkedMore(d, t, markNeedsInput(Park(d, h, row), t.run))
<1> DEFINE w == WithRow(d, h, row)
           p == [w EXCEPT !.opened = @ \cup {h}]
           from == {"running", "awaiting_confirmation"}
           R == {t.run}
           m == MoveRuns(p, R, from, "needs_input")
<1>1. w \in Database /\ w.sess = d.sess /\ w.run = d.run /\ w.grants = d.grants
  <2> HIDE DEF p, from, R, m
  <2>1. /\ w \in Database /\ w.sess = d.sess /\ w.run = d.run /\ w.grants = d.grants
        /\ w.hold = [g \in Entries |-> IF g = h THEN row ELSE d.hold[g]]
    BY WithRowFields
  <2> QED BY <2>1
<1>2. Park(d, h, row) = p BY DEF Park
<1> HIDE DEF w
<1>3. p \in Database /\ p.sess = d.sess /\ p.run = d.run /\ p.grants = d.grants
  <2>1. w \in Database BY <1>1
  <2>2. p \in Database BY <2>1 DEF Database
  <2>3. p.sess = w.sess /\ p.run = w.run /\ p.grants = w.grants BY <2>1 DEF Database
  <2> QED BY <1>1, <2>2, <2>3
<1> HIDE DEF p
<1>4. ParkedMore(d, t, p) BY <1>3 DEF ParkedMore, LiveRun, Waiting
<1>5. markNeedsInput(p, t.run) = m BY DEF markNeedsInput
<1>6. /\ "needs_input" \in RunStatus /\ from \subseteq NonTerminal
      /\ \A r \in R : r = t.run
  BY DEF RunStatus, NonTerminal
<1> HIDE DEF from, R
<1>7. /\ m.sess = p.sess /\ m.grants = p.grants
      /\ \A r \in Runs :
            /\ m.run[r].sess = p.run[r].sess /\ m.run[r].slot = p.run[r].slot
            /\ m.run[r].status = IF r \in R /\ p.run[r].status \in from
                                 THEN "needs_input" ELSE p.run[r].status
  BY <1>3, <1>6, MoveRunsFields
<1> HIDE DEF m
<1>8. \A r \in Runs : /\ LiveRun(m, r) => LiveRun(d, r)
                      /\ Waiting(m, r) => Waiting(d, r) \/ r = t.run
  BY <1>3, <1>6, <1>7 DEF LiveRun, Waiting
<1>9. ParkedMore(d, t, m) BY <1>3, <1>7, <1>8 DEF ParkedMore
<1> QED BY <1>2, <1>4, <1>5, <1>9

LEMMA HeldDatabaseMore ==
    ASSUME NEW d \in Database, NEW t \in Turn, NEW h \in Entries, h # t.hold,
           NEW row \in Row, NEW kind, NEW p, ParkedTo(d, h, row, kind, p),
           ParkedMore(d, t, p)
    PROVE  HeldMore(d, t, h, row, HeldDatabase(p, t, h))
<1> DEFINE row2 == [p.hold[h] EXCEPT !.direct = (t.op = "direct")]
           kept == WithRow(p, h, row2)
           one == deleteHeldToolCalls(kept, {t.hold})
           two == CloseObserved(kept, t.entry)
           three == deleteHeldToolCalls(two, {t.hold})
           up(x) == updateCommissionStatus(x, t.run, "awaiting_confirmation")
<1>0. p \in Database /\ p.hold[h] = row BY DEF ParkedTo
<1>1. row2 \in Row /\ row2.sess = row.sess /\ row2.tool = row.tool BY <1>0 DEF Row
<1>2. \/ HeldDatabase(p, t, h) = up(kept) \/ HeldDatabase(p, t, h) = up(one)
      \/ HeldDatabase(p, t, h) = up(three) \/ HeldDatabase(p, t, h) = kept
  BY DEF HeldDatabase
<1> HIDE DEF row2
<1>3. kept \in Database /\ kept.run = p.run /\ kept.sess = p.sess /\ kept.grants = p.grants
      /\ kept.hold = [g \in Entries |-> IF g = h THEN row2 ELSE p.hold[g]]
  BY <1>0, <1>1, WithRowFields
<1>4. kept.hold[h] = row2 BY <1>3
<1> HIDE DEF kept
<1>k. kept \in Database BY <1>3
<1>5. /\ one \in Database /\ one.run = kept.run /\ one.sess = kept.sess
      /\ one.grants = kept.grants
      /\ one.hold = [g \in Entries |-> IF g \in {t.hold} THEN NoRow ELSE kept.hold[g]]
  BY <1>k, DeleteFields
<1>o. one.hold[h] = kept.hold[h] BY <1>5
<1>6. /\ two \in Database /\ two.run = kept.run /\ two.sess = kept.sess
      /\ two.grants = kept.grants /\ two.hold = kept.hold
  BY <1>k, CloseObservedFields
<1> HIDE DEF two
<1>w. two \in Database BY <1>6
<1>7. /\ three \in Database /\ three.run = two.run /\ three.sess = two.sess
      /\ three.grants = two.grants
      /\ three.hold = [g \in Entries |-> IF g \in {t.hold} THEN NoRow ELSE two.hold[g]]
  BY <1>w, DeleteFields
<1>r. three.hold[h] = two.hold[h] BY <1>7
<1> HIDE DEF one, three
<1>8. ASSUME NEW x \in Database, x.run = p.run, x.sess = p.sess, x.grants = p.grants,
             x.hold[h] = row2
      PROVE  HeldMore(d, t, h, row, x) /\ HeldMore(d, t, h, row, up(x))
  <2> DEFINE from == {"running", "awaiting_confirmation"}
             R == {t.run}
             y == MoveRuns(x, R, from, "awaiting_confirmation")
  <2>1. up(x) = y BY DEF updateCommissionStatus
  <2>2. /\ "awaiting_confirmation" \in RunStatus /\ from \subseteq NonTerminal
        /\ \A r \in R : r = t.run
    BY DEF RunStatus, NonTerminal
  <2> HIDE DEF from, R
  <2>3. /\ y.sess = x.sess /\ y.grants = x.grants /\ y.hold = x.hold
        /\ \A r \in Runs :
            /\ y.run[r].sess = x.run[r].sess /\ y.run[r].slot = x.run[r].slot
            /\ y.run[r].status = IF r \in R /\ x.run[r].status \in from
                                 THEN "awaiting_confirmation" ELSE x.run[r].status
    BY <1>8, <2>2, MoveRunsFields
  <2> HIDE DEF y
  <2>4. \A r \in Runs : /\ LiveRun(x, r) <=> LiveRun(p, r)
                        /\ Waiting(x, r) <=> Waiting(p, r)
                        /\ LiveRun(y, r) => LiveRun(p, r)
                        /\ Waiting(y, r) => Waiting(p, r) \/ r = t.run
    BY <1>8, <2>2, <2>3 DEF LiveRun, Waiting
  <2>5. HeldMore(d, t, h, row, x) BY <1>1, <1>8, <2>4 DEF ParkedMore, HeldMore
  <2>6. HeldMore(d, t, h, row, y) BY <1>1, <1>8, <2>3, <2>4 DEF ParkedMore, HeldMore
  <2> QED BY <2>1, <2>5, <2>6
<1> HIDE DEF up
<1>9. HeldMore(d, t, h, row, kept) /\ HeldMore(d, t, h, row, up(kept))
  BY <1>3, <1>4, <1>8
<1>10. HeldMore(d, t, h, row, up(one)) BY <1>3, <1>4, <1>5, <1>o, <1>8
<1>11. HeldMore(d, t, h, row, up(three)) BY <1>3, <1>4, <1>6, <1>7, <1>r, <1>8
<1> QED BY <1>2, <1>9, <1>10, <1>11
\* What a tail of the turn t must establish: Lands, and the entry a provide
\* took over from its row is not lost.
Ends(d, t) == Lands(d) /\ (t.op = "provide" => Tracks(t.entry))

\* What lets the turn t park a row of the session s.
Parkable(d, t, s) ==
    /\ s \in Sessions /\ d.sess[s] # "none"
    /\ t.run # None /\ LiveRun(d, t.run) => s = d.run[t.run].sess
    /\ ScopedTools = {} => d.sess[s] = "open"

Bound(d, t) == t.run # None /\ t.tool \in SlotTools => d.run[t.run].slot

LEMMA EndHeldSane ==
    ASSUME NEW CONSTANT d, NEW CONSTANT t, Held(d, t, orphan), t.pc # "idle",
           NEW CONSTANT h \in Entries, h \notin d.opened,
           NEW CONSTANT kind \in {"confirmation", "input"},
           NEW CONSTANT row \in Row, row.st = "parked", row.kind = kind, row.run = t.run,
           row.entry = h, row.tool = t.tool, Parkable(d, t, row.sess),
           kind = "confirmation" => Bound(d, t),
           NEW CONSTANT p, ParkedTo(d, h, row, kind, p), ParkedMore(d, t, p),
           EndHeld(p, t, h)
    PROVE  Ends(d, t)
<1> DEFINE d2 == HeldDatabase(p, t, h)
<1>0. /\ d \in Database /\ t \in Turn /\ RowsOpen(d) /\ orphan \in Entries \cup {None}
  BY DEF Held, Audit, Store
<1>1. h # t.hold BY NoneFacts DEF Held, Audit, TurnRun
<1>2. d2 \in Database /\ HeldTo(d, t, h, kind, d2) BY <1>0, <1>1, HeldDatabaseTo
<1>3. HeldMore(d, t, h, row, d2) BY <1>0, <1>1, HeldDatabaseMore
<1>4. /\ db' = d2 /\ turn' = Idle
      /\ orphan' = IF t.run = None /\ t.op # "direct" THEN h ELSE orphan
  BY DEF EndHeld
<1> HIDE DEF d2
<1>5. d2.sess = d.sess /\ d2.grants = d.grants BY <1>3 DEF HeldMore
<1>6. /\ d2.hold[h].st = "parked" /\ d2.hold[h].kind = kind /\ d2.hold[h].run = t.run
      /\ d2.hold[h].sess = row.sess /\ d2.hold[h].tool = t.tool
  BY <1>2, <1>3 DEF HeldTo, HeldMore
<1>7. ~Present(d, h) BY <1>0 DEF RowsOpen
<1>8. \A g \in Entries : g # h =>
          \/ ~Present(d2, g) /\ g = t.hold
          \/ d2.hold[g] = d.hold[g]
  BY <1>2 DEF HeldTo, Present
<1>9. \A g \in Entries : g # h /\ Present(d2, g) => Present(d, g) /\ d2.hold[g] = d.hold[g]
  BY <1>8 DEF Present
<1>10. t.run \in Runs \cup {None} BY <1>0, TurnFacts
<1>11. \A r \in Runs : /\ d2.run[r].sess = d.run[r].sess
                       /\ LiveRun(d2, r) => LiveRun(d, r)
                       /\ Waiting(d2, r) => Waiting(d, r) \/ r = t.run
  BY <1>3 DEF HeldMore
<1>12. \A r \in Runs : d2.run[r].slot = d.run[r].slot BY <1>3 DEF HeldMore
<1>13. OneOpen(d2) /\ GrantsMinted(d2) BY <1>5 DEF Held, Sane, OneOpen, GrantsMinted
<1>14. RowsMinted(d2)
  <2> SUFFICES ASSUME NEW g \in Entries, Present(d2, g)
               PROVE  /\ d2.sess[d2.hold[g].sess] # "none"
                      /\ d2.hold[g].run # None /\ LiveRun(d2, d2.hold[g].run)
                           => d2.hold[g].sess = d2.run[d2.hold[g].run].sess
    BY DEF RowsMinted
  <2>1. CASE g = h BY <1>5, <1>6, <1>10, <1>11, <2>1 DEF Parkable
  <2>2. CASE g # h
    <3>1. Present(d, g) /\ d2.hold[g] = d.hold[g] BY <1>9, <2>2
    <3>2. d.hold[g].run # None => d.hold[g].run \in Runs BY <1>0, RowRun
    <3> QED BY <1>5, <1>11, <3>1, <3>2 DEF Held, Sane, RowsMinted
  <2> QED BY <2>1, <2>2
<1>15. RowsBound(d2)
  <2> SUFFICES ASSUME NEW g \in Entries, d2.hold[g].st = "parked",
                      d2.hold[g].kind = "confirmation", d2.hold[g].run # None,
                      d2.hold[g].tool \in SlotTools
               PROVE  d2.run[d2.hold[g].run].slot
    BY DEF RowsBound
  <2>1. CASE g = h
    <3>1. d2.hold[g].run = t.run /\ t.run \in Runs /\ t.tool \in SlotTools
          /\ kind = "confirmation"
      BY <1>6, <1>10, <2>1
    <3>2. d.run[t.run].slot BY <1>6, <2>1, <3>1 DEF Bound
    <3> QED BY <1>12, <3>1, <3>2
  <2>2. CASE g # h
    <3>1. d2.hold[g] = d.hold[g] BY <1>9, <2>2 DEF Present
    <3>2. d.hold[g].run \in Runs BY <1>0, <3>1, RowRun
    <3>3. d.run[d.hold[g].run].slot BY <3>1 DEF Held, Sane, RowsBound
    <3> QED BY <1>12, <3>1, <3>2, <3>3
  <2> QED BY <2>1, <2>2
<1>16. OrphanHuman(d2, orphan')
  <2>1. d2.opened = d.opened \cup {h} BY <1>2 DEF HeldTo
  <2>2. CASE orphan' = h BY <1>4, <1>6, <2>1, <2>2 DEF OrphanHuman, Held, Sane
  <2>3. CASE orphan' = orphan /\ orphan # h
    BY <1>0, <1>9, <2>1, <2>3 DEF OrphanHuman, Held, Sane
  <2>4. orphan = h => orphan' = h /\ FALSE BY <1>0, NoneFacts DEF Held, Sane, OrphanHuman
  <2> QED BY <1>4, <2>2, <2>3, <2>4
<1>17. ScopedTools = {} => RowsOnOpen(d2)
  <2> SUFFICES ASSUME ScopedTools = {}, NEW g \in Entries, Present(d2, g)
               PROVE  d2.sess[d2.hold[g].sess] = "open"
    BY DEF RowsOnOpen
  <2>1. CASE g = h BY <1>5, <1>6, <2>1 DEF Parkable
  <2>2. CASE g # h BY <1>5, <1>9, <2>2 DEF Held, Sane, RowsOnOpen
  <2> QED BY <2>1, <2>2
<1>18. RunsHaveRows(d) => RunsHaveRows(d2)
  <2> SUFFICES ASSUME RunsHaveRows(d), NEW r \in Runs, Waiting(d2, r)
               PROVE  \E g \in Entries : Present(d2, g) /\ d2.hold[g].run = r
    BY DEF RunsHaveRows
  <2>1. CASE r = t.run BY <1>6, <2>1 DEF Present
  <2>2. CASE r # t.run
    <3>1. PICK g \in Entries : Present(d, g) /\ d.hold[g].run = r
      BY <1>11, <2>2 DEF RunsHaveRows
    <3>2. g # h BY <1>7, <3>1
    <3>3. g = t.hold => FALSE
      BY <2>2, <3>1, NoneFacts DEF Held, SaneTurn, TurnRow
    <3>4. d2.hold[g] = d.hold[g] BY <1>8, <3>2, <3>3
    <3> QED BY <3>1, <3>4 DEF Present
  <2> QED BY <2>1, <2>2
<1>19. Sane(d2, orphan')
  BY <1>13, <1>14, <1>15, <1>16, <1>17, <1>18 DEF Held, Sane
<1>20. SaneTurn(Idle, d2) BY SaneIdle
<1>21. \A e \in Entries : d.obs[e] \in Nat /\ d.inf[e] \in Nat BY <1>0, RowFacts
<1>22. \A e \in Entries : /\ hasCloser(d, e) => hasCloser(d2, e)
                          /\ t.op = "provide" /\ e = t.entry => hasCloser(d2, e)
  BY <1>2, <1>21 DEF HeldTo, hasCloser
<1>23. Accounted(d, d2)
  <2>1. ASSUME NEW g \in Entries, d.hold[g].st = "parked"
        PROVE  d2.hold[g].st = "parked" /\ d2.hold[g].entry = d.hold[g].entry
    <3>1. g # h BY <1>7, <2>1 DEF Present
    <3>2. g # t.hold BY <2>1, NoneFacts DEF Held, SaneTurn, TurnRow
    <3> QED BY <1>8, <2>1, <3>1, <3>2
  <2> QED BY <1>22, <2>1 DEF Accounted
<1>24. KeepsParked(d) BY <1>4, <1>23, KeepsAccounted
<1>25. t.op = "provide" => Tracks(t.entry)
  <2> SUFFICES ASSUME t.op = "provide" PROVE Tracks(t.entry) OBVIOUS
  <2>1. t.entry \in Entries BY <1>0, TurnFacts DEF Held, Audit, TurnOwns
  <2> QED BY <1>4, <1>22, <2>1 DEF Tracks
<1> QED BY <1>4, <1>19, <1>20, <1>24, <1>25 DEF Ends, Lands

\* The loop's answer: the row of the turn's task goes with the task's wait.
LEMMA EndFinishedSane ==
    ASSUME NEW CONSTANT d, NEW CONSTANT u, Held(d, u, orphan), u.pc # "idle",
           NEW CONSTANT t, t.run = u.run, t.hold = u.hold, EndFinished(d, t)
    PROVE  Lands(d)
<1> DEFINE x == IF t.op = "resolve" THEN deleteHeldToolCalls(d, {t.hold}) ELSE d
<1>0. /\ d \in Database /\ u \in Turn /\ RowsOpen(d) /\ orphan \in Entries \cup {None}
      /\ Good(d)
  BY DEF Held, Audit, Store
<1>1. PICK status \in {"completed", "denied", "failed"} :
          /\ db' = IF t.op = "chat" THEN d ELSE updateCommissionStatus(x, t.run, status)
          /\ turn' = Idle
          /\ orphan' = IF t.run = None /\ ~t.direct THEN None ELSE orphan
  BY DEF EndFinished
<1> DEFINE y == updateCommissionStatus(x, t.run, status)
<1>2. /\ x \in Database /\ x.sess = d.sess /\ x.run = d.run /\ x.grants = d.grants
      /\ x.obs = d.obs /\ x.inf = d.inf /\ x.opened = d.opened
      /\ \A g \in Entries : \/ x.hold[g].st = "absent" /\ g = t.hold
                            \/ x.hold[g] = d.hold[g]
  <2> DEFINE c == deleteHeldToolCalls(d, {t.hold})
  <2>1. /\ c \in Database /\ c.sess = d.sess /\ c.run = d.run /\ c.grants = d.grants
        /\ c.obs = d.obs /\ c.inf = d.inf /\ c.opened = d.opened
        /\ c.hold = [g \in Entries |-> IF g \in {t.hold} THEN NoRow ELSE d.hold[g]]
    BY <1>0, DeleteFields
  <2> HIDE DEF c
  <2>2. \A g \in Entries : \/ c.hold[g].st = "absent" /\ g = t.hold
                           \/ c.hold[g] = d.hold[g]
    BY <2>1, NoRowAbsent
  <2>3. x = c \/ x = d BY DEF c
  <2> HIDE DEF x
  <2> QED BY <1>0, <2>1, <2>2, <2>3
<1> HIDE DEF x
<1>3. Shrinks(d, x)
  <2>1. \A g \in Entries : RowShrinks(d.hold[g], x.hold[g]) BY <1>2 DEF RowShrinks
  <2> QED BY <1>0, <1>2, <2>1, ShrinksRows
<1>4. /\ Shrinks(x, y) /\ y.hold = x.hold
      /\ \A q \in Runs : y.run[q].status =
            IF q = t.run /\ x.run[q].status \in {"running", "awaiting_confirmation"}
            THEN status ELSE x.run[q].status
  BY <1>2, UpdateStatusSane
<1>5. y.obs = x.obs /\ y.inf = x.inf
  <2>1. status \in RunStatus BY DEF RunStatus, Terminal
  <2> QED BY <1>2, <2>1, MoveRunsFields DEF updateCommissionStatus
<1> HIDE DEF y
<1>6. Shrinks(d, y) BY <1>0, <1>3, <1>4, ShrinksTrans
<1>7. RunsHaveRows(d) => RunsHaveRows(y)
  <2> SUFFICES ASSUME RunsHaveRows(d), NEW r \in Runs, Waiting(y, r)
               PROVE  \E g \in Entries : Present(y, g) /\ y.hold[g].run = r
    BY DEF RunsHaveRows
  <2>1. r = t.run => d.run[r].status # "needs_input"
    BY NoneFacts DEF Held, Audit, TurnRun
  <2>2. r # t.run /\ Waiting(d, r) BY <1>2, <1>4, <2>1 DEF Waiting
  <2>3. PICK g \in Entries : Present(d, g) /\ d.hold[g].run = r
    BY <2>2 DEF RunsHaveRows
  <2>4. g # t.hold BY <2>2, <2>3, NoneFacts DEF Held, SaneTurn, TurnRow
  <2>5. y.hold[g] = d.hold[g] BY <1>2, <1>4, <2>4
  <2> QED BY <2>3, <2>5 DEF Present
<1>8. Sane(y, orphan) BY <1>0, <1>6, <1>7, SaneShrinks DEF Held, Sane
<1>9. Accounted(d, y)
  <2>1. ASSUME NEW g \in Entries, d.hold[g].st = "parked"
        PROVE  y.hold[g] = d.hold[g]
    <3>1. g # t.hold BY <2>1, NoneFacts DEF Held, SaneTurn, TurnRow
    <3> QED BY <1>2, <1>4, <3>1
  <2>2. \A e \in Entries : hasCloser(d, e) => hasCloser(y, e) BY <1>2, <1>5 DEF hasCloser
  <2> QED BY <2>1, <2>2 DEF Accounted
<1>10. db' = d \/ db' = y BY <1>1 DEF y
<1>11. Sane(db', orphan) /\ Accounted(d, db')
  BY <1>8, <1>9, <1>10, AccountedCopy DEF Held
<1>12. Sane(db', orphan') BY <1>1, <1>11, SaneNone
<1>13. KeepsParked(d) BY <1>11, KeepsAccounted
<1> QED BY <1>1, <1>12, <1>13, SaneIdle DEF Lands

\* The turn as resumeAndFinalize goes on with it.
Resumed(t) == [t EXCEPT !.pc = "llm", !.op = "resolve", !.tool = None,
                        !.sess = None, !.entry = None]

LEMMA ResumedFields ==
    ASSUME NEW t \in Turn
    PROVE  /\ Resumed(t) \in Turn /\ Resumed(t).pc = "llm" /\ Resumed(t).op = "resolve"
           /\ Resumed(t).run = t.run /\ Resumed(t).hold = t.hold
           /\ Resumed(t).entry = None /\ Resumed(t).severed = t.severed
BY DEF Resumed, Turn

LEMMA ResumeSane ==
    ASSUME NEW CONSTANT d, NEW CONSTANT t \in Turn, Held(d, Resumed(t), orphan), Resume(d, t)
    PROVE  Lands(d) /\ turn'.pc # "tool"
<1>1. CASE t.direct
  <2> DEFINE u == [t EXCEPT !.op = "resolve"]
  <2>1. u.run = t.run /\ u.hold = t.hold BY DEF Turn
  <2>2. EndFinished(d, u) BY <1>1 DEF Resume
  <2> HIDE DEF u
  <2>3. Lands(d) BY <2>1, <2>2, ResumedFields, EndFinishedSane
  <2>4. turn' = Idle BY <2>2 DEF EndFinished
  <2> QED BY <2>3, <2>4 DEF Idle
<1>2. CASE ~t.direct
  <2>1. db' = d /\ turn' = Resumed(t) /\ orphan' = orphan BY <1>2 DEF Resume, Resumed
  <2>2. KeepsParked(d) BY <2>1, AccountedCopy, KeepsAccounted
  <2> QED BY <2>1, <2>2, ResumedFields DEF Held, Lands
<1> QED BY <1>1, <1>2

\* The entry of the turn's row is closed, and the row answered.
LEMMA AnswerSane ==
    ASSUME NEW CONSTANT d, Good(d), ran \in [Entries -> Nat], Store(d, ran),
           orphan \in Entries \cup {None}, Sane(d, orphan),
           NEW CONSTANT t \in Turn, t.pc # "idle", TurnRun(d, t),
           t.op \in {"resolve", "provide"}, Severed(t, d),
           NEW CONSTANT e, Owns(d, t.hold, e),
           Present(d, t.hold) => d.hold[t.hold].run = t.run
    PROVE  LET a == SetTurnState(CloseObserved(d, e), t.hold, "answered") IN
           /\ Held(a, Resumed(t), orphan) /\ Accounted(d, a) /\ hasCloser(a, e)
<1> DEFINE c == CloseObserved(d, e)
           a == SetTurnState(c, t.hold, "answered")
           u == Resumed(t)
<1>0. d \in Database /\ t.hold \in Entries /\ e \in Entries
  BY Fields DEF Good, Owns
<1>1. Present(d, t.hold) /\ d.hold[t.hold].run # None =>
          d.run[d.hold[t.hold].run].status # "needs_input"
  BY DEF TurnRun
<1>2. /\ a \in Database /\ Store(a, ran) /\ a.run = d.run /\ a.opened = d.opened
      /\ \A g \in Entries : /\ Present(a, g) <=> Present(d, g)
                            /\ a.hold[g].run = d.hold[g].run
  BY <1>0, <1>1, AnswerStore
<1>3. /\ c \in Database /\ c.obs = [d.obs EXCEPT ![e] = @ + 1] /\ c.hold = d.hold
      /\ c.inf = d.inf
  BY <1>0, CloseObservedFields
<1>c. /\ Shrinks(d, c)
      /\ RunsHaveRows(d) => RunsHaveRows(c)
  BY <1>0, CloseObservedSane
<1>4. Good(c) BY CloseObservedGood
<1> HIDE DEF c
<1>5. /\ Shrinks(c, a)
      /\ RunsHaveRows(c) => RunsHaveRows(a)
  BY <1>0, <1>3, SetTurnStateSane
<1>6. Good(a) BY <1>4, SetTurnStateGood
<1>7. /\ a.obs = c.obs /\ a.inf = c.inf
      /\ a.hold = [g \in Entries |->
            IF g = t.hold /\ c.hold[t.hold].st # "absent"
            THEN [c.hold[t.hold] EXCEPT !.st = "answered"] ELSE c.hold[g]]
  <2>1. c \in Database BY <1>3
  <2> QED BY <2>1, SetTurnStateFields
<1> HIDE DEF a
<1>8. Shrinks(d, a) BY <1>c, <1>5, ShrinksTrans
<1>9. Sane(a, orphan) BY <1>c, <1>5, <1>8, SaneShrinks DEF Sane
<1>10. /\ u \in Turn /\ u.pc = "llm" /\ u.op = "resolve" /\ u.run = t.run
       /\ u.hold = t.hold /\ u.entry = None /\ u.severed = t.severed
  BY ResumedFields
<1> HIDE DEF u
<1>11. TurnOwns(a, u, ran) BY <1>10 DEF TurnOwns
<1>12. TurnRun(a, u) BY <1>2, <1>10 DEF TurnRun
<1>13. d.hold[t.hold] \in Row BY <1>0, Fields
<1>14. a.hold[t.hold].st # "parked"
  <2>1. CASE Present(d, t.hold)
    BY <1>0, <1>3, <1>7, <1>13, <2>1 DEF Present, Row
  <2>2. CASE ~Present(d, t.hold) BY <1>0, <1>2, <2>2 DEF Present
  <2> QED BY <2>1, <2>2
<1>15. SaneTurn(u, a)
  <2>1. TurnBound(u, a) /\ TurnSession(u, a) BY <1>10 DEF TurnBound, TurnSession
  <2>2. TurnRow(u, a) BY <1>0, <1>2, <1>10, <1>14 DEF TurnRow
  <2>3. Severed(u, a) BY <1>8, <1>10 DEF Severed, Shrinks
  <2> QED BY <2>1, <2>2, <2>3 DEF SaneTurn
<1>16. Held(a, u, orphan)
  BY <1>2, <1>6, <1>9, <1>10, <1>11, <1>12, <1>15 DEF Held, Audit
<1>17. \A x \in Entries : d.obs[x] \in Nat /\ d.inf[x] \in Nat BY <1>0, RowFacts
<1>18. \A x \in Entries : a.obs[x] = (IF x = e THEN d.obs[x] + 1 ELSE d.obs[x])
                          /\ a.inf[x] = d.inf[x]
  <2>1. d.obs \in [Entries -> Nat] BY <1>0, Fields
  <2> QED BY <1>3, <1>7, <2>1
<1>19. \A x \in Entries : hasCloser(d, x) => hasCloser(a, x)
  BY <1>17, <1>18 DEF hasCloser
<1>20. hasCloser(a, e) BY <1>0, <1>17, <1>18 DEF hasCloser
<1>21. ASSUME NEW g \in Entries, d.hold[g].st = "parked"
       PROVE  \/ hasCloser(a, d.hold[g].entry)
              \/ a.hold[g].st = "parked" /\ a.hold[g].entry = d.hold[g].entry
  <2>1. CASE g = t.hold
    <3>1. d.hold[g].entry = e BY <1>21, <2>1 DEF Owns, Present
    <3> QED BY <1>20, <3>1
  <2>2. CASE g # t.hold
    <3>1. a.hold[g] = d.hold[g] BY <1>3, <1>7, <2>2
    <3> QED BY <1>21, <3>1
  <2> QED BY <2>1, <2>2
<1>22. Accounted(d, a) BY <1>19, <1>21 DEF Accounted
<1> QED BY <1>16, <1>20, <1>22 DEF a, c, u

LEMMA AnswerLands ==
    ASSUME NEW CONSTANT d, Good(d), ran \in [Entries -> Nat], Store(d, ran),
           orphan \in Entries \cup {None}, Sane(d, orphan),
           NEW CONSTANT t \in Turn, t.pc # "idle", TurnRun(d, t),
           t.op \in {"resolve", "provide"}, Severed(t, d),
           NEW CONSTANT e, Owns(d, t.hold, e),
           Present(d, t.hold) => d.hold[t.hold].run = t.run,
           Resume(SetTurnState(CloseObserved(d, e), t.hold, "answered"), t)
    PROVE  Lands(d) /\ hasCloser(db', e) /\ turn'.pc # "tool"
<1> DEFINE a == SetTurnState(CloseObserved(d, e), t.hold, "answered")
<1>1. Held(a, Resumed(t), orphan) /\ Accounted(d, a) /\ hasCloser(a, e) BY AnswerSane
<1>2. Resume(a, t) OBVIOUS
<1> HIDE DEF a
<1>3. Lands(a) /\ turn'.pc # "tool" BY <1>1, <1>2, ResumeSane
<1>4. d \in Database /\ RowsOpen(d) /\ e \in Entries BY Fields DEF Good, Store, Owns
<1>5. hasCloser(db', e) BY <1>1, <1>3, <1>4 DEF Lands, KeepsParked
<1>6. Lands(d) BY <1>1, <1>3, <1>4, LandsAccounted
<1> QED BY <1>3, <1>5, <1>6

LEMMA ToolAnsweredSane ==
    ASSUME NEW CONSTANT d, NEW CONSTANT t, Held(d, t, orphan), t.pc # "idle",
           "split_close" \notin Faults, ToolAnswered(d, t)
    PROVE  Ends(d, t) /\ turn'.pc # "tool"
<1>0. t \in Turn /\ ran \in [Entries -> Nat] BY DEF Held, Audit
<1>1. CASE t.op = "provide"
  <2>1. Resume(SetTurnState(CloseObserved(d, t.entry), t.hold, "answered"), t)
    BY <1>1 DEF ToolAnswered, FaultAfterClose
  <2>2. /\ Owns(d, t.hold, t.entry) /\ Store(d, ran) /\ TurnRun(d, t) /\ Good(d)
        /\ Sane(d, orphan) /\ orphan \in Entries \cup {None} /\ Severed(t, d)
    BY <1>1 DEF Held, Audit, TurnOwns, SaneTurn
  <2>3. Present(d, t.hold) => d.hold[t.hold].run = t.run
    BY <2>2, NoneFacts DEF Held, SaneTurn, TurnRow, Owns
  <2>4. Lands(d) /\ hasCloser(db', t.entry) /\ turn'.pc # "tool"
    BY <1>0, <1>1, <2>1, <2>2, <2>3, AnswerLands
  <2> QED BY <2>4 DEF Ends, Tracks
<1>2. CASE t.op = "direct"
  <2>1. db' = d /\ turn' = Idle /\ orphan' = orphan BY <1>2 DEF ToolAnswered
  <2>2. KeepsParked(d) BY <2>1, AccountedCopy, KeepsAccounted
  <2>3. Lands(d) BY <2>1, <2>2, SaneIdle DEF Held, Lands
  <2> QED BY <1>2, <2>1, <2>3 DEF Ends, Idle
<1>3. CASE t.op \notin {"provide", "direct"}
  <2> DEFINE u == [t EXCEPT !.pc = "llm", !.tool = None, !.sess = None]
  <2>1. /\ u \in Turn /\ u.run = t.run /\ u.pc = "llm" /\ u.hold = t.hold
        /\ u.severed = t.severed
    BY <1>0 DEF Turn
  <2>2. db' = d /\ turn' = u /\ orphan' = orphan BY <1>3 DEF ToolAnswered
  <2> HIDE DEF u
  <2>3. SaneTurn(u, d)
    BY <2>1 DEF Held, SaneTurn, TurnBound, TurnSession, TurnRow, Severed
  <2>4. KeepsParked(d) BY <2>2, AccountedCopy, KeepsAccounted
  <2>5. Lands(d) BY <2>2, <2>3, <2>4 DEF Held, Lands
  <2> QED BY <1>3, <2>1, <2>2, <2>5 DEF Ends
<1> QED BY <1>1, <1>2, <1>3

LEMMA NewRowMore ==
    ASSUME NEW t \in Turn, t.tool \in Tools, t.sess \in Sessions, NEW h \in Entries,
           NEW kind \in {"confirmation", "input"}, NEW spend \in BOOLEAN
    PROVE  LET row == NewRow(t, h, kind, spend) IN row.sess = t.sess /\ row.tool = t.tool
BY DEF NewRow

LEMMA DecideSane ==
    ASSUME NEW CONSTANT d, NEW CONSTANT t, Held(d, t, orphan), t.pc \in {"llm", "scopes"},
           t.tool \in Tools, Parkable(d, t, t.sess), Bound(d, t), Decide(d, t)
    PROVE  /\ Ends(d, t)
           /\ ScopedTools = {} /\ t.severed => turn'.pc # "tool"
<1>0. d \in Database /\ t \in Turn /\ t.sess \in Sessions BY DEF Held, Audit, Parkable
<1>1. ASSUME NEW h \in Entries \ d.opened,
             EndHeld(Park(d, h, NewRow(t, h, "confirmation", Granted(d, t))), t, h)
      PROVE  Ends(d, t) /\ turn'.pc # "tool"
  <2> DEFINE row == NewRow(t, h, "confirmation", Granted(d, t))
             p == Park(d, h, row)
  <2>1. Granted(d, t) \in BOOLEAN BY DEF Granted
  <2>2. /\ row \in Row /\ row.st = "parked" /\ row.kind = "confirmation"
        /\ row.run = t.run /\ row.entry = h
    BY <1>0, <2>1, NewRowFields
  <2>3. row.sess = t.sess /\ row.tool = t.tool BY <1>0, <2>1, NewRowMore
  <2> HIDE DEF row
  <2>4. ParkedTo(d, h, row, "confirmation", p) BY <1>0, <2>2, MarkedFields
  <2>5. ParkedMore(d, t, p) BY <1>0, <2>2, ParkMore
  <2>6. EndHeld(p, t, h) BY <1>1 DEF row
  <2>7. Parkable(d, t, row.sess) BY <2>3
  <2> HIDE DEF p
  <2>8. Ends(d, t) BY <2>2, <2>3, <2>4, <2>5, <2>6, <2>7, EndHeldSane
  <2>9. turn' = Idle BY <2>6 DEF EndHeld
  <2> QED BY <2>8, <2>9 DEF Idle
<1>2. ASSUME Granted(d, t), db' = d, turn' = [t EXCEPT !.pc = "tool"], orphan' = orphan
      PROVE  Ends(d, t) /\ (ScopedTools = {} => ~t.severed)
  <2> DEFINE u == [t EXCEPT !.pc = "tool"]
  <2>1. /\ u \in Turn /\ u.run = t.run /\ u.pc = "tool" /\ u.op = t.op /\ u.tool = t.tool
        /\ u.hold = t.hold /\ u.entry = t.entry /\ u.severed = t.severed
    BY <1>0 DEF Turn
  <2>2. turn' = u BY <1>2
  <2> HIDE DEF u
  <2>3. TurnBound(u, d) BY <2>1 DEF TurnBound, Bound
  <2>4. TurnSession(u, d) /\ TurnRow(u, d)
    BY <2>1 DEF Held, SaneTurn, TurnSession, TurnRow
  <2>5. Severed(u, d) BY <2>1 DEF Held, SaneTurn, Severed
  <2>6. SaneTurn(u, d) BY <2>3, <2>4, <2>5 DEF SaneTurn
  <2>7. KeepsParked(d) BY <1>2, AccountedCopy, KeepsAccounted
  <2>8. Lands(d) BY <1>2, <2>2, <2>6, <2>7 DEF Held, Lands
  <2>9. Tracks(t.entry) BY <2>1, <2>2 DEF Tracks
  <2>10. ScopedTools = {} => ~t.severed
    BY <1>0, <1>2 DEF Granted, Parkable, Held, SaneTurn, Severed
  <2> QED BY <2>8, <2>9, <2>10 DEF Ends
<1> QED BY <1>1, <1>2 DEF Decide

LEMMA HeldTurn ==
    ASSUME NEW d, NEW t, NEW o, Held(d, t, o), NEW u \in Turn, t.pc = "llm", u.pc = "llm",
           u.op = t.op, u.run = t.run, u.hold = t.hold, u.entry = t.entry,
           u.severed = t.severed
    PROVE  Held(d, u, o)
<1>1. Audit(d, u, ran) BY AuditTurn DEF Held
<1>2. SaneTurn(u, d)
  BY DEF Held, SaneTurn, TurnBound, TurnSession, TurnRow, Severed
<1> QED BY <1>1, <1>2 DEF Held

\* The task of a live run can park on the one open session.
LEMMA OpenParkable ==
    ASSUME NEW d, NEW t, NEW o, Held(d, t, o), NEW s \in Sessions, d.sess[s] = "open"
    PROVE  Parkable(d, t, s)
<1>1. t.run \in Runs \cup {None} BY TurnFacts DEF Held, Audit
<1>2. ASSUME t.run # None, LiveRun(d, t.run) PROVE s = d.run[t.run].sess
  <2>1. d.run[t.run].sess \in Sessions /\ d.sess[d.run[t.run].sess] = "open"
    BY <1>1, <1>2 DEF Held, Good, RunsGood, LiveRun
  <2> QED BY <2>1 DEF Held, Sane, OneOpen
<1> QED BY <1>2 DEF Parkable

LEMMA ExecuteToolSane ==
    ASSUME NEW CONSTANT d0, NEW CONSTANT t0, Held(d0, t0, orphan), t0.pc = "llm",
           NEW CONSTANT tool \in Tools, "split_close" \notin Faults,
           ExecuteTool(d0, t0, tool)
    PROVE  /\ Ends(d0, t0)
           /\ ScopedTools = {} /\ t0.severed => turn'.pc # "tool"
<1> DEFINE d1 == Reaped(d0)
           v == Sever(t0, d0, d1)
<1>1. Held(d1, t0, orphan) /\ Shrinks(d0, d1) /\ Accounted(d0, d1) BY ReapedSane
<1>2. Held(d1, v, orphan) BY <1>1, SeverSane
<1>3. t0 \in Turn BY DEF Held, Audit
<1>4. /\ v \in Turn /\ v.pc = "llm" /\ v.op = t0.op /\ v.entry = t0.entry
      /\ t0.severed => v.severed
  <2> DEFINE b == t0.severed \/ (t0.pc # "idle" /\ d1.sess # d0.sess)
             w == [t0 EXCEPT !.severed = b]
  <2>1. b \in BOOLEAN /\ v = w /\ (t0.severed => b) BY <1>3 DEF Sever, Turn
  <2> HIDE DEF b
  <2>2. /\ w \in Turn /\ w.pc = "llm" /\ w.op = t0.op /\ w.entry = t0.entry
        /\ w.severed = b
    BY <1>3, <2>1 DEF Turn
  <2> QED BY <2>1, <2>2
<1> DEFINE D(s) == resolveActiveSession(d1, s)
           T(s) == [v EXCEPT !.tool = tool, !.sess = s]
<1>5. PICK s \in ActiveCandidates(d1) :
          \/ \E h \in Entries \ D(s).opened :
                EndHeld(markNeedsInput(Park(D(s), h, NewRow(T(s), h, "input", FALSE)),
                                       T(s).run), T(s), h)
          \/ ToolAnswered(D(s), T(s))
          \/ /\ ~missingRequiredSlots(D(s), T(s)) /\ tool \in ScopedTools
             /\ db' = D(s) /\ turn' = [T(s) EXCEPT !.pc = "scopes"] /\ orphan' = orphan
          \/ ~missingRequiredSlots(D(s), T(s)) /\ Decide(D(s), T(s))
  BY DEF ExecuteTool
<1> HIDE DEF d1, v
<1> DEFINE d == D(s)
           t == T(s)
<1>6. /\ Held(d, v, orphan) /\ Accounted(d1, d) /\ s \in Sessions /\ d.sess[s] = "open"
  BY <1>2, ResolveSessionSane
<1>7. /\ t \in Turn /\ t.tool = tool /\ t.sess = s /\ t.run = v.run /\ t.pc = "llm"
      /\ t.op = v.op /\ t.hold = v.hold /\ t.entry = v.entry /\ t.severed = v.severed
  BY <1>4, <1>6 DEF Turn
<1> HIDE DEF D, T
<1> SUFFICES /\ Ends(d, t)
             /\ ScopedTools = {} /\ t.severed => turn'.pc # "tool"
  <2> HIDE DEF d, t
  <2>0. d0 \in Database /\ RowsOpen(d0) BY DEF Held, Audit, Store
  <2>1. Accounted(d0, d) BY <1>1, <1>6, <2>0, AccountedTrans
  <2>2. Ends(d, t) => Lands(d0) BY <2>0, <2>1, LandsAccounted DEF Ends
  <2> QED BY <1>4, <1>7, <2>2 DEF Ends
<1>8. Held(d, t, orphan)
  <2> HIDE DEF d, t
  <2> QED BY <1>4, <1>6, <1>7, HeldTurn
<1>9. Parkable(d, t, s)
  <2> HIDE DEF d, t
  <2> QED BY <1>6, <1>8, OpenParkable
<1>10. d \in Database BY <1>8 DEF Held, Audit
<1>11. ~missingRequiredSlots(d, t) => Bound(d, t) BY DEF missingRequiredSlots, Bound
<1>12. ASSUME NEW h \in Entries \ d.opened,
             EndHeld(markNeedsInput(Park(d, h, NewRow(t, h, "input", FALSE)), t.run), t, h)
      PROVE  Ends(d, t) /\ turn'.pc # "tool"
  <2> DEFINE row == NewRow(t, h, "input", FALSE)
             m == markNeedsInput(Park(d, h, row), row.run)
  <2>1. /\ row \in Row /\ row.st = "parked" /\ row.kind = "input"
        /\ row.run = t.run /\ row.entry = h
    BY <1>6, <1>7, NewRowFields
  <2>2. row.sess = t.sess /\ row.tool = t.tool BY <1>6, <1>7, NewRowMore
  <2> HIDE DEF row
  <2>3. ParkedTo(d, h, row, "input", m) BY <1>10, <2>1, MarkedFields
  <2>4. EndHeld(m, t, h) BY <1>12, <2>1 DEF row
  <2>5. ParkedMore(d, t, m)
    <3>1. ParkedMore(d, t, markNeedsInput(Park(d, h, row), t.run))
      BY <1>10, <2>1, ParkMore
    <3> QED BY <2>1, <3>1
  <2>6. Parkable(d, t, row.sess) BY <1>7, <1>9, <2>2
  <2> HIDE DEF m, d, t
  <2>7. Ends(d, t)
    BY <1>7, <1>8, <2>1, <2>2, <2>3, <2>4, <2>5, <2>6, EndHeldSane
  <2>8. turn' = Idle BY <2>4 DEF EndHeld
  <2> QED BY <2>7, <2>8 DEF Idle
<1>13. ASSUME ToolAnswered(d, t) PROVE Ends(d, t) /\ turn'.pc # "tool"
  <2> HIDE DEF d, t
  <2> QED BY <1>7, <1>8, <1>13, ToolAnsweredSane
<1>14. ASSUME ~missingRequiredSlots(d, t), tool \in ScopedTools,
              db' = d, turn' = [t EXCEPT !.pc = "scopes"], orphan' = orphan
       PROVE  Ends(d, t) /\ turn'.pc # "tool"
  <2> DEFINE u == [t EXCEPT !.pc = "scopes"]
  <2>1. /\ u \in Turn /\ u.run = t.run /\ u.pc = "scopes" /\ u.tool = t.tool
        /\ u.sess = t.sess /\ u.hold = t.hold /\ u.entry = t.entry
        /\ u.severed = t.severed
    BY <1>7 DEF Turn
  <2>2. turn' = u BY <1>14
  <2> HIDE DEF u, t, d
  <2>3. TurnBound(u, d) BY <1>11, <1>14, <2>1 DEF TurnBound, Bound
  <2>4. TurnSession(u, d) BY <1>7, <1>9, <1>14, <2>1 DEF TurnSession, Parkable
  <2>5. TurnRow(u, d) BY <1>7, <1>8, <2>1 DEF Held, SaneTurn, TurnRow
  <2>6. Severed(u, d) BY <1>8, <2>1 DEF Held, SaneTurn, Severed
  <2>7. KeepsParked(d) BY <1>14, AccountedCopy, KeepsAccounted
  <2>8. Lands(d)
    BY <1>8, <1>14, <2>2, <2>3, <2>4, <2>5, <2>6, <2>7 DEF Held, Lands, SaneTurn
  <2>9. Tracks(t.entry) BY <2>1, <2>2 DEF Tracks
  <2> QED BY <2>1, <2>2, <2>8, <2>9 DEF Ends
<1>15. ASSUME ~missingRequiredSlots(d, t), Decide(d, t)
       PROVE  /\ Ends(d, t)
              /\ ScopedTools = {} /\ t.severed => turn'.pc # "tool"
  <2>1. Bound(d, t) BY <1>11, <1>15
  <2> HIDE DEF d, t
  <2> QED BY <1>7, <1>8, <1>9, <1>15, <2>1, DecideSane
<1> QED BY <1>5, <1>12, <1>13, <1>14, <1>15

-----------------------------------------------------------------------------
(* The actions.                                                            *)

HeldInv == AuditInv /\ HoldInv

LEMMA HeldNow == ASSUME HeldInv PROVE Held(db, turn, orphan)
BY DEF HeldInv, AuditInv, IInv, CoreInv, HoldInv, Held

LEMMA HeldIdle == ASSUME NEW d, NEW t, NEW o, Held(d, t, o) PROVE Held(d, Idle, o)
BY AuditIdle, SaneIdle DEF Held

\* An idle turn relies on nothing.
LEMMA IdlePc ==
    ASSUME NEW t, NEW d, NEW d2, SaneTurn(t, d), t.pc = "idle" PROVE SaneTurn(t, d2)
BY DEF SaneTurn, TurnBound, TurnSession, TurnRow, Severed

LEMMA LoopTurnSane == ASSUME NEW op, NEW r, NEW d PROVE SaneTurn(LoopTurn(op, r), d)
<1>1. LET t == LoopTurn(op, r)
      IN  t.pc = "llm" /\ t.hold = None /\ t.severed = FALSE
  BY DEF LoopTurn, Idle
<1> QED BY <1>1 DEF SaneTurn, TurnBound, TurnSession, TurnRow, Severed

\* A step that keeps the turn's side and accounts for what it drops.
LEMMA LandsOf ==
    ASSUME NEW CONSTANT d, NEW CONSTANT t, Held(d, t, orphan), Accounted(db, d), HeldInv,
           db' = d, turn' = t, orphan' \in {orphan, None}
    PROVE  Lands(db)
<1>1. Sane(db', orphan') BY SaneNone DEF Held
<1>2. SaneTurn(turn', db') BY DEF Held
<1>3. KeepsParked(db) BY KeepsAccounted
<1> QED BY <1>1, <1>2, <1>3 DEF Lands

LEMMA HealSane ==
    ASSUME NEW d, NEW o, Held(d, Idle, o)
    PROVE  LET d2 == healCrashedDispatchHolds(d) IN Held(d2, Idle, o) /\ Accounted(d, d2)
<1> DEFINE H == {h \in UnresolvedHuman(d) : d.hold[h].st = "dispatched"}
           E == {d.hold[h].entry : h \in H}
           x == deleteHeldToolCalls(d, H)
           f == [e \in Entries |-> IF e \in E THEN d.obs[e] + 1 ELSE d.obs[e]]
           d2 == [x EXCEPT !.obs = f]
<1>0. d \in Database /\ Good(d) BY DEF Held, Good
<1>1. f \in [Entries -> Nat] BY <1>0, Fields
<1>2. healCrashedDispatchHolds(d) = d2 BY DEF healCrashedDispatchHolds
<1>3. \A h \in H : h \in Entries /\ d.hold[h].st = "dispatched" /\ d.hold[h].run = None
  BY DEF UnresolvedHuman, selectHeldCalls
<1>e. \A e \in Entries : d.obs[e] \in Nat /\ d.inf[e] \in Nat BY <1>0, RowFacts
<1>f. \A e \in Entries : f[e] \in Nat /\ f[e] >= d.obs[e] BY <1>e
<1> HIDE DEF H, E
<1>4. Shrinks(d, x) /\ (RunsHaveRows(d) => RunsHaveRows(x)) BY <1>0, <1>3, DeleteSane
<1>5. /\ x \in Database /\ x.inf = d.inf
      /\ x.hold = [h \in Entries |-> IF h \in H THEN NoRow ELSE d.hold[h]]
  BY <1>0, DeleteFields
<1> HIDE DEF f, x
<1>6. /\ d2 \in Database /\ d2.obs = f /\ d2.inf = x.inf /\ d2.hold = x.hold
      /\ d2.run = x.run /\ d2.opened = x.opened /\ d2.sess = x.sess /\ d2.grants = x.grants
  <2>1. x \in Database BY <1>5
  <2>2. d2 \in Database BY <1>1, <2>1 DEF Database
  <2> QED BY <2>1, <2>2 DEF Database
<1>7. Good(d2) /\ Audit(d2, Idle, ran) BY <1>0, <1>2, HealGood, HealAudit DEF Held
<1> HIDE DEF d2
<1>8. Shrinks(x, d2) BY <1>5, <1>6, ShrinksCopy
<1>9. Shrinks(d, d2) BY <1>0, <1>4, <1>8, ShrinksTrans
<1>10. RunsHaveRows(d) => RunsHaveRows(d2) BY <1>4, <1>6 DEF RunsHaveRows, Waiting, Present
<1>11. Held(d2, Idle, o) BY <1>7, <1>9, <1>10, HeldShrinks
<1>12. \A e \in Entries : hasCloser(d, e) => hasCloser(d2, e)
  BY <1>e, <1>f, <1>5, <1>6 DEF hasCloser
<1>13. \A h \in Entries : d.hold[h].st = "parked" => d2.hold[h] = d.hold[h]
  BY <1>3, <1>5, <1>6
<1>14. Accounted(d, d2) BY <1>12, <1>13 DEF Accounted
<1> QED BY <1>2, <1>11, <1>14

LEMMA RepairOrphanSane ==
    ASSUME NEW CONSTANT d, Held(d, Idle, orphan)
    PROVE  LET d2 == repairOrphanedToolUse(d) IN Held(d2, Idle, orphan) /\ Accounted(d, d2)
<1> DEFINE H == {orphan}
           x == deleteHeldToolCalls(d, H)
<1>0. d \in Database /\ Good(d) BY DEF Held, Good
<1>1. CASE orphan # None /\ d.hold[orphan].st = "answered"
  <2>1. repairOrphanedToolUse(d) = x BY <1>1 DEF repairOrphanedToolUse
  <2>2. \A h \in H : d.hold[h].st = "answered" /\ d.hold[h].run = None
    BY <1>1 DEF Held, Sane, OrphanHuman, Present
  <2> HIDE DEF H
  <2>3. Shrinks(d, x) /\ (RunsHaveRows(d) => RunsHaveRows(x)) BY <1>0, <2>2, DeleteSane
  <2>4. /\ x.inf = d.inf /\ x.obs = d.obs
        /\ x.hold = [h \in Entries |-> IF h \in H THEN NoRow ELSE d.hold[h]]
    BY <1>0, DeleteFields
  <2>5. Good(x) /\ Audit(x, Idle, ran) BY <1>0, DeleteGood, DeleteAudit DEF Held
  <2> HIDE DEF x
  <2>6. Held(x, Idle, orphan) BY <2>3, <2>5, HeldShrinks
  <2>7. \A e \in Entries : hasCloser(d, e) => hasCloser(x, e) BY <2>4 DEF hasCloser
  <2>8. \A h \in Entries : d.hold[h].st = "parked" => x.hold[h] = d.hold[h]
    BY <2>2, <2>4
  <2>9. Accounted(d, x) BY <2>7, <2>8 DEF Accounted
  <2> QED BY <2>1, <2>6, <2>9
<1>2. CASE ~(orphan # None /\ d.hold[orphan].st = "answered")
  <2>1. repairOrphanedToolUse(d) = d BY <1>2 DEF repairOrphanedToolUse
  <2> QED BY <2>1, AccountedCopy
<1> QED BY <1>1, <1>2

LEMMA HeldFacts ==
    ASSUME NEW d, NEW t, NEW o, Held(d, t, o)
    PROVE  d \in Database /\ Good(d) /\ RowsOpen(d) /\ t \in Turn /\ Audit(d, t, ran)
BY DEF Held, Audit, Store

LEMMA ChatSane == ASSUME HeldInv, Chat PROVE Lands(db)
<1> DEFINE d0 == Reaped(db)
           d1 == healCrashedDispatchHolds(d0)
           d2 == repairOrphanedToolUse(d1)
<1>0. Held(db, turn, orphan) /\ Held(db, Idle, orphan) BY HeldNow, HeldIdle
<1>1. Held(d0, Idle, orphan) /\ Accounted(db, d0) BY <1>0, ReapedSane
<1>a. /\ \/ db' = d1 /\ UNCHANGED <<turn, orphan>>
         \/ /\ \E s \in ActiveCandidates(d2) : db' = resolveActiveSession(d2, s)
            /\ turn' = LoopTurn("chat", None) /\ orphan' = None
      /\ turn.pc = "idle"
  BY DEF Chat
<1>b. db \in Database /\ RowsOpen(db) BY <1>0, HeldFacts
<1> HIDE DEF d0
<1>2. Held(d1, Idle, orphan) /\ Accounted(d0, d1) BY <1>1, HealSane
<1> HIDE DEF d1
<1>3. Held(d2, Idle, orphan) /\ Accounted(d1, d2) BY <1>2, RepairOrphanSane
<1> HIDE DEF d2
<1>4. Accounted(db, d1) /\ Accounted(db, d2)
  BY <1>b, <1>1, <1>2, <1>3, AccountedTrans
<1>5. CASE db' = d1 /\ UNCHANGED <<turn, orphan>>
  <2>1. SaneTurn(turn', db') BY <1>0, <1>a, <1>5, IdlePc DEF Held
  <2>2. KeepsParked(db) BY <1>4, <1>5, KeepsAccounted
  <2> QED BY <1>2, <1>5, <2>1, <2>2 DEF Lands, Held
<1>6. CASE /\ \E s \in ActiveCandidates(d2) : db' = resolveActiveSession(d2, s)
           /\ turn' = LoopTurn("chat", None) /\ orphan' = None
  <2>1. PICK s \in ActiveCandidates(d2) : db' = resolveActiveSession(d2, s) BY <1>6
  <2>2. Held(db', Idle, orphan) /\ Accounted(d2, db') BY <1>3, <2>1, ResolveSessionSane
  <2>3. Accounted(db, db') BY <1>b, <1>4, <2>2, AccountedTrans
  <2>4. KeepsParked(db) BY <2>3, KeepsAccounted
  <2>5. Sane(db', None) BY <2>2, SaneNone DEF Held
  <2> QED BY <1>6, <2>4, <2>5, LoopTurnSane DEF Lands
<1> QED BY <1>a, <1>5, <1>6

\* The admission of commissionGoal leaves no run `running`.
LEMMA ReconciledSane ==
    ASSUME NEW d, NEW t, NEW o, Held(d, t, o)
    PROVE  LET d2 == ReconciledRuns(d) IN
           /\ Held(d2, t, o) /\ Accounted(d, d2) /\ d2.hold = d.hold
           /\ \A r \in Runs : d2.run[r].status # "running"
<1> DEFINE x == RepairRuns(d, Runs)
           X == {r \in Runs : d.run[r].status # "running" /\ d.run[r].sess # None
                              /\ d.sess[d.run[r].sess] = "ended"}
           y == expireRuns(x, X)
<1>0. d \in Database /\ Good(d) /\ Audit(d, t, ran) BY HeldFacts
<1>1. ReconciledRuns(d) = y BY DEF ReconciledRuns
<1> HIDE DEF X
<1>2. /\ Shrinks(d, x) /\ x.hold = d.hold /\ x.obs = d.obs /\ x.inf = d.inf
      /\ \A r \in Runs : x.run[r].status # "running"
      /\ RunsHaveRows(d) => RunsHaveRows(x)
  BY <1>0, RepairRunsSane
<1>3. Good(x) /\ Audit(x, t, ran) BY <1>0, RepairRunsGood, RepairRunsAudit
<1> HIDE DEF x
<1>4. Held(x, t, o) BY <1>2, <1>3, HeldShrinks
<1>5. x \in Database BY <1>3 DEF Good
<1>6. /\ Shrinks(x, y)
      /\ RunsHaveRows(x) => RunsHaveRows(y)
  BY <1>5, ExpireRunsSane
<1>7. Good(y) /\ Audit(y, t, ran) BY <1>3, ExpireRunsGood, ExpireRunsAudit
<1>8. /\ y.hold = x.hold /\ y.obs = x.obs /\ y.inf = x.inf
      /\ \A r \in Runs : y.run[r].status = IF r \in X /\ x.run[r].status \in NonTerminal
                                           THEN "expired" ELSE x.run[r].status
  <2>1. "expired" \in RunStatus BY DEF RunStatus, Terminal
  <2> QED BY <1>5, <2>1, MoveRunsFields DEF expireRuns
<1> HIDE DEF y
<1>9. Held(y, t, o) BY <1>4, <1>6, <1>7, HeldShrinks
<1>10. Accounted(d, y)
  <2>1. y.hold = d.hold /\ y.obs = d.obs /\ y.inf = d.inf BY <1>2, <1>8
  <2> QED BY <2>1, AccountedCopy
<1>11. \A r \in Runs : y.run[r].status # "running" BY <1>2, <1>8
<1> QED BY <1>1, <1>2, <1>8, <1>9, <1>10, <1>11

LEMMA CommissionSane ==
    ASSUME HeldInv, NEW r \in Runs, NEW slot \in BOOLEAN, CommissionGoal(r, slot)
    PROVE  Lands(db)
<1> DEFINE d0 == Reaped(db)
           d == ReconciledRuns(d0)
<1>0. Held(db, turn, orphan) BY HeldNow
<1>b. db \in Database /\ RowsOpen(db) /\ Good(db) BY <1>0, HeldFacts
<1>1. Held(d0, turn, orphan) /\ Accounted(db, d0) /\ Good(d0) /\ Frozen(db, d0)
  BY <1>0, <1>b, ReapedSane, ReapedGood
<1>2. /\ db.run[r].status = "unborn" /\ turn.pc = "idle" /\ orphan' = orphan
      /\ \/ db' = d /\ UNCHANGED turn
         \/ /\ \E s \in ActiveCandidates(d) :
                  db' = insertCommissionRun(resolveActiveSession(d, s), r, s, slot)
            /\ turn' = LoopTurn("commission", r)
  BY DEF CommissionGoal
<1> HIDE DEF d0
<1>3. Held(d, turn, orphan) /\ Accounted(d0, d) BY <1>1, ReconciledSane
<1>4. Accounted(db, d) BY <1>b, <1>1, <1>3, AccountedTrans
<1>5. Frozen(d0, d)
  <2> DEFINE x == RepairRuns(d0, Runs)
  <2>1. Good(x) /\ Frozen(d0, x) BY <1>1, RepairRunsGood
  <2> HIDE DEF x
  <2>2. \A X : Frozen(x, expireRuns(x, X)) BY <2>1, ExpireRunsGood
  <2>3. Frozen(x, d) BY <2>2 DEF ReconciledRuns, x
  <2> HIDE DEF d
  <2> QED BY <2>1, <2>3, FrozenTrans
<1> HIDE DEF d
<1>6. CASE db' = d /\ UNCHANGED turn
  BY <1>2, <1>3, <1>4, <1>6, LandsOf
<1>7. CASE /\ \E s \in ActiveCandidates(d) :
                  db' = insertCommissionRun(resolveActiveSession(d, s), r, s, slot)
           /\ turn' = LoopTurn("commission", r)
  <2>1. PICK s \in ActiveCandidates(d) :
            db' = insertCommissionRun(resolveActiveSession(d, s), r, s, slot)
    BY <1>7
  <2> DEFINE e == resolveActiveSession(d, s)
             row == [status |-> "running", sess |-> s, slot |-> slot]
             f == [e.run EXCEPT ![r] = row]
  <2>2. Held(e, turn, orphan) /\ Accounted(d, e) /\ s \in Sessions
    BY <1>3, ResolveSessionSane
  <2>3. Frozen(d, e) BY <1>3, ResolveSessionGood DEF Held
  <2>4. db' = [e EXCEPT !.run = f] BY <2>1 DEF insertCommissionRun
  <2> HIDE DEF e
  <2>5. e \in Database BY <2>2, HeldFacts
  <2>6. row \in RunRow /\ row.status = "running"
    BY <2>2 DEF RunRow, RunStatus, NonTerminal
  <2> HIDE DEF row
  <2>7. f \in [Runs -> RunRow] /\ f[r] = row /\ \A q \in Runs \ {r} : f[q] = e.run[q]
    BY <2>5, <2>6, Fields
  <2> HIDE DEF f
  <2>8. /\ db' \in Database /\ db'.run = f /\ db'.hold = e.hold /\ db'.opened = e.opened
        /\ db'.obs = e.obs /\ db'.inf = e.inf /\ db'.sess = e.sess
        /\ db'.grants = e.grants
    <3>1. [e EXCEPT !.run = f] \in Database BY <2>5, <2>7 DEF Database, RunRow
    <3> QED BY <2>4, <2>5, <3>1 DEF Database
  <2>9. e.run[r].status = "unborn"
    BY <1>1, <1>2, <1>5, <2>3, StatusFacts DEF Frozen
  <2>10. \A h \in Entries : /\ Present(db', h) <=> Present(e, h)
                            /\ Present(e, h) => e.hold[h].run # r
    BY <2>2, <2>8, <2>9, NoneFacts DEF Held, Audit, Store, RowsOfRuns, Present
  <2>11. \A h \in Entries : e.hold[h].run \in Runs \cup {None} BY <2>5, RowFacts
  <2>12. \A q \in Runs \ {r} : /\ db'.run[q] = e.run[q]
                               /\ LiveRun(db', q) <=> LiveRun(e, q)
                               /\ Waiting(db', q) <=> Waiting(e, q)
    BY <2>7, <2>8 DEF LiveRun, Waiting
  <2>13. ~Waiting(db', r) BY <2>6, <2>7, <2>8 DEF Waiting
  <2>14. OneOpen(db') /\ GrantsMinted(db')
    BY <2>2, <2>8 DEF Held, Sane, OneOpen, GrantsMinted
  <2>15. RowsMinted(db')
    <3> SUFFICES ASSUME NEW h \in Entries, Present(db', h)
                 PROVE  /\ db'.sess[db'.hold[h].sess] # "none"
                        /\ db'.hold[h].run # None /\ LiveRun(db', db'.hold[h].run)
                             => db'.hold[h].sess = db'.run[db'.hold[h].run].sess
      BY DEF RowsMinted
    <3>1. Present(e, h) /\ e.hold[h].run # r /\ db'.hold[h] = e.hold[h]
      BY <2>8, <2>10
    <3>2. e.hold[h].run # None => e.hold[h].run \in Runs \ {r} BY <2>11, <3>1
    <3> QED BY <2>2, <2>8, <2>12, <3>1, <3>2 DEF Held, Sane, RowsMinted
  <2>16. RowsBound(db')
    <3> SUFFICES ASSUME NEW h \in Entries, db'.hold[h].st = "parked",
                        db'.hold[h].kind = "confirmation", db'.hold[h].run # None,
                        db'.hold[h].tool \in SlotTools
                 PROVE  db'.run[db'.hold[h].run].slot
      BY DEF RowsBound
    <3>1. e.hold[h].run \in Runs \ {r} /\ db'.hold[h] = e.hold[h]
      BY <2>8, <2>10, <2>11 DEF Present
    <3>2. e.run[e.hold[h].run].slot BY <3>1 , <2>2 DEF Held, Sane, RowsBound
    <3> QED BY <2>12, <3>1, <3>2
  <2>17. OrphanHuman(db', orphan)
    BY <2>2, <2>8, <2>10 DEF Held, Sane, OrphanHuman
  <2>18. ScopedTools = {} => RowsOnOpen(db')
    BY <2>2, <2>8, <2>10 DEF Held, Sane, RowsOnOpen
  <2>19. RunsHaveRows(e) => RunsHaveRows(db')
    BY <2>8, <2>10, <2>12, <2>13 DEF RunsHaveRows
  <2>20. Sane(db', orphan')
    BY <1>2, <2>2, <2>14, <2>15, <2>16, <2>17, <2>18, <2>19 DEF Held, Sane
  <2>21. Accounted(db, db')
    <3>1. Accounted(e, db') BY <2>8, AccountedCopy
    <3>2. Accounted(db, e) BY <1>b, <1>4, <2>2, AccountedTrans
    <3> QED BY <1>b, <3>1, <3>2, AccountedTrans
  <2>22. KeepsParked(db) BY <2>21, KeepsAccounted
  <2> QED BY <1>7, <2>20, <2>22, LoopTurnSane DEF Lands
<1> QED BY <1>2, <1>6, <1>7

LEMMA DirectSane ==
    ASSUME HeldInv, Undisturbed, NEW tool \in Tools, executeToolDirect(tool)
    PROVE  Lands(db)
<1> DEFINE t == LoopTurn("direct", None)
<1>1. Audit(db, t, ran) BY AuditIdle, FreshTurn DEF HeldInv, AuditInv
<1>2. t.pc = "llm" BY LoopTurnGood
<1>3. ExecuteTool(db, t, tool) BY DEF executeToolDirect
<1>4. SaneTurn(t, db) BY LoopTurnSane
<1> HIDE DEF t
<1>5. Held(db, t, orphan) BY <1>1, <1>4, HeldNow DEF Held
<1> QED BY <1>2, <1>3, <1>5, ExecuteToolSane DEF Undisturbed, Ends

LEMMA LoopCallsToolSane ==
    ASSUME HeldInv, Undisturbed, NEW tool \in Tools, LoopCallsTool(tool)
    PROVE  Lands(db) /\ (ScopedTools = {} /\ turn.severed => turn'.pc # "tool")
<1> DEFINE t == [turn EXCEPT !.calls = @ + 1]
<1>0. Held(db, turn, orphan) /\ turn \in Turn BY HeldNow, HeldFacts
<1>1. /\ t \in Turn /\ t.pc = turn.pc /\ t.op = turn.op /\ t.run = turn.run
      /\ t.hold = turn.hold /\ t.entry = turn.entry /\ t.severed = turn.severed
  BY <1>0 DEF Turn
<1>2. ExecuteTool(db, t, tool) /\ turn.pc = "llm" BY DEF LoopCallsTool
<1> HIDE DEF t
<1>3. Held(db, t, orphan) BY <1>0, <1>1, <1>2, HeldTurn
<1>4. Ends(db, t) /\ (ScopedTools = {} /\ t.severed => turn'.pc # "tool")
  BY <1>1, <1>2, <1>3, ExecuteToolSane DEF Undisturbed
<1> QED BY <1>1, <1>4 DEF Ends

LEMMA LoopFinishesSane == ASSUME HeldInv, LoopFinishes PROVE Lands(db)
<1>1. Held(db, turn, orphan) /\ turn.pc # "idle" /\ EndFinished(db, turn)
  BY HeldNow DEF LoopFinishes
<1> QED BY <1>1, EndFinishedSane

LEMMA LoopThrowsSane == ASSUME HeldInv, LoopThrows PROVE Lands(db)
<1> DEFINE d == updateCommissionStatus(db, turn.run, "failed")
<1>0. Held(db, turn, orphan) /\ Held(db, Idle, orphan) BY HeldNow, HeldIdle
<1>1. db \in Database /\ Good(db) /\ Audit(db, Idle, ran) BY <1>0, HeldFacts
<1>2. /\ db' = d \/ db' = db
      /\ turn' = Idle /\ orphan' \in {orphan, None}
  BY DEF LoopThrows
<1>3. /\ Shrinks(db, d) /\ d.hold = db.hold
      /\ \A q \in Runs : d.run[q].status =
            IF q = turn.run /\ db.run[q].status \in {"running", "awaiting_confirmation"}
            THEN "failed" ELSE db.run[q].status
  BY <1>1, UpdateStatusSane
<1>4. d.obs = db.obs /\ d.inf = db.inf
  <2>1. "failed" \in RunStatus BY DEF RunStatus, Terminal
  <2> QED BY <1>1, <2>1, MoveRunsFields DEF updateCommissionStatus
<1>5. Good(d) /\ Audit(d, Idle, ran) BY <1>1, UpdateStatusGood, UpdateStatusAudit
<1> HIDE DEF d
<1>6. \A q \in Runs : Waiting(d, q) => Waiting(db, q) BY <1>3 DEF Waiting
<1>7. RunsHaveRows(db) => RunsHaveRows(d) BY <1>3, <1>6, RowsKept
<1>8. Held(d, Idle, orphan) BY <1>0, <1>3, <1>5, <1>7, HeldShrinks
<1>9. Accounted(db, d) /\ Accounted(db, db) BY <1>3, <1>4, AccountedCopy
<1> QED BY <1>0, <1>2, <1>8, <1>9, LandsOf

LEMMA ScopesReadSane == ASSUME HeldInv, Undisturbed, ScopesRead PROVE Lands(db)
<1>0. Held(db, turn, orphan) /\ turn.pc = "scopes" BY HeldNow DEF ScopesRead
<1>1. turn.tool \in Tools BY <1>0 DEF HeldInv, AuditInv, IInv, CoreInv, GoodTurn
<1>2. Parkable(db, turn, turn.sess)
  BY <1>0 DEF Held, SaneTurn, TurnSession, Parkable
<1>3. Bound(db, turn) BY <1>0 DEF Held, SaneTurn, TurnBound, Bound
<1>4. CASE ToolAnswered(db, turn)
  BY <1>0, <1>4, ToolAnsweredSane DEF Undisturbed, Ends
<1>5. CASE Decide(db, turn) BY <1>0, <1>1, <1>2, <1>3, <1>5, DecideSane DEF Ends
<1> QED BY <1>4, <1>5 DEF ScopesRead

LEMMA ToolReturnsSane == ASSUME HeldInv, Undisturbed, ToolReturns PROVE Lands(db)
<1>0. Held(db, turn, orphan) /\ turn.pc # "idle" /\ ToolAnswered(db, turn)
  BY HeldNow DEF ToolReturns
<1> QED BY <1>0, ToolAnsweredSane DEF Undisturbed, Ends

LEMMA ResolveTurnSane ==
    ASSUME HeldInv, NEW h \in Entries, Present(db, h),
           db.hold[h].st = "parked" => db.hold[h].kind # "input"
    PROVE  LET t == ResolveTurn(h) IN
           /\ t \in Turn /\ t.pc = "llm" /\ t.op = "resolve" /\ t.run = db.hold[h].run
           /\ t.hold = h /\ t.entry = db.hold[h].entry /\ t.tool = db.hold[h].tool
           /\ t.severed = FALSE /\ TurnRun(db, t)
           /\ db.hold[h].st # "answered" => Owns(db, h, db.hold[h].entry)
<1>1. AuditInv BY DEF HeldInv
<1>2. LET t == ResolveTurn(h) IN
      /\ t \in Turn /\ t.pc = "llm" /\ t.op = "resolve" /\ t.run = db.hold[h].run
      /\ t.hold = h /\ t.entry = db.hold[h].entry /\ TurnRun(db, t)
      /\ db.hold[h].st # "answered" => Owns(db, h, db.hold[h].entry)
  BY <1>1, ResolveTurnAudit
<1>3. ResolveTurn(h).tool = db.hold[h].tool /\ ResolveTurn(h).severed = FALSE
  BY DEF ResolveTurn, LoopTurn, Idle
<1> QED BY <1>2, <1>3

LEMMA ResolveAnsweredSane ==
    ASSUME HeldInv, NEW h \in Entries, ResolveAnswered(h) PROVE Lands(db)
<1> DEFINE t == ResolveTurn(h)
           u == Resumed(t)
<1>0. Held(db, turn, orphan) BY HeldNow
<1>1. Present(db, h) /\ db.hold[h].st = "answered" /\ Resume(db, t)
  BY DEF ResolveAnswered, Loadable, Present
<1>2. /\ t \in Turn /\ t.pc = "llm" /\ t.op = "resolve" /\ t.run = db.hold[h].run
      /\ t.hold = h /\ t.severed = FALSE /\ TurnRun(db, t)
  BY <1>1, ResolveTurnSane
<1> HIDE DEF t
<1>3. /\ u \in Turn /\ u.pc = "llm" /\ u.op = "resolve" /\ u.run = t.run
      /\ u.hold = t.hold /\ u.entry = None /\ u.severed = t.severed
  BY <1>2, ResumedFields
<1> HIDE DEF u
<1>4. TurnOwns(db, u, ran) BY <1>3 DEF TurnOwns
<1>5. TurnRun(db, u) BY <1>2, <1>3 DEF TurnRun
<1>6. Audit(db, u, ran) BY <1>0, <1>3, <1>4, <1>5 DEF Held, Audit
<1>7. SaneTurn(u, db)
  BY <1>1, <1>2, <1>3 DEF SaneTurn, TurnBound, TurnSession, TurnRow, Severed
<1>8. Held(db, u, orphan) BY <1>0, <1>6, <1>7 DEF Held
<1> QED BY <1>1, <1>2, <1>8, ResumeSane DEF u

LEMMA CloseRowSane ==
    ASSUME HeldInv, NEW h \in Entries, Present(db, h), db.hold[h].st # "answered",
           db.hold[h].st = "parked" => db.hold[h].kind # "input",
           Resume(SetTurnState(CloseObserved(db, db.hold[h].entry), h, "answered"),
                  ResolveTurn(h))
    PROVE  Lands(db)
<1> DEFINE t == ResolveTurn(h)
           e == db.hold[h].entry
<1>0. Held(db, turn, orphan) BY HeldNow
<1>1. /\ t \in Turn /\ t.pc = "llm" /\ t.op = "resolve" /\ t.run = db.hold[h].run
      /\ t.hold = h /\ t.severed = FALSE /\ TurnRun(db, t) /\ Owns(db, h, e)
  BY ResolveTurnSane
<1>2. Resume(SetTurnState(CloseObserved(db, e), t.hold, "answered"), t) BY <1>1
<1> HIDE DEF t, e
<1>3. Severed(t, db) BY <1>1 DEF Severed
<1> QED BY <1>0, <1>1, <1>2, <1>3, AnswerLands DEF Held, Audit

LEMMA ResolveDispatchedSane ==
    ASSUME HeldInv, NEW h \in Entries, ResolveDispatched(h) PROVE Lands(db)
<1>1. /\ Present(db, h) /\ db.hold[h].st = "dispatched"
      /\ Resume(SetTurnState(CloseObserved(db, db.hold[h].entry), h, "answered"),
                ResolveTurn(h))
  BY DEF ResolveDispatched, Loadable, Present
<1> QED BY <1>1, CloseRowSane

LEMMA ResolveDenySane ==
    ASSUME HeldInv, Undisturbed, NEW h \in Entries, ResolveDeny(h) PROVE Lands(db)
<1>1. /\ Present(db, h) /\ db.hold[h].st = "parked" /\ db.hold[h].kind # "input"
      /\ Resume(SetTurnState(CloseObserved(db, db.hold[h].entry), h, "answered"),
                ResolveTurn(h))
  BY DEF ResolveDeny, Answerable, Loadable, Present, FaultAfterClose, Undisturbed
<1> QED BY <1>1, CloseRowSane

LEMMA HeldCallReturnsSane == ASSUME HeldInv, HeldCallReturns PROVE Lands(db)
<1>0. Held(db, turn, orphan) /\ turn.pc = "hold" BY HeldNow DEF HeldCallReturns
<1>1. /\ turn \in Turn /\ turn.op = "resolve" /\ Owns(db, turn.hold, turn.entry)
      /\ TurnRun(db, turn) /\ Store(db, ran) /\ ran \in [Entries -> Nat]
  BY <1>0 DEF Held, Audit, TurnOwns
<1>2. Present(db, turn.hold) => db.hold[turn.hold].run = turn.run
  BY <1>0, <1>1, NoneFacts DEF Held, SaneTurn, TurnRow, Owns
<1>3. Resume(SetTurnState(CloseObserved(db, turn.entry), turn.hold, "answered"), turn)
  BY DEF HeldCallReturns
<1> QED BY <1>0, <1>1, <1>2, <1>3, AnswerLands DEF Held, SaneTurn

LEMMA IdleStepSane ==
    ASSUME HeldInv, db' = db, turn' = Idle, orphan' \in {orphan, None} PROVE Lands(db)
<1>1. Held(db, Idle, orphan) BY HeldNow, HeldIdle
<1>2. Accounted(db, db) BY AccountedCopy
<1> QED BY <1>1, <1>2, LandsOf

-----------------------------------------------------------------------------
(* Task operations, the handlers outside the gate and the environment.     *)

LEMMA ExpireHeld ==
    ASSUME NEW d, NEW t, NEW o, Held(d, t, o), NEW R
    PROVE  Held(expireRuns(d, R), t, o) /\ Accounted(d, expireRuns(d, R))
<1> DEFINE y == expireRuns(d, R)
<1>0. d \in Database /\ Good(d) /\ Audit(d, t, ran) BY HeldFacts
<1>1. /\ Shrinks(d, y)
      /\ RunsHaveRows(d) => RunsHaveRows(y)
  BY <1>0, ExpireRunsSane
<1>2. Good(y) /\ Audit(y, t, ran) BY <1>0, ExpireRunsGood, ExpireRunsAudit
<1>3. y.hold = d.hold /\ y.obs = d.obs /\ y.inf = d.inf
  <2>1. "expired" \in RunStatus BY DEF RunStatus, Terminal
  <2> QED BY <1>0, <2>1, MoveRunsFields DEF expireRuns
<1> HIDE DEF y
<1>4. Held(y, t, o) BY <1>1, <1>2, HeldShrinks
<1>5. Accounted(d, y) BY <1>3, AccountedCopy
<1> QED BY <1>4, <1>5 DEF y

LEMMA RepairHeld ==
    ASSUME NEW d, NEW t, NEW o, Held(d, t, o), NEW R
    PROVE  Held(RepairRuns(d, R), t, o) /\ Accounted(d, RepairRuns(d, R))
<1> DEFINE y == RepairRuns(d, R)
<1>0. d \in Database /\ Good(d) /\ Audit(d, t, ran) BY HeldFacts
<1>1. /\ Shrinks(d, y) /\ y.hold = d.hold /\ y.obs = d.obs /\ y.inf = d.inf
      /\ RunsHaveRows(d) => RunsHaveRows(y)
  BY <1>0, RepairRunsSane
<1>2. Good(y) /\ Audit(y, t, ran) BY <1>0, RepairRunsGood, RepairRunsAudit
<1> HIDE DEF y
<1>4. Held(y, t, o) BY <1>1, <1>2, HeldShrinks
<1>5. Accounted(d, y) BY <1>1, AccountedCopy
<1> QED BY <1>4, <1>5 DEF y

\* The turn in flight and the store after the reap, for every handler below.
LEMMA ReapNow ==
    ASSUME HeldInv
    PROVE  LET d == Reaped(db) IN
           /\ Held(d, turn, orphan) /\ Held(d, Sever(turn, db, d), orphan)
           /\ Accounted(db, d) /\ Shrinks(db, d)
           /\ db \in Database /\ RowsOpen(db) /\ Good(db)
<1>0. Held(db, turn, orphan) BY HeldNow
<1>1. db \in Database /\ RowsOpen(db) /\ Good(db) BY <1>0, HeldFacts
<1>2. /\ Held(Reaped(db), turn, orphan) /\ Accounted(db, Reaped(db))
      /\ Shrinks(db, Reaped(db))
  BY <1>0, ReapedSane
<1>3. Held(Reaped(db), Sever(turn, db, Reaped(db)), orphan) BY <1>0, <1>2, SeverSane
<1> QED BY <1>1, <1>2, <1>3

LEMMA AmendTaskSane ==
    ASSUME HeldInv, NEW r \in Runs, NEW b \in BOOLEAN, AmendTask(r, b) PROVE Lands(db)
<1> DEFINE d == Reaped(db)
           x == updateRunData(d, r, b)
<1>1. db' = x /\ turn' = turn /\ orphan' = orphan BY DEF AmendTask
<1>2. Held(d, turn, orphan) /\ Accounted(db, d) /\ db \in Database /\ RowsOpen(db)
  BY ReapNow
<1> HIDE DEF d
<1>3. d \in Database /\ Good(d) /\ Audit(d, turn, ran) BY <1>2, HeldFacts
<1>4. Good(x) /\ Audit(x, turn, ran) BY <1>3, UpdateRunDataGood, UpdateRunDataAudit
<1>5. /\ Shrinks(d, x) /\ x.hold = d.hold /\ x.obs = d.obs /\ x.inf = d.inf
      /\ RunsHaveRows(d) => RunsHaveRows(x)
  BY <1>3, UpdateRunDataSane
<1> HIDE DEF x
<1>6. Held(x, turn, orphan) BY <1>2, <1>4, <1>5, HeldShrinks
<1>7. Accounted(db, x) BY <1>2, <1>5, AccountedCopy, AccountedTrans
<1> QED BY <1>1, <1>6, <1>7, LandsOf

LEMMA ReadReapsSane == ASSUME HeldInv, ReadReaps PROVE Lands(db)
BY ReapNow, LandsOf DEF ReadReaps

LEMMA ReadCommissionRunSane ==
    ASSUME HeldInv, NEW r \in Runs, ReadCommissionRun(r) PROVE Lands(db)
<1> DEFINE d1 == Reaped(db)
           d2 == IF turn.pc = "idle" THEN RepairRuns(d1, {r}) ELSE d1
           t == Sever(turn, db, d1)
<1>1. /\ db' = d2 \/ db' = expireRuns(d2, {r})
      /\ turn' = t /\ orphan' = orphan
  BY DEF ReadCommissionRun
<1>2. Held(d1, t, orphan) /\ Accounted(db, d1) /\ db \in Database /\ RowsOpen(db)
  BY ReapNow
<1> HIDE DEF d1, t
<1>3. Held(d2, t, orphan) /\ (d2 = d1 \/ Accounted(d1, d2)) BY <1>2, RepairHeld
<1> HIDE DEF d2
<1>4. Accounted(db, d2) BY <1>2, <1>3, AccountedTrans
<1>5. /\ Held(expireRuns(d2, {r}), t, orphan)
      /\ Accounted(d2, expireRuns(d2, {r}))
  BY <1>3, ExpireHeld
<1>6. Accounted(db, expireRuns(d2, {r})) BY <1>2, <1>4, <1>5, AccountedTrans
<1> QED BY <1>1, <1>3, <1>4, <1>5, <1>6, LandsOf

LEMMA StartSessionSane == ASSUME HeldInv, StartSession PROVE Lands(db)
<1> DEFINE d == Reaped(db)
           t == Sever(turn, db, d)
<1>1. /\ db' = d \/ \E s \in ActiveCandidates(d) : db' = resolveActiveSession(d, s)
      /\ turn' = t /\ orphan' = orphan
  BY DEF StartSession
<1>2. Held(d, t, orphan) /\ Accounted(db, d) /\ db \in Database /\ RowsOpen(db)
  BY ReapNow
<1> HIDE DEF d, t
<1>3. \A s \in ActiveCandidates(d) :
          /\ Held(resolveActiveSession(d, s), t, orphan)
          /\ Accounted(d, resolveActiveSession(d, s))
  BY <1>2, ResolveSessionSane
<1>4. \A s \in ActiveCandidates(d) : Accounted(db, resolveActiveSession(d, s))
  BY <1>2, <1>3, AccountedTrans
<1> QED BY <1>1, <1>2, <1>3, <1>4, LandsOf

LEMMA EndSessionSane == ASSUME HeldInv, EndSession PROVE Lands(db)
<1> DEFINE d == Reaped(db)
           S == selectOpenSessions(d) \cap ActiveCandidates(d)
           d2 == EndSessions(d, S)
<1>1. db' = d2 /\ turn' = Sever(turn, db, d2) /\ orphan' = orphan BY DEF EndSession
<1>2. /\ Held(d, turn, orphan) /\ Accounted(db, d) /\ db \in Database /\ RowsOpen(db)
      /\ Shrinks(db, d) /\ Good(db)
  BY ReapNow
<1> HIDE DEF d
<1>3. S \in SUBSET selectOpenSessions(d) OBVIOUS
<1> HIDE DEF S
<1>4. Held(d2, turn, orphan) /\ Shrinks(d, d2) /\ Accounted(d, d2)
  BY <1>2, <1>3, EndSessionsSane
<1> HIDE DEF d2
<1>5. Shrinks(db, d2) /\ Accounted(db, d2) BY <1>2, <1>4, ShrinksTrans, AccountedTrans
<1>6. Held(d2, Sever(turn, db, d2), orphan) BY <1>4, <1>5, HeldNow, SeverSane
<1> QED BY <1>1, <1>5, <1>6, LandsOf

LEMMA SessionAgesSane ==
    ASSUME HeldInv, NEW s \in Sessions, SessionAges(s) PROVE Lands(db)
<1> DEFINE A == {u \in Sessions : u <= s}
           d == [db EXCEPT !.aged = @ \cup A]
<1>0. Held(db, turn, orphan) /\ db \in Database /\ Good(db) BY HeldNow, HeldFacts
<1>1. A \subseteq Sessions OBVIOUS
<1>2. db' = d /\ turn' = turn /\ orphan' = orphan BY DEF SessionAges
<1> HIDE DEF A
<1>3. d \in Database BY <1>0, <1>1 DEF Database
<1>4. /\ d.hold = db.hold /\ d.opened = db.opened /\ d.sess = db.sess
      /\ d.grants = db.grants /\ d.obs = db.obs /\ d.inf = db.inf /\ d.run = db.run
  BY <1>0 DEF Database
<1> HIDE DEF d
<1>5. Shrinks(db, d) /\ Accounted(db, d) BY <1>0, <1>3, <1>4, ShrinksCopy, AccountedCopy
<1>6. RunsHaveRows(db) => RunsHaveRows(d) BY <1>4, RowsKept DEF Waiting
<1>7. Good(d) BY <1>0, <1>3, <1>4, GoodCopy
<1>8. Audit(d, turn, ran) BY <1>0, <1>3, <1>4, AuditCopy DEF Held
<1>9. Held(d, turn, orphan) BY <1>0, <1>5, <1>6, <1>7, <1>8, HeldShrinks
<1> QED BY <1>2, <1>5, <1>9, LandsOf

\* A step of the idle gate that leaves the turn alone.
LEMMA LandsGate ==
    ASSUME HeldInv, turn.pc = "idle", turn' = turn, NEW CONSTANT d, db' = d,
           Sane(d, orphan'), Accounted(db, d)
    PROVE  Lands(db)
<1>1. SaneTurn(turn, db) BY HeldNow DEF Held
<1>2. SaneTurn(turn', db') BY <1>1, IdlePc
<1>3. KeepsParked(db) BY KeepsAccounted
<1> QED BY <1>2, <1>3 DEF Lands

LEMMA CancelTaskSane == ASSUME HeldInv, NEW r \in Runs, CancelTask(r) PROVE Lands(db)
<1> DEFINE d == Reaped(db)
           H == selectHeldCallsForRun(d, r)
           w == SweepHolds(d, H)
           from == {"awaiting_confirmation", "needs_input"}
           R == {r}
           y == MoveRuns(w, R, from, "cancelled")
<1>1. /\ turn.pc = "idle" /\ db' = y /\ turn' = turn /\ orphan' = orphan
      /\ d.run[r].status \in from
  BY DEF CancelTask, cancelRun
<1>2. /\ Held(d, turn, orphan) /\ Accounted(db, d) /\ db \in Database /\ RowsOpen(db)
  BY ReapNow
<1> HIDE DEF d
<1>3. d \in Database /\ Good(d) /\ RowsOpen(d) BY <1>2, HeldFacts
<1>4. \A h \in Entries : h \in H <=> Present(d, h) /\ d.hold[h].run = r
  BY DEF selectHeldCallsForRun, selectHeldCalls, Present
<1>5. /\ "cancelled" \in RunStatus /\ from \in SUBSET NonTerminal
      /\ \A q : q \in R <=> q = r
      /\ \A x : x \in from <=> x = "awaiting_confirmation" \/ x = "needs_input"
  BY DEF RunStatus, Terminal, NonTerminal
<1> HIDE DEF H, from, R
<1>6. /\ w \in Database /\ w.sess = d.sess /\ w.run = d.run /\ w.grants = d.grants
      /\ w.hold = [h \in Entries |-> IF h \in H THEN NoRow ELSE d.hold[h]]
      /\ w.opened = d.opened
  <2>1. w.hold = [h \in Entries |-> IF h \in H THEN NoRow ELSE d.hold[h]]
    BY <1>3, SweepRows
  <2> QED BY <1>3, <2>1, SweepFields
<1>7. Accounted(d, w) BY <1>3, SweepAccounted
<1> HIDE DEF w
<1>8. Shrinks(d, w)
  <2>1. \A h \in Entries : RowShrinks(d.hold[h], w.hold[h])
    BY <1>6, NoRowAbsent DEF RowShrinks
  <2> QED BY <1>3, <1>6, <2>1, ShrinksRows
<1>9. /\ Shrinks(w, y) /\ y.hold = w.hold
      /\ \A q \in Runs : y.run[q].status = IF q \in R /\ w.run[q].status \in from
                                           THEN "cancelled" ELSE w.run[q].status
  <2>1. w \in Database BY <1>6
  <2>2. "cancelled" \in RunStatus /\ from \in SUBSET NonTerminal BY <1>5
  <2> QED BY <2>1, <2>2, MoveRunsShrinks
<1>10. y.obs = w.obs /\ y.inf = w.inf BY <1>5, <1>6, MoveRunsFields
<1> HIDE DEF y
<1>11. Shrinks(d, y) BY <1>3, <1>8, <1>9, ShrinksTrans
<1>12. ASSUME RunsHaveRows(d), NEW q \in Runs, Waiting(y, q)
       PROVE  \E h \in Entries : Present(y, h) /\ y.hold[h].run = q
  <2>1. q # r /\ Waiting(d, q) BY <1>1, <1>5, <1>6, <1>9, <1>12 DEF Waiting
  <2>2. PICK h \in Entries : Present(d, h) /\ d.hold[h].run = q
    BY <1>12, <2>1 DEF RunsHaveRows
  <2>3. h \notin H BY <1>4, <2>1, <2>2
  <2>4. y.hold[h] = d.hold[h] BY <1>6, <1>9, <2>3
  <2> QED BY <2>2, <2>4 DEF Present
<1>13. RunsHaveRows(d) => RunsHaveRows(y) BY <1>12 DEF RunsHaveRows
<1>14. Sane(y, orphan) BY <1>2, <1>11, <1>13, SaneShrinks DEF Held, Sane
<1>15. Accounted(w, y) BY <1>9, <1>10, AccountedCopy
<1>16. Accounted(db, y) BY <1>2, <1>3, <1>7, <1>15, AccountedTrans
<1> QED BY <1>1, <1>14, <1>16, LandsGate

LEMMA KillSwitchSane ==
    ASSUME HeldInv, NEW lost \in BOOLEAN, KillSwitch(lost)
    PROVE  /\ Sane(db', orphan') /\ SaneTurn(turn', db')
           /\ ~lost => Lands(db)
<1> DEFINE H == selectHeldCalls(db)
           a == deleteHeldToolCalls(db, H)
           b == SweepHolds(db, H)
           S == selectOpenSessions(db)
           c == EndSessions(b, S)
           k == IF lost THEN a ELSE c
           d == [k EXCEPT !.grants = {}]
<1>0. Held(db, turn, orphan) BY HeldNow
<1>1. db \in Database /\ Good(db) /\ RowsOpen(db) /\ turn \in Turn BY <1>0, HeldFacts
<1>2. /\ db' = d /\ turn' = [turn EXCEPT !.severed = turn.pc # "idle"]
      /\ orphan' = orphan /\ (lost => "kill_audit" \in Faults)
  BY DEF KillSwitch
<1>3. \A h \in Entries : Present(db, h) => h \in H BY DEF selectHeldCalls, Present
<1>4. \A s \in Sessions : s \in S <=> db.sess[s] = "open" BY DEF selectOpenSessions
<1> HIDE DEF H, S, d
<1>5. /\ a \in Database /\ a.sess = db.sess /\ a.run = db.run /\ a.grants = db.grants
      /\ a.hold = [h \in Entries |-> IF h \in H THEN NoRow ELSE db.hold[h]]
      /\ a.opened = db.opened
  BY <1>1, DeleteFields
<1>6. /\ b \in Database /\ b.sess = db.sess /\ b.run = db.run /\ b.grants = db.grants
      /\ b.hold = [h \in Entries |-> IF h \in H THEN NoRow ELSE db.hold[h]]
      /\ b.opened = db.opened
  <2>1. b.hold = [h \in Entries |-> IF h \in H THEN NoRow ELSE db.hold[h]]
    BY <1>1, SweepRows
  <2> QED BY <1>1, <2>1, SweepFields
<1>7. Accounted(db, b) /\ Good(b) BY <1>1, SweepAccounted, SweepGood
<1>8. Good(c) /\ c.sess = [s \in Sessions |-> IF s \in S THEN "ended" ELSE b.sess[s]]
  BY <1>7, EndSessionsGood
<1> HIDE DEF a, b
<1>9. Shrinks(db, a) /\ Shrinks(db, b)
  <2>1. \A h \in Entries : RowShrinks(db.hold[h], a.hold[h])
    BY <1>5, NoRowAbsent DEF RowShrinks
  <2>2. \A h \in Entries : RowShrinks(db.hold[h], b.hold[h])
    BY <1>6, NoRowAbsent DEF RowShrinks
  <2> QED BY <1>1, <1>5, <1>6, <2>1, <2>2, ShrinksRows
<1>10. \A h \in Entries : ~Present(b, h) BY <1>3, <1>6, NoRowAbsent DEF Present
<1>11. Shrinks(b, c) /\ Accounted(b, c)
  <2>1. RowsOpen(b) /\ RowsMinted(b) BY <1>10 DEF RowsOpen, RowsMinted
  <2>2. S \in SUBSET selectOpenSessions(b) BY <1>6 DEF S, selectOpenSessions
  <2> QED BY <1>7, <2>1, <2>2, EndSessionsShrinks
<1> HIDE DEF c
<1>12. Shrinks(db, k)
  BY <1>1, <1>9, <1>11, ShrinksTrans
<1>13. k \in Database BY <1>5, <1>8 DEF Good
<1> HIDE DEF k
<1>14. /\ d \in Database /\ d.grants = {} /\ d.sess = k.sess /\ d.run = k.run
       /\ d.hold = k.hold /\ d.opened = k.opened /\ d.obs = k.obs /\ d.inf = k.inf
  <2>1. [k EXCEPT !.grants = {}] \in Database BY <1>13 DEF Database
  <2> QED BY <1>13, <2>1 DEF Database, d
<1>15. Shrinks(db, d)
  <2>1. Shrinks(k, d) BY <1>13, <1>14, ShrinksCopy
  <2> QED BY <1>1, <1>12, <2>1, ShrinksTrans
<1>16. ~lost => RunsHaveRows(d)
  <2> SUFFICES ASSUME ~lost, NEW r \in Runs PROVE ~Waiting(d, r) BY DEF RunsHaveRows
  <2>1. d.run = c.run BY <1>14 DEF k
  <2>2. \A s \in Sessions : c.sess[s] # "open" BY <1>4, <1>6, <1>8
  <2>3. c.run[r].status \notin NonTerminal BY <1>8, <2>2 DEF Good, RunsGood
  <2> QED BY <2>1, <2>3 DEF Waiting, NonTerminal
<1>17. Sane(d, orphan) BY <1>0, <1>1, <1>2, <1>15, <1>16, SaneShrinks DEF Held
<1>18. SaneTurn(turn, d) BY <1>0, <1>1, <1>15, TurnShrinks DEF Held
<1>19. SaneTurn(turn', d)
  <2> DEFINE p == turn.pc # "idle"
  <2>1. p \in BOOLEAN OBVIOUS
  <2>2. turn' = [turn EXCEPT !.severed = p] BY <1>2
  <2> HIDE DEF p
  <2>3. /\ turn'.pc = turn.pc /\ turn'.run = turn.run /\ turn'.tool = turn.tool
        /\ turn'.sess = turn.sess /\ turn'.hold = turn.hold /\ turn'.severed = p
    BY <1>1, <2>1, <2>2 DEF Turn
  <2>4. TurnBound(turn', d) /\ TurnSession(turn', d) /\ TurnRow(turn', d)
    BY <1>18, <2>3 DEF SaneTurn, TurnBound, TurnSession, TurnRow
  <2>5. Severed(turn', d) BY <1>14, <2>3 DEF Severed, p
  <2> QED BY <2>4, <2>5 DEF SaneTurn
<1>20. ASSUME ~lost PROVE KeepsParked(db)
  <2>1. d.hold = c.hold /\ d.obs = c.obs /\ d.inf = c.inf BY <1>14, <1>20 DEF k
  <2>2. Accounted(c, d) BY <2>1, AccountedCopy
  <2>3. Accounted(db, d) BY <1>1, <1>7, <1>11, <2>2, AccountedTrans
  <2> QED BY <1>2, <2>3, KeepsAccounted
<1> QED BY <1>2, <1>17, <1>19, <1>20 DEF Lands

-----------------------------------------------------------------------------
(* Affirmative answers and supplied input.                                 *)

\* The spend chain keeps the row and closes the entry it leaves.
LEMMA ReholdSane ==
    ASSUME NEW d, Good(d), RowsOpen(d), NEW h \in Entries, NEW e \in Entries,
           d.hold[h].st = "parked"
    PROVE  LET d2 == reholdForSpend(d, h, e) IN
           /\ Shrinks(d, d2) /\ Accounted(d, d2) /\ d2.run = d.run
           /\ \A g \in Entries : Present(d, g) =>
                 Present(d2, g) /\ d2.hold[g].run = d.hold[g].run
<1> DEFINE old == d.hold[h].entry
           c == CloseObserved(d, old)
           row == [d.hold[h] EXCEPT !.entry = e, !.spend = TRUE]
           w == WithRow(c, h, row)
           d2 == [w EXCEPT !.opened = @ \cup {e}]
<1>0. d \in Database BY DEF Good
<1>1. d.hold[h] \in Row BY <1>0, Fields
<1>2. /\ row \in Row /\ row.st = "parked" /\ row.run = d.hold[h].run
      /\ row.kind = d.hold[h].kind /\ row.sess = d.hold[h].sess /\ row.tool = d.hold[h].tool
  BY <1>1 DEF Row
<1>3. reholdForSpend(d, h, e) = d2 BY DEF reholdForSpend
<1>4. /\ c \in Database /\ c.obs = [d.obs EXCEPT ![old] = @ + 1] /\ c.inf = d.inf
      /\ c.run = d.run /\ c.hold = d.hold /\ c.opened = d.opened /\ c.sess = d.sess
      /\ c.grants = d.grants
  BY <1>0, CloseObservedFields
<1>5. c \in Database BY <1>4
<1> HIDE DEF row, c
<1>6. /\ w \in Database /\ w.run = c.run /\ w.opened = c.opened /\ w.obs = c.obs
      /\ w.inf = c.inf /\ w.hold = [g \in Entries |-> IF g = h THEN row ELSE c.hold[g]]
      /\ w.sess = c.sess /\ w.grants = c.grants
  BY <1>2, <1>5, WithRowFields
<1>7. w \in Database BY <1>6
<1> HIDE DEF w
<1>8. d2 \in Database BY <1>7 DEF Database
<1>9. /\ d2.opened = w.opened \cup {e} /\ d2.run = w.run /\ d2.obs = w.obs
      /\ d2.inf = w.inf /\ d2.hold = w.hold /\ d2.sess = w.sess /\ d2.grants = w.grants
  BY <1>7 DEF Database
<1> HIDE DEF d2
<1>10. d2.hold[h] = row /\ \A g \in Entries \ {h} : d2.hold[g] = d.hold[g]
  BY <1>4, <1>6, <1>9
<1>11. \A g \in Entries : RowShrinks(d.hold[g], d2.hold[g])
  <2>1. RowShrinks(d.hold[h], row) BY <1>2 DEF RowShrinks
  <2>2. \A x : RowShrinks(x, x) BY DEF RowShrinks
  <2> QED BY <1>10, <2>1, <2>2
<1>12. Shrinks(d, d2)
  <2>1. /\ d2.sess = d.sess /\ d2.run = d.run /\ d2.grants = d.grants
        /\ d.opened \subseteq d2.opened
    BY <1>4, <1>6, <1>9
  <2> QED BY <1>0, <1>8, <1>11, <2>1, ShrinksRows
<1>13. old \in Entries BY <1>0, ParkedEntry
<1>14. \A x \in Entries : /\ d.obs[x] \in Nat /\ d.inf[x] \in Nat
                          /\ d2.obs[x] = IF x = old THEN d.obs[x] + 1 ELSE d.obs[x]
                          /\ d2.inf[x] = d.inf[x]
  <2>1. d.obs \in [Entries -> Nat] /\ d.inf \in [Entries -> Nat] BY <1>0, Fields
  <2>2. d2.obs = [d.obs EXCEPT ![old] = @ + 1] /\ d2.inf = d.inf
    BY <1>4, <1>6, <1>9
  <2> QED BY <2>1, <2>2
<1>15. hasCloser(d2, old) /\ \A x \in Entries : hasCloser(d, x) => hasCloser(d2, x)
  BY <1>13, <1>14 DEF hasCloser
<1>16. Accounted(d, d2) BY <1>10, <1>15 DEF Accounted
<1>17. \A g \in Entries : Present(d, g) => Present(d2, g) /\ d2.hold[g].run = d.hold[g].run
  BY <1>2, <1>10 DEF Present
<1>18. d2.run = d.run BY <1>4, <1>6, <1>9
<1> QED BY <1>3, <1>12, <1>16, <1>17, <1>18

LEMMA ResolveApproveSane ==
    ASSUME HeldInv, Undisturbed, NEW h \in Entries, NEW session \in BOOLEAN,
           ResolveApprove(h, session)
    PROVE  Lands(db)
<1> DEFINE row == db.hold[h]
           g == db.grants \cup {<<row.sess, row.tool>>}
           d == IF session THEN [db EXCEPT !.grants = g] ELSE db
<1>0. Held(db, turn, orphan) BY HeldNow
<1>1. /\ db \in Database /\ Good(db) /\ RowsOpen(db) /\ Sane(db, orphan)
      /\ orphan \in Entries \cup {None}
  BY <1>0, HeldFacts DEF Held
<1>2. /\ row.st = "parked" /\ Present(db, h) /\ row.kind # "input" /\ turn.pc = "idle"
      /\ orphan' = orphan
      /\ \/ /\ \E e \in Entries \ db.opened :
                  db' = updateCommissionStatus(reholdForSpend(d, h, e), row.run,
                                               "awaiting_confirmation")
            /\ turn' = turn
         \/ /\ db' = SetTurnState(d, h, "dispatched")
            /\ turn' = [ResolveTurn(h) EXCEPT !.pc = "hold"]
  BY DEF ResolveApprove, Answerable, Loadable, Present, Undisturbed
<1>3. row.sess \in Sessions /\ row.tool \in Tools /\ db.sess[row.sess] # "none"
  BY <1>1, <1>2 DEF Good, RowsGood, Present, Sane, RowsMinted
<1>4. /\ d \in Database /\ d.hold = db.hold /\ d.opened = db.opened /\ d.sess = db.sess
      /\ d.obs = db.obs /\ d.inf = db.inf /\ d.run = db.run
      /\ d.grants = g \/ d.grants = db.grants
  <2>1. g \in SUBSET (Sessions \X Tools) BY <1>1, <1>3, Fields
  <2> HIDE DEF g
  <2>2. [db EXCEPT !.grants = g] \in Database BY <1>1, <2>1 DEF Database
  <2> QED BY <1>1, <2>2 DEF Database
<1> HIDE DEF d
<1>5. GrantsMinted(d)
  <2> SUFFICES ASSUME NEW s \in Sessions, NEW v \in Tools, <<s, v>> \in d.grants
               PROVE  d.sess[s] # "none"
    BY DEF GrantsMinted
  <2>1. <<s, v>> \in db.grants \/ s = row.sess BY <1>4
  <2> QED BY <1>1, <1>3, <1>4, <2>1 DEF Sane, GrantsMinted
<1> HIDE DEF g
<1>6. Sane(d, orphan)
  BY <1>1, <1>4, <1>5 DEF Sane, OneOpen, RowsMinted, RowsBound, OrphanHuman, RowsOnOpen,
                          RunsHaveRows, LiveRun, Waiting, Present
<1>7. Good(d) BY <1>1, <1>4, GoodCopy
<1>8. RowsOpen(d) BY <1>1, <1>4 DEF RowsOpen, Present, hasCloser
<1>9. Accounted(db, d) BY <1>4, AccountedCopy
<1>10. ASSUME NEW e \in Entries \ db.opened, turn' = turn,
              db' = updateCommissionStatus(reholdForSpend(d, h, e), row.run,
                                           "awaiting_confirmation")
       PROVE  Lands(db)
  <2> DEFINE x == reholdForSpend(d, h, e)
             y == updateCommissionStatus(x, row.run, "awaiting_confirmation")
  <2>1. /\ Shrinks(d, x) /\ Accounted(d, x) /\ x.run = d.run
        /\ \A f \in Entries : Present(d, f) => Present(x, f) /\ x.hold[f].run = d.hold[f].run
    <3>1. d.hold[h].st = "parked" /\ e \in Entries BY <1>2, <1>4
    <3> QED BY <1>7, <1>8, <3>1, ReholdSane
  <2> HIDE DEF x
  <2>2. x \in Database BY <2>1 DEF Shrinks
  <2>3. /\ Shrinks(x, y) /\ y.hold = x.hold
        /\ \A q \in Runs : y.run[q].status =
              IF q = row.run /\ x.run[q].status \in {"running", "awaiting_confirmation"}
              THEN "awaiting_confirmation" ELSE x.run[q].status
    BY <2>2, UpdateStatusSane
  <2>4. y.obs = x.obs /\ y.inf = x.inf
    <3>1. "awaiting_confirmation" \in RunStatus BY DEF RunStatus, NonTerminal
    <3> QED BY <2>2, <3>1, MoveRunsFields DEF updateCommissionStatus
  <2>5. db' = y BY <1>10 DEF x
  <2> HIDE DEF y
  <2>6. Shrinks(d, y) BY <1>7, <2>1, <2>3, ShrinksTrans
  <2>7. ASSUME RunsHaveRows(d), NEW q \in Runs, Waiting(y, q)
        PROVE  \E f \in Entries : Present(y, f) /\ y.hold[f].run = q
    <3>1. Waiting(d, q) \/ q = row.run BY <2>1, <2>3, <2>7 DEF Waiting
    <3>2. \E f \in Entries : Present(d, f) /\ d.hold[f].run = q
      BY <1>2, <1>4, <2>7, <3>1 DEF RunsHaveRows, Present
    <3> QED BY <2>1, <2>3, <3>2 DEF Present
  <2>8. RunsHaveRows(d) => RunsHaveRows(y) BY <2>7 DEF RunsHaveRows
  <2>9. Sane(y, orphan) BY <1>1, <1>6, <1>7, <2>6, <2>8, SaneShrinks DEF Sane
  <2>10. Accounted(db, y)
    <3>1. Accounted(x, y) BY <2>3, <2>4, AccountedCopy
    <3>2. Accounted(db, x) BY <1>1, <1>9, <2>1, AccountedTrans
    <3> QED BY <1>1, <3>1, <3>2, AccountedTrans
  <2> QED BY <1>2, <1>10, <2>5, <2>9, <2>10, LandsGate
<1>11. ASSUME db' = SetTurnState(d, h, "dispatched"),
              turn' = [ResolveTurn(h) EXCEPT !.pc = "hold"]
       PROVE  Lands(db)
  <2> DEFINE x == SetTurnState(d, h, "dispatched")
             u == ResolveTurn(h)
             rw == [d.hold[h] EXCEPT !.st = "dispatched"]
  <2>1. /\ Shrinks(d, x)
        /\ RunsHaveRows(d) => RunsHaveRows(x)
    BY <1>4, SetTurnStateSane
  <2>2. /\ x.run = d.run /\ x.obs = d.obs /\ x.inf = d.inf
        /\ x.hold = [f \in Entries |-> IF f = h THEN rw ELSE d.hold[f]]
    <3>1. Present(d, h) BY <1>2, <1>4 DEF Present
    <3> QED BY <1>4, <3>1, DispatchedFields
  <2>3. rw.st = "dispatched" /\ rw.run = row.run
    BY <1>4, Fields DEF Row
  <2>4. db' = x BY <1>11
  <2> HIDE DEF x, rw
  <2>5. x.hold[h] = rw /\ \A f \in Entries \ {h} : x.hold[f] = db.hold[f]
    BY <1>4, <2>2
  <2>6. Sane(x, orphan) BY <1>1, <1>6, <1>7, <2>1, SaneShrinks DEF Sane
  <2>7. /\ u \in Turn /\ u.run = row.run /\ u.hold = h /\ u.entry = row.entry
        /\ u.tool = row.tool /\ u.severed = FALSE
    BY <1>2, ResolveTurnSane
  <2>8. turn' = [u EXCEPT !.pc = "hold"] BY <1>11
  <2> HIDE DEF u
  <2>9. /\ turn'.pc = "hold" /\ turn'.run = row.run /\ turn'.hold = h
        /\ turn'.entry = row.entry /\ turn'.tool = row.tool /\ turn'.severed = FALSE
    BY <2>7, <2>8 DEF Turn
  <2>10. TurnBound(turn', x)
    <3>1. row \in Row BY <1>1, Fields
    <3>2. row.kind = "confirmation" BY <1>2, <3>1 DEF Row
    <3>3. row.run # None /\ row.tool \in SlotTools => db.run[row.run].slot
      BY <1>1, <1>2, <3>2 DEF Sane, RowsBound
    <3> QED BY <1>4, <2>2, <2>9, <3>3 DEF TurnBound
  <2>11. TurnSession(turn', x) /\ Severed(turn', x) BY <2>9 DEF TurnSession, Severed
  <2>12. TurnRow(turn', x) BY <2>3, <2>5, <2>9 DEF TurnRow
  <2>13. KeepsParked(db)
    <3>1. \A f \in Entries : hasCloser(db, f) => hasCloser(db', f)
      BY <1>4, <2>2, <2>4 DEF hasCloser
    <3>2. ASSUME NEW f \in Entries, db.hold[f].st = "parked"
          PROVE  Tracks(db.hold[f].entry)
      <4>1. CASE f = h BY <2>9, <4>1 DEF Tracks
      <4>2. CASE f # h BY <2>4, <2>5, <3>2, <4>2 DEF Tracks
      <4> QED BY <4>1, <4>2
    <3> QED BY <3>1, <3>2 DEF KeepsParked
  <2> QED BY <1>2, <2>4, <2>6, <2>10, <2>11, <2>12, <2>13 DEF Lands, SaneTurn
<1> QED BY <1>2, <1>10, <1>11

LEMMA ProvideSane ==
    ASSUME HeldInv, Undisturbed, NEW r \in Runs, NEW h \in Entries, NEW b \in BOOLEAN,
           ProvideTaskInput(r, h, b)
    PROVE  Lands(db)
<1> DEFINE d == Reaped(db)
           x == updateRunData(d, r, b)
           y == clearNeedsInput(x, r)
           z == SetTurnState(y, h, "dispatched")
           u == LoopTurn("provide", r)
           t == [u EXCEPT !.hold = h, !.entry = d.hold[h].entry, !.direct = d.hold[h].direct]
<1>1. /\ Held(d, turn, orphan) /\ Accounted(db, d) /\ db \in Database /\ RowsOpen(db)
  BY ReapNow
<1>2. /\ d.run[r].status = "needs_input" /\ Present(d, h) /\ d.hold[h].run = r
      /\ ExecuteTool(z, t, d.hold[h].tool)
  BY DEF ProvideTaskInput, selectInputHoldForTask, selectHeldCallsForRun,
         selectHeldCalls, Present
<1> HIDE DEF d
<1>3. /\ Held(d, Idle, orphan) /\ d \in Database /\ Good(d) /\ RowsOpen(d)
      /\ Audit(d, Idle, ran)
  BY <1>1, HeldIdle, HeldFacts
<1>4. d.hold[h].st = "parked"
  BY <1>2, <1>3, NoneFacts DEF Audit, Store, RowsOfRuns
<1>5. /\ Good(x) /\ x.hold = d.hold
      /\ \A q \in Runs : x.run[q].status = d.run[q].status
  BY <1>3, UpdateRunDataGood
<1>6. /\ Shrinks(d, x) /\ x.obs = d.obs /\ x.inf = d.inf
      /\ RunsHaveRows(d) => RunsHaveRows(x)
  BY <1>3, UpdateRunDataSane
<1>7. Audit(x, Idle, ran) BY <1>3, UpdateRunDataAudit
<1> HIDE DEF x
<1>8. Held(x, Idle, orphan) /\ x \in Database
  BY <1>3, <1>5, <1>6, <1>7, HeldShrinks DEF Good
<1>9. /\ Shrinks(x, y) /\ y.hold = x.hold /\ y.obs = x.obs /\ y.inf = x.inf
      /\ RunsHaveRows(x) => RunsHaveRows(y)
  BY <1>8, ClearNeedsInputSane
<1>10. y.run[r].status = "running"
  <2>1. "running" \in RunStatus BY DEF RunStatus, NonTerminal
  <2>2. x.run[r].status = "needs_input" BY <1>2, <1>5
  <2> QED BY <1>8, <2>1, <2>2, MoveRunsFields DEF clearNeedsInput
<1>11. Good(y) /\ Audit(y, Idle, ran)
  BY <1>5, <1>7, ClearNeedsInputGood, ClearNeedsInputAudit
<1> HIDE DEF y
<1>12. Held(y, Idle, orphan) /\ y \in Database
  BY <1>8, <1>9, <1>11, HeldShrinks DEF Good
<1>13. d.hold[h] \in Row BY <1>3, Fields
<1>14. u \in Turn /\ u.run = r /\ u.pc = "llm" /\ u.op = "provide" /\ u.severed = FALSE
  BY DEF LoopTurn, Idle, Turn
<1> HIDE DEF u
<1>15. /\ t \in Turn /\ t.run = r /\ t.pc = "llm" /\ t.op = "provide"
       /\ t.hold = h /\ t.entry = d.hold[h].entry
  BY <1>13, <1>14 DEF Turn, Row
<1>16. t.severed = FALSE BY <1>14 DEF Turn
<1> HIDE DEF t
<1>17. ran \in [Entries -> Nat] /\ ran[h] = 0
  BY <1>3, <1>4 DEF Audit, Store, Sends
<1>18. y.hold = d.hold /\ y.hold[h] = d.hold[h] BY <1>5, <1>9
<1>19. Audit(z, t, ran)
  BY <1>2, <1>4, <1>10, <1>11, <1>15, <1>17, <1>18, DispatchAudit
<1>20. /\ Shrinks(y, z) /\ Good(z)
       /\ RunsHaveRows(y) => RunsHaveRows(z)
  BY <1>11, <1>12, SetTurnStateSane, SetTurnStateGood
<1>21. Sane(z, orphan) BY <1>12, <1>20, SaneShrinks DEF Held, Sane
<1> DEFINE rw == [y.hold[h] EXCEPT !.st = "dispatched"]
<1>22. /\ z.obs = y.obs /\ z.inf = y.inf
       /\ z.hold = [f \in Entries |-> IF f = h THEN rw ELSE y.hold[f]]
  <2>1. Present(y, h) BY <1>2, <1>18 DEF Present
  <2> QED BY <1>12, <2>1, DispatchedFields
<1>23. rw.st = "dispatched" /\ rw.run = r BY <1>2, <1>13, <1>18 DEF Row
<1> HIDE DEF z, rw
<1>24. z.hold[h] = rw /\ \A f \in Entries \ {h} : z.hold[f] = d.hold[f]
  BY <1>18, <1>22
<1>25. SaneTurn(t, z)
  BY <1>15, <1>16, <1>23, <1>24
  DEF SaneTurn, TurnBound, TurnSession, TurnRow, Severed
<1>26. Held(z, t, orphan) BY <1>12, <1>19, <1>20, <1>21, <1>25 DEF Held
<1>27. d.hold[h].tool \in Tools BY <1>2, <1>3 DEF Good, RowsGood, Present
<1>28. Ends(z, t) BY <1>2, <1>15, <1>26, <1>27, ExecuteToolSane DEF Undisturbed
<1>29. Lands(z) /\ Tracks(d.hold[h].entry) BY <1>15, <1>28 DEF Ends
<1>30. KeepsParked(d)
  <2>1. ASSUME NEW f \in Entries, d.hold[f].st = "parked" PROVE Tracks(d.hold[f].entry)
    <3>1. CASE f = h BY <1>29, <3>1
    <3>2. CASE f # h
      <4>1. z.hold[f] = d.hold[f] BY <1>24, <3>2
      <4>2. Tracks(z.hold[f].entry) BY <1>29, <2>1, <4>1 DEF Lands, KeepsParked
      <4> QED BY <4>1, <4>2
    <3> QED BY <3>1, <3>2
  <2>2. \A f \in Entries : hasCloser(d, f) => hasCloser(z, f)
    BY <1>6, <1>9, <1>22 DEF hasCloser
  <2>3. \A f \in Entries : hasCloser(d, f) => hasCloser(db', f)
    BY <1>29, <2>2 DEF Lands, KeepsParked
  <2> QED BY <2>1, <2>3 DEF KeepsParked
<1>31. Lands(d) BY <1>29, <1>30 DEF Lands
<1> QED BY <1>1, <1>31, LandsAccounted

-----------------------------------------------------------------------------
(* The theorems.                                                           *)

LEMMA InitSane == Init => HoldInv
<1> SUFFICES ASSUME Init PROVE HoldInv OBVIOUS
<1>1. /\ \A h \in Entries : db.hold[h].st = "absent"
      /\ \A s \in Sessions : db.sess[s] = "none"
      /\ \A r \in Runs : db.run[r].status = "unborn"
      /\ db.grants = {} /\ orphan = None /\ turn = Idle
  BY NoRowAbsent DEF Init, EmptyDatabase
<1>2. OneOpen(db) /\ GrantsMinted(db) /\ OrphanHuman(db, orphan)
  BY <1>1 DEF OneOpen, GrantsMinted, OrphanHuman
<1>3. RowsMinted(db) /\ RowsBound(db) /\ RowsOnOpen(db)
  BY <1>1 DEF RowsMinted, RowsBound, RowsOnOpen, Present
<1>4. RunsHaveRows(db) BY <1>1 DEF RunsHaveRows, Waiting
<1>5. SaneTurn(turn, db) BY <1>1, SaneIdle
<1> QED BY <1>2, <1>3, <1>4, <1>5 DEF HoldInv, Sane

LEMMA NextSane ==
    ASSUME HeldInv, Undisturbed, Next
    PROVE  /\ Sane(db', orphan') /\ SaneTurn(turn', db')
           /\ Lands(db) \/ KillSwitch(TRUE)
<1>1. CASE Chat BY <1>1, ChatSane DEF Lands
<1>2. ASSUME NEW r \in Runs, NEW slot \in BOOLEAN, CommissionGoal(r, slot) PROVE Lands(db)
  BY <1>2, CommissionSane
<1>3. ASSUME NEW tool \in Tools, executeToolDirect(tool) PROVE Lands(db)
  BY <1>3, DirectSane
<1>4. ASSUME NEW tool \in Tools, LoopCallsTool(tool) PROVE Lands(db)
  BY <1>4, LoopCallsToolSane
<1>5. CASE LoopFinishes BY <1>5, LoopFinishesSane DEF Lands
<1>6. CASE LoopThrows BY <1>6, LoopThrowsSane DEF Lands
<1>7. CASE ScopesRead BY <1>7, ScopesReadSane DEF Lands
<1>8. CASE ToolReturns BY <1>8, ToolReturnsSane DEF Lands
<1>9. ASSUME NEW h \in Entries, ResolveAnswered(h) PROVE Lands(db)
  BY <1>9, ResolveAnsweredSane
<1>10. ASSUME NEW h \in Entries, ResolveDispatched(h) PROVE Lands(db)
  BY <1>10, ResolveDispatchedSane
<1>11. ASSUME NEW h \in Entries, ResolveDeny(h) PROVE Lands(db)
  BY <1>11, ResolveDenySane
<1>12. ASSUME NEW h \in Entries, NEW b \in BOOLEAN, ResolveApprove(h, b) PROVE Lands(db)
  BY <1>12, ResolveApproveSane
<1>13. CASE HeldCallReturns BY <1>13, HeldCallReturnsSane DEF Lands
<1>14. CASE HeldOutcomeWriteFails
  <2>1. Lands(db) BY <1>14, IdleStepSane DEF HeldOutcomeWriteFails
  <2> QED BY <2>1 DEF Lands
<1>15. ASSUME NEW r \in Runs, NEW h \in Entries, NEW b \in BOOLEAN,
              ProvideTaskInput(r, h, b)
       PROVE  Lands(db)
  BY <1>15, ProvideSane
<1>16. ASSUME NEW r \in Runs, CancelTask(r) PROVE Lands(db) BY <1>16, CancelTaskSane
<1>17. ASSUME NEW r \in Runs, ReadCommissionRun(r) PROVE Lands(db)
  BY <1>17, ReadCommissionRunSane
<1>18. ASSUME NEW r \in Runs, NEW b \in BOOLEAN, AmendTask(r, b) PROVE Lands(db)
  BY <1>18, AmendTaskSane
<1>19. CASE ReadReaps BY <1>19, ReadReapsSane DEF Lands
<1>20. CASE StartSession BY <1>20, StartSessionSane DEF Lands
<1>21. CASE EndSession BY <1>21, EndSessionSane DEF Lands
<1>22. ASSUME NEW lost \in BOOLEAN, KillSwitch(lost)
       PROVE  /\ Sane(db', orphan') /\ SaneTurn(turn', db')
              /\ Lands(db) \/ KillSwitch(TRUE)
  <2>1. /\ Sane(db', orphan') /\ SaneTurn(turn', db')
        /\ ~lost => Lands(db)
    BY <1>22, KillSwitchSane
  <2>2. CASE lost = TRUE BY <1>22, <2>1, <2>2
  <2>3. CASE lost = FALSE BY <2>1, <2>3
  <2> QED BY <2>2, <2>3
<1>23. ASSUME NEW s \in Sessions, SessionAges(s) PROVE Lands(db)
  BY <1>23, SessionAgesSane
<1>24. CASE Crash
  <2>1. Lands(db) BY <1>24, IdleStepSane DEF Crash
  <2> QED BY <2>1 DEF Lands
<1>25. Lands(db) => Sane(db', orphan') /\ SaneTurn(turn', db') BY DEF Lands
<1> QED
  BY <1>1, <1>2, <1>3, <1>4, <1>5, <1>6, <1>7, <1>8, <1>9, <1>10, <1>11, <1>12,
     <1>13, <1>14, <1>15, <1>16, <1>17, <1>18, <1>19, <1>20, <1>21, <1>22, <1>23,
     <1>24, <1>25 DEF Next

LEMMA HeldStep == Undisturbed /\ HeldInv /\ [Next]_vars => HeldInv'
<1>1. ASSUME Undisturbed, HeldInv, Next PROVE HeldInv'
  <2>1. AuditInv' BY <1>1, AuditStep DEF HeldInv
  <2>2. Sane(db', orphan') /\ SaneTurn(turn', db') BY <1>1, NextSane
  <2> QED BY <2>1, <2>2 DEF HeldInv, HoldInv
<1>2. ASSUME Undisturbed, HeldInv, UNCHANGED vars PROVE HeldInv'
  <2>1. AuditInv' BY <1>2, AuditStep DEF HeldInv
  <2>2. Sane(db', orphan') /\ SaneTurn(turn', db') BY <1>2 DEF HeldInv, HoldInv, vars
  <2> QED BY <2>1, <2>2 DEF HeldInv, HoldInv
<1> QED BY <1>1, <1>2

\* What a parked call waits on stays in step with the call under every handler,
\* sweep, kill and crash: its session, its task and the value its task supplies.
THEOREM HeldInvariance == ASSUME Undisturbed PROVE Spec => []HeldInv
<1>1. Init => HeldInv BY InitAudit, InitSane DEF HeldInv
<1>2. HeldInv /\ [Next]_vars => HeldInv' BY HeldStep
<1> QED BY <1>1, <1>2, PTL DEF Spec

\* executeTool's required-slot gate: a commissioned call is not sent before the
\* client supplied its value, whether it is allowed at once, confirmed later,
\* provided and held again, or retried after a crash.
THEOREM SlotsBoundBeforeSend == ASSUME Undisturbed PROVE Spec => []NoUnboundSend
<1>1. HeldInv => NoUnboundSend
  BY DEF HeldInv, HoldInv, SaneTurn, TurnBound, NoUnboundSend
<1> QED BY <1>1, HeldInvariance, PTL

\* endSessionRowInTxn leaves no row behind: where no verb's scopes are read in
\* between, a row is of a session that is still open and will sweep it.
THEOREM HoldsOnOpenSessions ==
    ASSUME Undisturbed, ScopedTools = {} PROVE Spec => []HoldOnOpenSession
<1>1. HeldInv => HoldOnOpenSession
  BY DEF HeldInv, HoldInv, Sane, RowsOnOpen, Present, HoldOnOpenSession, selectHeldCalls
<1> QED BY <1>1, HeldInvariance, PTL

\* commissionGoal's admission: every run it counts against the cap has a row a
\* user can answer, so a stranded run never uses up a slot (unless a kill lost
\* its audit transaction).
THEOREM CountedRunsHaveHolds ==
    ASSUME Undisturbed, "kill_audit" \notin Faults PROVE Spec => []CountedRunHasHold
<1>1. HeldInv => CountedRunHasHold
  <2> SUFFICES ASSUME HeldInv,
                      NEW r \in PendingRuns(ReconciledRuns(Reaped(db)))
               PROVE  selectHeldCallsForRun(ReconciledRuns(Reaped(db)), r) # {}
    BY DEF CountedRunHasHold
  <2> DEFINE d0 == Reaped(db)
             d == ReconciledRuns(d0)
  <2>1. Held(d0, turn, orphan) BY ReapNow
  <2> HIDE DEF d0
  <2>2. Held(d, turn, orphan) /\ \A q \in Runs : d.run[q].status # "running"
    BY <2>1, ReconciledSane
  <2>3. r \in PendingRuns(d) BY DEF d0
  <2> HIDE DEF d
  <2>4. r \in Runs /\ Waiting(d, r)
    BY <2>2, <2>3 DEF PendingRuns, Waiting, NonTerminal
  <2>5. RunsHaveRows(d) BY <2>2 DEF Held, Sane
  <2>6. PICK h \in Entries : Present(d, h) /\ d.hold[h].run = r
    BY <2>4, <2>5 DEF RunsHaveRows
  <2>7. h \in selectHeldCallsForRun(d, r)
    BY <2>6 DEF selectHeldCallsForRun, selectHeldCalls, Present
  <2> QED BY <2>7 DEF d, d0
<1> QED BY <1>1, HeldInvariance, PTL

\* What NoSilentDrop says of one step.
DropsAccounted ==
    \A e \in Entries :
         (Tracked(e) /\ ~Tracked(e)' /\ db'.obs[e] + db'.inf[e] = 0)
             => Dispatched(e) \/ KillSwitch(TRUE)

LEMMA DropStep == ASSUME HeldInv, Undisturbed, Next PROVE DropsAccounted
<1> SUFFICES ASSUME NEW e \in Entries, Tracked(e), ~Tracked(e)',
                    db'.obs[e] + db'.inf[e] = 0, ~Dispatched(e), ~KillSwitch(TRUE)
             PROVE  FALSE
  BY DEF DropsAccounted
<1>1. Lands(db) BY NextSane
<1>2. db \in Database BY HeldNow, HeldFacts
<1>3. PICK h \in Entries : db.hold[h].st # "absent" /\ db.hold[h].entry = e
  BY DEF Tracked, Dispatched, selectHeldCalls
<1>4. db.hold[h].st = "parked"
  <2>1. db.hold[h].st \notin {"dispatched", "answered"}
    BY <1>3 DEF Dispatched, selectHeldCalls, HasResolution
  <2>2. db.hold[h] \in Row BY <1>2, Fields
  <2> QED BY <1>3, <2>1, <2>2 DEF Row
<1>5. Tracks(e) BY <1>1, <1>3, <1>4 DEF Lands, KeepsParked
<1>6. ~hasCloser(db', e) BY DEF hasCloser
<1> QED BY <1>5, <1>6 DEF Tracks, Tracked, selectHeldCalls, InFlight

\* No step of the UserAgent forgets an open decision: a row that still waits
\* for its answer leaves with an outcome on its entry, or another row or the
\* turn in flight carries the entry on. Only a kill that lost its audit
\* transaction, or a call already dispatched, may leave one open.
THEOREM NothingDroppedSilently == ASSUME Undisturbed PROVE Spec => NoSilentDrop
<1>1. HeldInv /\ [Next]_vars => [DropsAccounted]_vars BY DropStep
<1> QED BY <1>1, HeldInvariance, PTL DEF Spec, NoSilentDrop, DropsAccounted

SeveredSilent == turn.severed /\ turn'.pc = "tool" => turn.pc = "tool"

LEMMA SeverKeepsPc ==
    ASSUME NEW t \in Turn, NEW d, NEW d2 PROVE Sever(t, d, d2).pc = t.pc
BY DEF Sever, Turn

LEMMA SeveredStep ==
    ASSUME HeldInv, Undisturbed, ScopedTools = {}, Next PROVE SeveredSilent
<1> SUFFICES ASSUME turn.severed, turn'.pc = "tool", turn.pc # "tool" PROVE FALSE
  BY DEF SeveredSilent
<1>0. turn \in Turn /\ SaneTurn(turn, db) BY HeldNow, HeldFacts DEF Held
<1>1. turn.pc # "idle" /\ turn.pc # "scopes" BY <1>0 DEF SaneTurn, Severed, TurnSession
<1>2. Idle.pc # "tool" BY DEF Idle
<1>3. \A d, d2 : turn' # Sever(turn, d, d2) BY <1>0, SeverKeepsPc
<1>4. ASSUME NEW tool \in Tools, LoopCallsTool(tool) PROVE FALSE
  BY <1>4, LoopCallsToolSane
<1>5. turn' # turn /\ turn' # Idle BY <1>2
<1>6. ~LoopFinishes /\ ~LoopThrows BY <1>5 DEF LoopFinishes, EndFinished, LoopThrows
<1>7. ~ScopesRead /\ ~ToolReturns BY <1>1 DEF ScopesRead, ToolReturns
<1>8. ~HeldCallReturns
  <2>1. turn' # Resumed(turn) BY <1>0, ResumedFields
  <2> QED BY <1>5, <2>1 DEF HeldCallReturns, Resume, EndFinished, Resumed
<1>9. ~HeldOutcomeWriteFails /\ ~Crash BY <1>5 DEF HeldOutcomeWriteFails, Crash
<1>10. ~ReadReaps /\ ~StartSession /\ ~EndSession
  BY <1>3 DEF ReadReaps, StartSession, EndSession
<1>11. \A r \in Runs : ~ReadCommissionRun(r) BY <1>3 DEF ReadCommissionRun
<1>12. ASSUME NEW lost \in BOOLEAN, KillSwitch(lost) PROVE FALSE
  <2>1. turn' = [turn EXCEPT !.severed = turn.pc # "idle"] BY <1>12 DEF KillSwitch
  <2> QED BY <1>0, <2>1 DEF Turn
<1>13. \A s \in Sessions : ~SessionAges(s) BY <1>5 DEF SessionAges
<1>14. ~Chat BY <1>1 DEF Chat
<1>15. \A r \in Runs, slot \in BOOLEAN : ~CommissionGoal(r, slot)
  BY <1>1 DEF CommissionGoal
<1>16. \A tool \in Tools : ~executeToolDirect(tool) BY <1>1 DEF executeToolDirect
<1>17. \A h \in Entries : ~ResolveAnswered(h) /\ ~ResolveDispatched(h) /\ ~ResolveDeny(h)
  BY <1>1 DEF ResolveAnswered, ResolveDispatched, ResolveDeny
<1>18. \A h \in Entries, b \in BOOLEAN : ~ResolveApprove(h, b) BY <1>1 DEF ResolveApprove
<1>19. \A r \in Runs, h \in Entries, b \in BOOLEAN : ~ProvideTaskInput(r, h, b)
  BY <1>1 DEF ProvideTaskInput
<1>20. \A r \in Runs : ~CancelTask(r) BY <1>1 DEF CancelTask
<1>21. \A r \in Runs, b \in BOOLEAN : ~AmendTask(r, b) BY <1>1 DEF AmendTask
<1> QED
  BY <1>4, <1>6, <1>7, <1>8, <1>9, <1>10, <1>11, <1>12, <1>13, <1>14, <1>15, <1>16,
     <1>17, <1>18, <1>19, <1>20, <1>21 DEF Next

\* Once its session ended or kill struck, a turn sends nothing more on a
\* standing grant: executeTool finds none of the session it then resolves.
\* A verb whose scopes are read first is the exception, hence the hypothesis.
THEOREM SeveredTurnsAsk ==
    ASSUME Undisturbed, ScopedTools = {} PROVE Spec => SeveredTurnSendsNothing
<1>1. HeldInv /\ [Next]_vars => [SeveredSilent]_vars BY SeveredStep
<1> QED BY <1>1, HeldInvariance, PTL DEF Spec, SeveredTurnSendsNothing, SeveredSilent
=============================================================================
