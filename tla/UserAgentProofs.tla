-------------------------- MODULE UserAgentProofs --------------------------
(***************************************************************************)
(* Proofs about UserAgent for every value of its constants, every set of   *)
(* faults included.                                                        *)
(*                                                                         *)
(* The argument is compositional. Good(d) is what every database value has *)
(* in common, and Frozen(d, d2) what an operator of the store may do to    *)
(* the runs. One lemma per operator shows that it takes a good database to *)
(* a good one through a Frozen step; an action is a composition of         *)
(* operators, and the two actions that are not (commissionGoal's insert,   *)
(* cancelTask's status) are treated by hand.                               *)
(***************************************************************************)
EXTENDS UserAgent, FiniteSetTheorems, TLAPS

RunRow == [status: RunStatus, sess: Sessions \cup {None}, slot: BOOLEAN]

\* A row that exists names a real tool and a real session, and not a
\* cancelled task.
RowsGood(d) ==
    \A h \in Entries : d.hold[h].st # "absent" =>
        /\ d.hold[h].tool \in Tools /\ d.hold[h].sess \in Sessions
        /\ d.hold[h].run # None => d.run[d.hold[h].run].status # "cancelled"

RunsGood(d) ==
    \A r \in Runs : d.run[r].status \in NonTerminal
                        => d.run[r].sess \in Sessions /\ d.sess[d.run[r].sess] = "open"

Good(d) == d \in Database /\ RowsGood(d) /\ RunsGood(d)

\* A run that is not pending keeps its status, and none becomes cancelled.
Frozen(d, d2) ==
    \A r \in Runs :
        /\ d.run[r].status \notin NonTerminal => d2.run[r].status = d.run[r].status
        /\ d2.run[r].status = "cancelled" => d.run[r].status = "cancelled"

GoodTurn(t, d) ==
    /\ t \in Turn
    /\ t.pc = "scopes" => t.tool \in Tools /\ t.sess \in Sessions
    /\ t.pc # "idle" /\ t.run # None => d.run[t.run].status # "cancelled"

-----------------------------------------------------------------------------
(* The fields of a database value, and how updates of one field act.       *)

LEMMA StatusFacts ==
    /\ NonTerminal \subseteq RunStatus /\ Terminal \subseteq RunStatus
    /\ NonTerminal \cap Terminal = {}
    /\ "unborn" \notin NonTerminal \cup Terminal
    /\ "cancelled" \in Terminal
BY DEF NonTerminal, Terminal, RunStatus

LEMMA Fields ==
    ASSUME NEW d \in Database
    PROVE  /\ d.sess \in [Sessions -> {"none", "open", "ended"}]
           /\ d.run \in [Runs -> RunRow]
           /\ d.hold \in [Entries -> Row]
           /\ d.obs \in [Entries -> Nat] /\ d.inf \in [Entries -> Nat]
           /\ d.opened \subseteq Entries /\ d.aged \subseteq Sessions
           /\ d.grants \subseteq Sessions \X Tools
BY DEF Database, RunRow

LEMMA FrozenTrans ==
    ASSUME NEW a, NEW b, NEW c, Frozen(a, b), Frozen(b, c)
    PROVE  Frozen(a, c)
BY DEF Frozen

\* A database that differs in neither sessions, runs nor rows is as good.
LEMMA GoodCopy ==
    ASSUME NEW d, Good(d), NEW d2 \in Database,
           d2.sess = d.sess, d2.run = d.run, d2.hold = d.hold
    PROVE  Good(d2) /\ Frozen(d, d2)
BY DEF Good, RowsGood, RunsGood, Frozen

-----------------------------------------------------------------------------
(* Audit closers and held rows.                                            *)

LEMMA CloseObservedFields ==
    ASSUME NEW d \in Database, NEW e
    PROVE  LET d2 == CloseObserved(d, e) IN
           /\ d2 \in Database
           /\ d2.obs = [d.obs EXCEPT ![e] = @ + 1]
           /\ d2.sess = d.sess /\ d2.run = d.run /\ d2.hold = d.hold
           /\ d2.aged = d.aged /\ d2.opened = d.opened /\ d2.grants = d.grants
           /\ d2.inf = d.inf
<1> DEFINE f == [d.obs EXCEPT ![e] = @ + 1]
<1>1. f \in [Entries -> Nat]
  <2>1. d.obs \in [Entries -> Nat] BY Fields
  <2>2. ASSUME NEW x \in Entries PROVE f[x] \in Nat BY <2>1
  <2>3. f = [x \in Entries |-> f[x]] BY <2>1
  <2> QED BY <2>2, <2>3
<1>2. CloseObserved(d, e) = [d EXCEPT !.obs = f] BY DEF CloseObserved
<1> HIDE DEF f
<1>3. /\ [d EXCEPT !.obs = f] \in Database
      /\ [d EXCEPT !.obs = f].obs = f
  BY <1>1 DEF Database
<1> QED BY <1>1, <1>2, <1>3 DEF f, Database

LEMMA CloseInferredFields ==
    ASSUME NEW d \in Database, NEW E
    PROVE  LET d2 == CloseInferred(d, E) IN
           /\ d2 \in Database
           /\ d2.inf = [e \in Entries |->
                 IF e \in E /\ ~hasCloser(d, e) THEN d.inf[e] + 1 ELSE d.inf[e]]
           /\ d2.sess = d.sess /\ d2.run = d.run /\ d2.hold = d.hold
           /\ d2.aged = d.aged /\ d2.opened = d.opened /\ d2.grants = d.grants
           /\ d2.obs = d.obs
<1> DEFINE f == [e \in Entries |->
                 IF e \in E /\ ~hasCloser(d, e) THEN d.inf[e] + 1 ELSE d.inf[e]]
<1>1. f \in [Entries -> Nat] BY Fields
<1> HIDE DEF f
<1>2. CloseInferred(d, E) = [d EXCEPT !.inf = f] BY DEF CloseInferred, f
<1>3. [d EXCEPT !.inf = f] \in Database BY <1>1 DEF Database
<1>4. [d EXCEPT !.inf = f].inf = f BY DEF Database
<1> QED BY <1>2, <1>3, <1>4 DEF f, Database

LEMMA NoRowType == NoRow \in Row
BY DEF NoRow, Row

LEMMA NoRowAbsent == NoRow.st = "absent"
BY DEF NoRow

LEMMA DeleteFields ==
    ASSUME NEW d \in Database, NEW H
    PROVE  LET d2 == deleteHeldToolCalls(d, H) IN
           /\ d2 \in Database
           /\ d2.hold = [h \in Entries |-> IF h \in H THEN NoRow ELSE d.hold[h]]
           /\ d2.sess = d.sess /\ d2.run = d.run
           /\ d2.aged = d.aged /\ d2.opened = d.opened /\ d2.grants = d.grants
           /\ d2.obs = d.obs /\ d2.inf = d.inf
<1> DEFINE f == [h \in Entries |-> IF h \in H THEN NoRow ELSE d.hold[h]]
<1>1. f \in [Entries -> Row] BY Fields, NoRowType
<1> HIDE DEF f
<1>2. deleteHeldToolCalls(d, H) = [d EXCEPT !.hold = f]
  BY DEF deleteHeldToolCalls, f
<1>3. [d EXCEPT !.hold = f] \in Database BY <1>1 DEF Database
<1>4. [d EXCEPT !.hold = f].hold = f BY DEF Database
<1> QED BY <1>2, <1>3, <1>4 DEF f, Database

\* Outside Entries, WithRow changes nothing, so no fact about h or row is needed
\* there.
LEMMA WithRowFields ==
    ASSUME NEW d \in Database, NEW h, NEW row, h \in Entries => row \in Row
    PROVE  LET d2 == WithRow(d, h, row) IN
           /\ d2 \in Database
           /\ d2.hold = [g \in Entries |-> IF g = h THEN row ELSE d.hold[g]]
           /\ d2.sess = d.sess /\ d2.run = d.run
           /\ d2.aged = d.aged /\ d2.opened = d.opened /\ d2.grants = d.grants
           /\ d2.obs = d.obs /\ d2.inf = d.inf
<1> DEFINE f == [g \in Entries |-> IF g = h THEN row ELSE d.hold[g]]
<1>1. f \in [Entries -> Row] BY Fields
<1>2. [d.hold EXCEPT ![h] = row] = f BY Fields
<1> HIDE DEF f
<1>3. WithRow(d, h, row) = [d EXCEPT !.hold = f] BY <1>2 DEF WithRow
<1>4. [d EXCEPT !.hold = f] \in Database BY <1>1 DEF Database
<1>5. [d EXCEPT !.hold = f].hold = f BY DEF Database
<1> QED BY <1>3, <1>4, <1>5 DEF f, Database

LEMMA SetTurnStateFields ==
    ASSUME NEW d \in Database, NEW h, NEW st \in {"parked", "dispatched", "answered"}
    PROVE  LET d2 == SetTurnState(d, h, st) IN
           /\ d2 \in Database
           /\ d2.hold = [g \in Entries |->
                 IF g = h /\ d.hold[h].st # "absent"
                 THEN [d.hold[h] EXCEPT !.st = st] ELSE d.hold[g]]
           /\ d2.sess = d.sess /\ d2.run = d.run
           /\ d2.aged = d.aged /\ d2.opened = d.opened /\ d2.grants = d.grants
           /\ d2.obs = d.obs /\ d2.inf = d.inf
<1> DEFINE row == [d.hold[h] EXCEPT !.st = st]
<1>1. h \in Entries => row \in Row
  <2>1. ASSUME NEW x \in Row PROVE [x EXCEPT !.st = st] \in Row BY DEF Row
  <2> QED BY <2>1, Fields
<1>2. CASE d.hold[h].st = "absent"
  <2>1. SetTurnState(d, h, st) = d BY <1>2 DEF SetTurnState
  <2>2. d.hold = [g \in Entries |-> d.hold[g]] BY Fields
  <2> QED BY <1>2, <2>1, <2>2
<1>3. CASE d.hold[h].st # "absent"
  <2> HIDE DEF row
  <2>1. SetTurnState(d, h, st) = WithRow(d, h, row) BY <1>3 DEF SetTurnState, row
  <2>2. QED BY <1>1, <1>3, <2>1, WithRowFields DEF row
<1> QED BY <1>2, <1>3

\* Any rewriting of the rows that only drops rows, or changes a row's state,
\* entry or flags, keeps a database good.
LEMMA GoodRows ==
    ASSUME NEW d, Good(d), NEW d2 \in Database,
           d2.sess = d.sess, d2.run = d.run,
           \A h \in Entries : d2.hold[h].st # "absent" =>
               /\ d.hold[h].st # "absent" /\ d2.hold[h].tool = d.hold[h].tool
               /\ d2.hold[h].sess = d.hold[h].sess /\ d2.hold[h].run = d.hold[h].run
    PROVE  Good(d2) /\ Frozen(d, d2)
BY DEF Good, RowsGood, RunsGood, Frozen

LEMMA CloseObservedGood ==
    ASSUME NEW d, Good(d), NEW e
    PROVE  Good(CloseObserved(d, e)) /\ Frozen(d, CloseObserved(d, e))
BY CloseObservedFields, GoodCopy DEF Good

LEMMA DeleteGood ==
    ASSUME NEW d, Good(d), NEW H
    PROVE  Good(deleteHeldToolCalls(d, H)) /\ Frozen(d, deleteHeldToolCalls(d, H))
<1> DEFINE d2 == deleteHeldToolCalls(d, H)
<1>0. /\ d2 \in Database /\ d2.sess = d.sess /\ d2.run = d.run
      /\ d2.hold = [h \in Entries |-> IF h \in H THEN NoRow ELSE d.hold[h]]
  <2>1. d \in Database BY DEF Good
  <2> QED BY <2>1, DeleteFields
<1> HIDE DEF d2
<1>1. \A h \in Entries : d2.hold[h].st # "absent" => d2.hold[h] = d.hold[h]
  BY <1>0, NoRowAbsent
<1>2. Good(d2) /\ Frozen(d, d2) BY <1>0, <1>1, GoodRows
<1> QED BY <1>2 DEF d2

LEMMA SetTurnStateGood ==
    ASSUME NEW d, Good(d), NEW h, NEW st \in {"parked", "dispatched", "answered"}
    PROVE  Good(SetTurnState(d, h, st)) /\ Frozen(d, SetTurnState(d, h, st))
<1> DEFINE d2 == SetTurnState(d, h, st)
<1>0. d \in Database BY DEF Good
<1>f. /\ d2 \in Database /\ d2.sess = d.sess /\ d2.run = d.run
      /\ d2.hold = [g \in Entries |->
                 IF g = h /\ d.hold[h].st # "absent"
                 THEN [d.hold[h] EXCEPT !.st = st] ELSE d.hold[g]]
  BY <1>0, SetTurnStateFields
<1> HIDE DEF d2
<1>1. \A g \in Entries : d2.hold[g].st # "absent" =>
          /\ d.hold[g].st # "absent" /\ d2.hold[g].tool = d.hold[g].tool
          /\ d2.hold[g].sess = d.hold[g].sess /\ d2.hold[g].run = d.hold[g].run
  <2> SUFFICES ASSUME NEW g \in Entries, d2.hold[g].st # "absent"
               PROVE  /\ d.hold[g].st # "absent" /\ d2.hold[g].tool = d.hold[g].tool
                      /\ d2.hold[g].sess = d.hold[g].sess /\ d2.hold[g].run = d.hold[g].run
    OBVIOUS
  <2>2. d.hold[g] \in Row BY <1>0, Fields
  <2>3. \/ d2.hold[g] = d.hold[g]
        \/ d.hold[g].st # "absent" /\ d2.hold[g] = [d.hold[g] EXCEPT !.st = st]
    BY <1>f
  <2> QED BY <2>2, <2>3 DEF Row
<1>2. Good(d2) /\ Frozen(d, d2) BY <1>1, <1>f, GoodRows
<1> QED BY <1>2 DEF d2

LEMMA SweepFields ==
    ASSUME NEW d \in Database, NEW H
    PROVE  LET d2 == SweepHolds(d, H)
               E == {d.hold[h].entry : h \in {g \in H : ~HasResolution(d, g)}}
           IN
           /\ d2 \in Database
           /\ d2.hold = [h \in Entries |-> IF h \in H THEN NoRow ELSE d.hold[h]]
           /\ d2.inf = [e \in Entries |->
                 IF e \in E /\ ~hasCloser(d, e) THEN d.inf[e] + 1 ELSE d.inf[e]]
           /\ d2.sess = d.sess /\ d2.run = d.run
           /\ d2.aged = d.aged /\ d2.opened = d.opened /\ d2.grants = d.grants
           /\ d2.obs = d.obs
<1> DEFINE E == {d.hold[h].entry : h \in {g \in H : ~HasResolution(d, g)}}
           c == CloseInferred(d, E)
<1> HIDE DEF E
<1>1. c \in Database /\ c.hold = d.hold BY CloseInferredFields
<1>2. SweepHolds(d, H) = deleteHeldToolCalls(c, H) BY DEF SweepHolds, E
<1>3. QED BY <1>1, <1>2, CloseInferredFields, DeleteFields DEF E

LEMMA SweepRows ==
    ASSUME NEW d \in Database, NEW H
    PROVE  SweepHolds(d, H).hold =
               [h \in Entries |-> IF h \in H THEN NoRow ELSE d.hold[h]]
<1>1. /\ SweepHolds(d, H) \in Database
      /\ SweepHolds(d, H).hold
            = [h \in Entries |-> IF h \in H THEN NoRow ELSE d.hold[h]]
  BY SweepFields, Zenon
<1> QED BY <1>1

LEMMA SweepGood ==
    ASSUME NEW d, Good(d), NEW H
    PROVE  Good(SweepHolds(d, H)) /\ Frozen(d, SweepHolds(d, H))
<1> DEFINE d2 == SweepHolds(d, H)
<1>0. /\ d2 \in Database /\ d2.sess = d.sess /\ d2.run = d.run
      /\ d2.hold = [h \in Entries |-> IF h \in H THEN NoRow ELSE d.hold[h]]
  <2>1. d \in Database BY DEF Good
  <2> QED BY <2>1, SweepFields
<1> HIDE DEF d2
<1>1. \A h \in Entries : d2.hold[h].st # "absent" => d2.hold[h] = d.hold[h]
  BY <1>0, NoRowAbsent
<1>2. Good(d2) /\ Frozen(d, d2) BY <1>0, <1>1, GoodRows
<1> QED BY <1>2 DEF d2

-----------------------------------------------------------------------------
(* Runs.                                                                   *)

LEMMA MoveRunsFields ==
    ASSUME NEW d \in Database, NEW R, NEW from, NEW to \in RunStatus
    PROVE  LET d2 == MoveRuns(d, R, from, to) IN
           /\ d2 \in Database
           /\ \A r \in Runs :
                 /\ d2.run[r].sess = d.run[r].sess /\ d2.run[r].slot = d.run[r].slot
                 /\ d2.run[r].status = IF r \in R /\ d.run[r].status \in from
                                       THEN to ELSE d.run[r].status
           /\ d2.sess = d.sess /\ d2.hold = d.hold
           /\ d2.aged = d.aged /\ d2.opened = d.opened /\ d2.grants = d.grants
           /\ d2.obs = d.obs /\ d2.inf = d.inf
<1> DEFINE f == [r \in Runs |-> IF r \in R /\ d.run[r].status \in from
                              THEN [d.run[r] EXCEPT !.status = to] ELSE d.run[r]]
<1>1. ASSUME NEW x \in RunRow
      PROVE  /\ [x EXCEPT !.status = to] \in RunRow
             /\ [x EXCEPT !.status = to].sess = x.sess
             /\ [x EXCEPT !.status = to].slot = x.slot
             /\ [x EXCEPT !.status = to].status = to
  BY DEF RunRow
<1>2. f \in [Runs -> RunRow] BY <1>1, Fields
<1>3. \A r \in Runs :
                 /\ f[r].sess = d.run[r].sess /\ f[r].slot = d.run[r].slot
                 /\ f[r].status = IF r \in R /\ d.run[r].status \in from
                                       THEN to ELSE d.run[r].status
  BY <1>1, Fields
<1> HIDE DEF f
<1>4. MoveRuns(d, R, from, to) = [d EXCEPT !.run = f] BY DEF MoveRuns, f
<1>5. [d EXCEPT !.run = f] \in Database BY <1>2 DEF Database, RunRow
<1>6. [d EXCEPT !.run = f].run = f BY DEF Database
<1> QED BY <1>3, <1>4, <1>5, <1>6 DEF Database

\* Any status change of pending runs, other than to "cancelled".
LEMMA GoodRuns ==
    ASSUME NEW d, Good(d), NEW d2 \in Database,
           d2.sess = d.sess, d2.hold = d.hold,
           \A r \in Runs :
               /\ d2.run[r].sess = d.run[r].sess
               /\ \/ d2.run[r].status = d.run[r].status
                  \/ d.run[r].status \in NonTerminal /\ d2.run[r].status # "cancelled"
    PROVE  Good(d2) /\ Frozen(d, d2)
<1>1. Frozen(d, d2) BY DEF Frozen
<1>2. RunsGood(d2) BY StatusFacts DEF RunsGood, Good
<1>3. RowsGood(d2)
  <2> SUFFICES ASSUME NEW h \in Entries, d2.hold[h].st # "absent", d2.hold[h].run # None
               PROVE  d2.run[d2.hold[h].run].status # "cancelled"
    BY DEF RowsGood, Good
  <2>1. d2.hold[h].run \in Runs BY Fields DEF Row
  <2>2. d.run[d2.hold[h].run].status # "cancelled" BY DEF RowsGood, Good
  <2> QED BY <2>1, <2>2
<1> QED BY <1>1, <1>2, <1>3 DEF Good

LEMMA MoveRunsGood ==
    ASSUME NEW d, Good(d), NEW R, NEW from, from \subseteq NonTerminal,
           NEW to \in RunStatus \ {"cancelled"}
    PROVE  Good(MoveRuns(d, R, from, to)) /\ Frozen(d, MoveRuns(d, R, from, to))
BY MoveRunsFields, GoodRuns DEF Good

LEMMA UpdateStatusGood ==
    ASSUME NEW d, Good(d), NEW r,
           NEW to \in {"awaiting_confirmation", "completed", "denied", "failed"}
    PROVE  /\ Good(updateCommissionStatus(d, r, to))
           /\ Frozen(d, updateCommissionStatus(d, r, to))
BY MoveRunsGood DEF updateCommissionStatus, NonTerminal, RunStatus, Terminal

LEMMA MarkNeedsInputGood ==
    ASSUME NEW d, Good(d), NEW r
    PROVE  Good(markNeedsInput(d, r)) /\ Frozen(d, markNeedsInput(d, r))
BY MoveRunsGood DEF markNeedsInput, NonTerminal, RunStatus, Terminal

LEMMA ClearNeedsInputGood ==
    ASSUME NEW d, Good(d), NEW r
    PROVE  Good(clearNeedsInput(d, r)) /\ Frozen(d, clearNeedsInput(d, r))
BY MoveRunsGood, StatusFacts DEF clearNeedsInput, NonTerminal

LEMMA ExpireRunsGood ==
    ASSUME NEW d, Good(d), NEW R
    PROVE  Good(expireRuns(d, R)) /\ Frozen(d, expireRuns(d, R))
BY MoveRunsGood DEF expireRuns, RunStatus, Terminal

LEMMA RepairRunsGood ==
    ASSUME NEW d, Good(d), NEW R
    PROVE  Good(RepairRuns(d, R)) /\ Frozen(d, RepairRuns(d, R))
<1> DEFINE to(r) == IF selectHeldCallsForRun(d, r) # {}
                    THEN "awaiting_confirmation" ELSE "failed"
           f == [r \in Runs |-> IF r \in R /\ d.run[r].status = "running"
                                THEN [d.run[r] EXCEPT !.status = to(r)] ELSE d.run[r]]
<1>0. d \in Database BY DEF Good
<1>1. ASSUME NEW x \in RunRow, NEW st \in {"awaiting_confirmation", "failed"}
      PROVE  /\ [x EXCEPT !.status = st] \in RunRow
             /\ [x EXCEPT !.status = st].sess = x.sess
             /\ [x EXCEPT !.status = st].status = st
  BY DEF RunRow, RunStatus, NonTerminal, Terminal
<1>2. \A r \in Runs : to(r) \in {"awaiting_confirmation", "failed"} OBVIOUS
<1>3. [d EXCEPT !.run = f] = RepairRuns(d, R) BY DEF RepairRuns
<1> HIDE DEF to
<1>4. f \in [Runs -> RunRow]
  <2>1. ASSUME NEW r \in Runs
        PROVE  (IF r \in R /\ d.run[r].status = "running"
                THEN [d.run[r] EXCEPT !.status = to(r)] ELSE d.run[r]) \in RunRow
    <3>1. d.run[r] \in RunRow BY <1>0, Fields
    <3>2. to(r) \in {"awaiting_confirmation", "failed"} BY <1>2
    <3>3. [d.run[r] EXCEPT !.status = to(r)] \in RunRow BY <1>1, <3>1, <3>2
    <3> QED BY <3>1, <3>3
  <2> QED BY <2>1
<1>5. \A r \in Runs :
               /\ f[r].sess = d.run[r].sess
               /\ \/ f[r].status = d.run[r].status
                  \/ d.run[r].status = "running" /\ f[r].status # "cancelled"
  BY <1>0, <1>1, <1>2, Fields
<1> HIDE DEF f
<1>6. LET d2 == RepairRuns(d, R)
      IN  d2 \in Database /\ d2.run = f /\ d2.sess = d.sess /\ d2.hold = d.hold
  <2>1. [d EXCEPT !.run = f] \in Database BY <1>0, <1>4 DEF Database, RunRow
  <2> QED BY <1>0, <1>3, <2>1 DEF Database
<1>7. "running" \in NonTerminal BY DEF NonTerminal
<1> QED BY <1>5, <1>6, <1>7, GoodRuns

LEMMA UpdateRunDataGood ==
    ASSUME NEW d, Good(d), NEW r \in Runs, NEW b \in BOOLEAN
    PROVE  LET d2 == updateRunData(d, r, b) IN
           /\ Good(d2) /\ Frozen(d, d2)
           /\ d2.hold = d.hold /\ d2.sess = d.sess /\ d2.aged = d.aged
           /\ d2.opened = d.opened /\ d2.obs = d.obs /\ d2.inf = d.inf
           /\ \A q \in Runs : d2.run[q].status = d.run[q].status
<1> DEFINE x == [d.run[r] EXCEPT !.slot = @ \/ b]
           f == [d.run EXCEPT ![r] = x]
<1>0. d \in Database BY DEF Good
<1>1. d.run[r] \in RunRow BY <1>0, Fields
<1>2. x \in RunRow /\ x.sess = d.run[r].sess /\ x.status = d.run[r].status
  BY <1>1 DEF RunRow
<1>3. updateRunData(d, r, b) = [d EXCEPT !.run = f] BY DEF updateRunData
<1> HIDE DEF x
<1>4. /\ f \in [Runs -> RunRow]
      /\ \A q \in Runs : f[q].sess = d.run[q].sess /\ f[q].status = d.run[q].status
  BY <1>0, <1>2, Fields
<1> HIDE DEF f
<1>5. [d EXCEPT !.run = f] \in Database BY <1>0, <1>4 DEF Database, RunRow
<1>6. LET d2 == updateRunData(d, r, b) IN
      /\ d2 \in Database /\ d2.run = f
      /\ d2.hold = d.hold /\ d2.sess = d.sess /\ d2.aged = d.aged
      /\ d2.opened = d.opened /\ d2.obs = d.obs /\ d2.inf = d.inf
  BY <1>0, <1>3, <1>5 DEF Database
<1> QED BY <1>4, <1>6, GoodRuns

-----------------------------------------------------------------------------
(* New and re-held rows.                                                   *)

LEMMA WithRowGood ==
    ASSUME NEW d, Good(d), NEW h \in Entries, NEW row \in Row,
           row.tool \in Tools, row.sess \in Sessions,
           row.run # None => d.run[row.run].status # "cancelled"
    PROVE  Good(WithRow(d, h, row)) /\ Frozen(d, WithRow(d, h, row))
<1> DEFINE d2 == WithRow(d, h, row)
<1>1. d \in Database BY DEF Good
<1>2. /\ d2 \in Database /\ d2.sess = d.sess /\ d2.run = d.run
      /\ d2.hold = [g \in Entries |-> IF g = h THEN row ELSE d.hold[g]]
  BY <1>1, WithRowFields
<1> HIDE DEF d2
<1>3. Good(d2) /\ Frozen(d, d2)
  BY <1>2 DEF Good, RowsGood, RunsGood, Frozen
<1> QED BY <1>3 DEF d2

LEMMA OpenedGood ==
    ASSUME NEW d, Good(d), NEW h \in Entries
    PROVE  LET d2 == [d EXCEPT !.opened = @ \cup {h}]
           IN  Good(d2) /\ Frozen(d, d2) /\ d2.hold = d.hold
<1> DEFINE d2 == [d EXCEPT !.opened = @ \cup {h}]
<1>1. d \in Database BY DEF Good
<1>2. /\ d2 \in Database /\ d2.sess = d.sess
      /\ d2.run = d.run /\ d2.hold = d.hold
  BY <1>1 DEF Database
<1> HIDE DEF d2
<1>3. Good(d2) /\ Frozen(d, d2) BY <1>2, GoodCopy
<1> QED BY <1>2, <1>3 DEF d2

LEMMA ParkGood ==
    ASSUME NEW d, Good(d), NEW h \in Entries, NEW row \in Row,
           row.tool \in Tools, row.sess \in Sessions,
           row.run # None => d.run[row.run].status # "cancelled"
    PROVE  Good(Park(d, h, row)) /\ Frozen(d, Park(d, h, row))
<1> DEFINE w == WithRow(d, h, row)
<1>1. Good(w) /\ Frozen(d, w) BY WithRowGood
<1> HIDE DEF w
<1>2. Park(d, h, row) = [w EXCEPT !.opened = @ \cup {h}] BY DEF Park, w
<1> QED BY <1>1, <1>2, OpenedGood, FrozenTrans

LEMMA ReholdGood ==
    ASSUME NEW d, Good(d), NEW h \in Entries, NEW e \in Entries,
           d.hold[h].st # "absent"
    PROVE  Good(reholdForSpend(d, h, e)) /\ Frozen(d, reholdForSpend(d, h, e))
<1> DEFINE c == CloseObserved(d, d.hold[h].entry)
           row == [d.hold[h] EXCEPT !.entry = e, !.spend = TRUE]
           w == WithRow(c, h, row)
<1>1. d \in Database BY DEF Good
<1>2. Good(c) /\ Frozen(d, c) BY CloseObservedGood
<1>3. c.run = d.run BY <1>1, CloseObservedFields
<1>4. d.hold[h] \in Row BY <1>1, Fields
<1>5. /\ row \in Row /\ row.tool = d.hold[h].tool
      /\ row.sess = d.hold[h].sess /\ row.run = d.hold[h].run
  BY <1>4 DEF Row
<1>6. /\ row.tool \in Tools /\ row.sess \in Sessions
      /\ row.run # None => c.run[row.run].status # "cancelled"
  BY <1>3, <1>5 DEF Good, RowsGood
<1> HIDE DEF c, row
<1>7. Good(w) /\ Frozen(c, w) BY <1>2, <1>5, <1>6, WithRowGood
<1> HIDE DEF w
<1>8. reholdForSpend(d, h, e) = [w EXCEPT !.opened = @ \cup {e}]
  BY DEF reholdForSpend, w, c, row
<1> QED BY <1>2, <1>7, <1>8, OpenedGood, FrozenTrans

-----------------------------------------------------------------------------
(* Sessions.                                                               *)

LEMMA EndSessionsGood ==
    ASSUME NEW d, Good(d), NEW S
    PROVE  LET d2 == EndSessions(d, S) IN
           /\ Good(d2) /\ Frozen(d, d2)
           /\ d2.sess = [s \in Sessions |-> IF s \in S THEN "ended" ELSE d.sess[s]]
<1> DEFINE swept == SweepHolds(d, {h \in selectHeldCalls(d) : d.hold[h].sess \in S})
           R == {r \in Runs : d.run[r].sess \in S}
           runs == expireRuns(swept, R)
           f == [s \in Sessions |-> IF s \in S THEN "ended" ELSE d.sess[s]]
           d2 == [runs EXCEPT !.sess = f]
<1>0. d \in Database BY DEF Good
<1>1. Good(swept) /\ Frozen(d, swept) BY SweepGood
<1>2. swept.sess = d.sess /\ swept.run = d.run BY <1>0, SweepFields
<1>3. f \in [Sessions -> {"none", "open", "ended"}] BY <1>0, Fields
<1>4. EndSessions(d, S) = d2 BY DEF EndSessions
<1> HIDE DEF swept
<1>5. Good(runs) /\ Frozen(swept, runs) BY <1>1, ExpireRunsGood
<1>6. /\ runs \in Database /\ runs.sess = d.sess
      /\ \A r \in Runs :
            /\ runs.run[r].sess = d.run[r].sess
            /\ runs.run[r].status = IF r \in R /\ swept.run[r].status \in NonTerminal
                                    THEN "expired" ELSE swept.run[r].status
  <2>1. swept \in Database BY <1>1 DEF Good
  <2>2. "expired" \in RunStatus BY DEF RunStatus, Terminal
  <2> QED BY <1>2, <2>1, <2>2, MoveRunsFields DEF expireRuns
<1>7. \A r \in R : runs.run[r].status \notin NonTerminal
  BY <1>6 DEF NonTerminal
<1> HIDE DEF runs, f
<1>8. /\ d2 \in Database /\ d2.sess = f
      /\ d2.run = runs.run /\ d2.hold = runs.hold
  BY <1>3, <1>6 DEF Database
<1>9. Frozen(runs, d2) /\ RowsGood(d2) BY <1>5, <1>8 DEF Frozen, Good, RowsGood
<1> HIDE DEF d2
<1>10. RunsGood(d2)
  <2> SUFFICES ASSUME NEW r \in Runs, d2.run[r].status \in NonTerminal
               PROVE  d2.run[r].sess \in Sessions /\ d2.sess[d2.run[r].sess] = "open"
    BY DEF RunsGood
  <2>1. runs.run[r].sess \in Sessions /\ runs.sess[runs.run[r].sess] = "open"
    BY <1>5, <1>8 DEF Good, RunsGood
  <2>2. runs.run[r].sess \notin S BY <1>6, <1>7, <1>8
  <2> QED BY <1>6, <1>8, <2>1, <2>2 DEF f
<1> QED BY <1>1, <1>4, <1>5, <1>8, <1>9, <1>10, FrozenTrans DEF Good, f

LEMMA ReapedGood ==
    ASSUME NEW d, Good(d)
    PROVE  Good(Reaped(d)) /\ Frozen(d, Reaped(d))
BY EndSessionsGood DEF Reaped

LEMMA ResolveSessionGood ==
    ASSUME NEW d, Good(d), NEW s \in ActiveCandidates(d)
    PROVE  LET d2 == resolveActiveSession(d, s) IN
           /\ Good(d2) /\ Frozen(d, d2)
           /\ s \in Sessions /\ d2.sess[s] = "open"
<1>0. d \in Database BY DEF Good
<1>s. s \in Sessions BY DEF ActiveCandidates, selectOpenSessions
<1>1. CASE s \in selectOpenSessions(d)
  <2> DEFINE S == selectOpenSessions(d) \ {s}
  <2>1. resolveActiveSession(d, s) = EndSessions(d, S)
    BY <1>1 DEF resolveActiveSession
  <2>2. d.sess[s] = "open" BY <1>1 DEF selectOpenSessions
  <2>3. s \notin S OBVIOUS
  <2> HIDE DEF S
  <2> DEFINE d2 == EndSessions(d, S)
  <2>4. /\ Good(d2) /\ Frozen(d, d2)
        /\ d2.sess = [u \in Sessions |-> IF u \in S THEN "ended" ELSE d.sess[u]]
    BY EndSessionsGood
  <2> HIDE DEF d2
  <2>5. d2.sess[s] = "open" BY <1>s, <2>2, <2>3, <2>4
  <2> QED BY <1>s, <2>1, <2>4, <2>5 DEF d2
<1>2. CASE s \notin selectOpenSessions(d)
  <2> DEFINE f == [d.sess EXCEPT ![s] = "open"]
             d2 == [d EXCEPT !.sess = f]
  <2>1. resolveActiveSession(d, s) = d2 BY <1>2 DEF resolveActiveSession, createSession
  <2>2. /\ f \in [Sessions -> {"none", "open", "ended"}] /\ f[s] = "open"
        /\ \A u \in Sessions : d.sess[u] = "open" => f[u] = "open"
    BY <1>0, <1>s, Fields
  <2> HIDE DEF f
  <2>3. d2 \in Database /\ d2.sess = f /\ d2.run = d.run /\ d2.hold = d.hold
    BY <1>0, <2>2 DEF Database
  <2> HIDE DEF d2
  <2>4. Good(d2) /\ Frozen(d, d2)
    BY <2>2, <2>3 DEF Good, RowsGood, RunsGood, Frozen
  <2> QED BY <1>s, <2>1, <2>2, <2>3, <2>4
<1> QED BY <1>1, <1>2

-----------------------------------------------------------------------------
(* The tails of a turn. Outcome(d) is what a step that starts from the     *)
(* database value d must establish.                                        *)

Outcome(d) ==
    /\ Good(db') /\ Frozen(d, db') /\ GoodTurn(turn', db')
    /\ orphan' \in Entries \cup {None}

LEMMA IdleGood == ASSUME NEW d PROVE GoodTurn(Idle, d)
BY DEF GoodTurn, Idle, Turn

LEMMA TurnFrozen ==
    ASSUME NEW t, NEW d, NEW d2, GoodTurn(t, d), Frozen(d, d2)
    PROVE  GoodTurn(t, d2)
<1>1. t.run \in Runs \cup {None} BY DEF GoodTurn, Turn
<1> QED BY <1>1 DEF GoodTurn, Frozen

LEMMA OutcomeFrozen ==
    ASSUME NEW CONSTANT a, NEW CONSTANT b, Frozen(a, b), Outcome(b) PROVE Outcome(a)
BY FrozenTrans DEF Outcome

LEMMA HeldDatabaseGood ==
    ASSUME NEW d, Good(d), NEW t, NEW h \in Entries
    PROVE  Good(HeldDatabase(d, t, h)) /\ Frozen(d, HeldDatabase(d, t, h))
<1> DEFINE row == [d.hold[h] EXCEPT !.direct = (t.op = "direct")]
           kept == WithRow(d, h, row)
           one == deleteHeldToolCalls(kept, {t.hold})
           two == CloseObserved(kept, t.entry)
           three == deleteHeldToolCalls(two, {t.hold})
           up(x) == updateCommissionStatus(x, t.run, "awaiting_confirmation")
<1>0. d \in Database BY DEF Good
<1>1. d.hold[h] \in Row BY <1>0, Fields
<1>2. /\ row \in Row /\ row.st = d.hold[h].st /\ row.tool = d.hold[h].tool
      /\ row.sess = d.hold[h].sess /\ row.run = d.hold[h].run
  BY <1>1 DEF Row
<1> HIDE DEF row
<1>3. Good(kept) /\ Frozen(d, kept)
  <2>1. /\ kept \in Database /\ kept.sess = d.sess /\ kept.run = d.run
        /\ kept.hold = [g \in Entries |-> IF g = h THEN row ELSE d.hold[g]]
    BY <1>0, <1>2, WithRowFields
  <2> HIDE DEF kept
  <2> QED BY <1>2, <2>1, GoodRows
<1> HIDE DEF kept
<1>4. Good(one) /\ Frozen(kept, one) BY <1>3, DeleteGood
<1>5. Good(two) /\ Frozen(kept, two) BY <1>3, CloseObservedGood
<1> HIDE DEF two
<1>6. Good(three) /\ Frozen(two, three) BY <1>5, DeleteGood
<1> HIDE DEF one, three
<1>7. /\ Good(up(kept)) /\ Frozen(kept, up(kept))
      /\ Good(up(one)) /\ Frozen(one, up(one))
      /\ Good(up(three)) /\ Frozen(three, up(three))
  BY <1>3, <1>4, <1>6, UpdateStatusGood
<1>8. \/ HeldDatabase(d, t, h) = kept \/ HeldDatabase(d, t, h) = up(kept)
      \/ HeldDatabase(d, t, h) = up(one) \/ HeldDatabase(d, t, h) = up(three)
  BY DEF HeldDatabase, kept, one, two, three, row
<1> HIDE DEF up
<1>9. Frozen(d, up(kept)) BY <1>3, <1>7, FrozenTrans
<1>10. Frozen(d, up(one)) BY <1>3, <1>4, <1>7, FrozenTrans
<1>11. Frozen(d, up(three)) BY <1>3, <1>5, <1>6, <1>7, FrozenTrans
<1> QED BY <1>3, <1>7, <1>8, <1>9, <1>10, <1>11

LEMMA EndHeldGood ==
    ASSUME NEW d, Good(d), NEW t, NEW h \in Entries,
           orphan \in Entries \cup {None}, EndHeld(d, t, h)
    PROVE  Outcome(d)
BY HeldDatabaseGood, IdleGood DEF EndHeld, Outcome

LEMMA FaultGood ==
    ASSUME NEW d, Good(d), FaultAfterClose(d)
    PROVE  Outcome(d)
<1>1. Frozen(d, d) BY DEF Frozen
<1> QED BY <1>1, IdleGood DEF FaultAfterClose, Outcome

LEMMA EndFinishedGood ==
    ASSUME NEW d, Good(d), NEW t, orphan \in Entries \cup {None}, EndFinished(d, t)
    PROVE  Outcome(d)
<1> DEFINE x == IF t.op = "resolve" THEN deleteHeldToolCalls(d, {t.hold}) ELSE d
<1>0. Frozen(d, d) BY DEF Frozen
<1>1. Good(x) /\ Frozen(d, x) BY <1>0, DeleteGood
<1> HIDE DEF x
<1>2. PICK status \in {"completed", "denied", "failed"} :
          /\ db' = IF t.op = "chat" THEN d ELSE updateCommissionStatus(x, t.run, status)
          /\ turn' = Idle
          /\ orphan' = IF t.run = None /\ ~t.direct THEN None ELSE orphan
  BY DEF EndFinished, x
<1>3. /\ Good(updateCommissionStatus(x, t.run, status))
      /\ Frozen(x, updateCommissionStatus(x, t.run, status))
  BY <1>1, UpdateStatusGood
<1>4. Frozen(d, updateCommissionStatus(x, t.run, status)) BY <1>1, <1>3, FrozenTrans
<1> QED BY <1>0, <1>2, <1>3, <1>4, IdleGood DEF Outcome

LEMMA ResumeGood ==
    ASSUME NEW d, Good(d), NEW t, t \in Turn,
           t.run # None => d.run[t.run].status # "cancelled",
           orphan \in Entries \cup {None}, Resume(d, t)
    PROVE  Outcome(d)
<1>1. CASE t.direct BY <1>1, EndFinishedGood DEF Resume
<1>2. CASE ~t.direct
  <2> DEFINE u == [t EXCEPT !.pc = "llm", !.op = "resolve", !.tool = None,
                            !.sess = None, !.entry = None]
  <2>1. u \in Turn /\ u.run = t.run /\ u.pc = "llm" BY DEF Turn
  <2>2. GoodTurn(u, d) BY <2>1 DEF GoodTurn
  <2>3. Frozen(d, d) BY DEF Frozen
  <2> QED BY <1>2, <2>2, <2>3 DEF Resume, Outcome
<1> QED BY <1>1, <1>2

LEMMA ToolAnsweredGood ==
    ASSUME NEW d, Good(d), NEW t, t \in Turn,
           t.run # None => d.run[t.run].status # "cancelled",
           orphan \in Entries \cup {None}, ToolAnswered(d, t)
    PROVE  Outcome(d)
<1> DEFINE c == CloseObserved(d, t.entry)
           a == SetTurnState(c, t.hold, "answered")
           u == [t EXCEPT !.pc = "llm", !.tool = None, !.sess = None]
<1>1. Good(c) /\ Frozen(d, c) BY CloseObservedGood
<1>2. c.run = d.run BY CloseObservedFields DEF Good
<1>3. Good(a) /\ Frozen(c, a) BY <1>1, SetTurnStateGood
<1>4. a.run = d.run BY <1>1, <1>2, SetTurnStateFields DEF Good
<1>5. Frozen(d, d) BY DEF Frozen
<1>6. GoodTurn(u, d)
  <2>1. u \in Turn /\ u.run = t.run /\ u.pc = "llm" BY DEF Turn
  <2> QED BY <2>1 DEF GoodTurn
<1>7. CASE t.op = "provide"
  <2>1. Resume(a, t) \/ FaultAfterClose(c) BY <1>7 DEF ToolAnswered
  <2> HIDE DEF a, c
  <2>2. CASE Resume(a, t)
    <3>1. Outcome(a) BY <1>3, <1>4, <2>2, ResumeGood
    <3> QED BY <1>1, <1>3, <3>1, OutcomeFrozen, FrozenTrans
  <2>3. CASE FaultAfterClose(c) BY <1>1, <2>3, FaultGood, OutcomeFrozen
  <2> QED BY <2>1, <2>2, <2>3
<1>8. CASE t.op = "direct"
  <2>1. db' = d /\ turn' = Idle /\ UNCHANGED orphan BY <1>8 DEF ToolAnswered
  <2> QED BY <1>5, <2>1, IdleGood DEF Outcome
<1>9. CASE t.op \notin {"provide", "direct"}
  <2>1. db' = d /\ turn' = u /\ UNCHANGED orphan BY <1>9 DEF ToolAnswered
  <2> HIDE DEF u
  <2> QED BY <1>5, <1>6, <2>1 DEF Outcome
<1> QED BY <1>7, <1>8, <1>9

-----------------------------------------------------------------------------
(* executeTool.                                                            *)

LEMMA NewRowGood ==
    ASSUME NEW t, t \in Turn, t.tool \in Tools, t.sess \in Sessions, NEW h \in Entries,
           NEW kind \in {"confirmation", "input"}, NEW spend \in BOOLEAN
    PROVE  LET row == NewRow(t, h, kind, spend) IN
           /\ row \in Row /\ row.tool \in Tools /\ row.sess \in Sessions
           /\ row.run = t.run
BY DEF NewRow, Row, Turn

LEMMA DecideGood ==
    ASSUME NEW d, Good(d), NEW t, t \in Turn, t.tool \in Tools, t.sess \in Sessions,
           t.run # None => d.run[t.run].status # "cancelled",
           orphan \in Entries \cup {None}, ran \in [Entries -> Nat], Decide(d, t)
    PROVE  Outcome(d) /\ ran' \in [Entries -> Nat]
<1>1. ASSUME NEW h \in Entries \ d.opened,
             EndHeld(Park(d, h, NewRow(t, h, "confirmation", Granted(d, t))), t, h),
             UNCHANGED ran
      PROVE  Outcome(d) /\ ran' \in [Entries -> Nat]
  <2> DEFINE row == NewRow(t, h, "confirmation", Granted(d, t))
             d2 == Park(d, h, row)
  <2>1. Granted(d, t) \in BOOLEAN BY DEF Granted
  <2>2. /\ row \in Row /\ row.tool \in Tools /\ row.sess \in Sessions
        /\ row.run = t.run
    BY <2>1, NewRowGood
  <2> HIDE DEF row
  <2>3. Good(d2) /\ Frozen(d, d2) BY <2>2, ParkGood
  <2>4. EndHeld(d2, t, h) BY <1>1 DEF row
  <2> HIDE DEF d2
  <2>5. Outcome(d2) BY <2>3, <2>4, EndHeldGood
  <2> QED BY <1>1, <2>3, <2>5, OutcomeFrozen
<1>2. ASSUME db' = d, turn' = [t EXCEPT !.pc = "tool"], UNCHANGED orphan,
             ran' = IF t.op = "provide" THEN [ran EXCEPT ![t.hold] = @ + 1] ELSE ran
      PROVE  Outcome(d) /\ ran' \in [Entries -> Nat]
  <2> DEFINE u == [t EXCEPT !.pc = "tool"]
  <2>1. u \in Turn /\ u.run = t.run /\ u.pc = "tool" BY DEF Turn
  <2>2. GoodTurn(u, d) BY <2>1 DEF GoodTurn
  <2>3. Frozen(d, d) BY DEF Frozen
  <2>4. Outcome(d) BY <1>2, <2>2, <2>3 DEF Outcome
  <2>5. [ran EXCEPT ![t.hold] = @ + 1] \in [Entries -> Nat]
    <3> DEFINE f == [ran EXCEPT ![t.hold] = @ + 1]
    <3>1. ASSUME NEW x \in Entries PROVE f[x] \in Nat OBVIOUS
    <3>2. f = [x \in Entries |-> f[x]] OBVIOUS
    <3> QED BY <3>1, <3>2
  <2> QED BY <1>2, <2>4, <2>5
<1> QED BY <1>1, <1>2 DEF Decide

LEMMA SeverType ==
    ASSUME NEW t, t \in Turn, NEW d, NEW d2
    PROVE  LET u == Sever(t, d, d2) IN
           u \in Turn /\ u.pc = t.pc /\ u.run = t.run /\ u.tool = t.tool /\ u.sess = t.sess
<1> DEFINE b == t.severed \/ (t.pc # "idle" /\ d2.sess # d.sess)
<1>1. b \in BOOLEAN OBVIOUS
<1>2. Sever(t, d, d2) = [t EXCEPT !.severed = b] BY DEF Sever
<1> HIDE DEF b
<1> QED BY <1>1, <1>2 DEF Turn

LEMMA SeverGood ==
    ASSUME NEW t, NEW d, NEW d0, NEW d1, GoodTurn(t, d)
    PROVE  GoodTurn(Sever(t, d0, d1), d)
BY SeverType DEF GoodTurn

LEMMA ExecuteToolGood ==
    ASSUME NEW d0, Good(d0), NEW t0, t0 \in Turn,
           t0.run # None => d0.run[t0.run].status # "cancelled",
           NEW tool \in Tools,
           orphan \in Entries \cup {None}, ran \in [Entries -> Nat],
           ExecuteTool(d0, t0, tool)
    PROVE  Outcome(d0) /\ ran' \in [Entries -> Nat]
<1> DEFINE d1 == Reaped(d0)
<1>1. Good(d1) /\ Frozen(d0, d1) BY ReapedGood
<1> DEFINE D(s) == resolveActiveSession(d1, s)
           T(s) == [Sever(t0, d0, d1) EXCEPT !.tool = tool, !.sess = s]
<1>2. PICK s \in ActiveCandidates(d1) :
          \/ /\ missingRequiredSlots(D(s), T(s))
             /\ \E h \in Entries \ D(s).opened :
                   EndHeld(markNeedsInput(Park(D(s), h, NewRow(T(s), h, "input", FALSE)),
                                          T(s).run), T(s), h)
             /\ UNCHANGED ran
          \/ ToolAnswered(D(s), T(s)) /\ UNCHANGED ran
          \/ /\ db' = D(s) /\ turn' = [T(s) EXCEPT !.pc = "scopes"]
             /\ UNCHANGED <<orphan, ran>>
          \/ Decide(D(s), T(s))
  BY DEF ExecuteTool
<1> DEFINE d == D(s)
           t == T(s)
<1> HIDE DEF d1
<1>3. Good(d) /\ Frozen(d1, d) /\ s \in Sessions BY <1>1, ResolveSessionGood
<1>4. /\ t \in Turn /\ t.tool = tool /\ t.sess = s /\ t.run = t0.run
  <2> DEFINE u == Sever(t0, d0, d1)
  <2>1. u \in Turn /\ u.run = t0.run BY SeverType
  <2> HIDE DEF u
  <2>2. /\ [u EXCEPT !.tool = tool, !.sess = s] \in Turn
        /\ [u EXCEPT !.tool = tool, !.sess = s].tool = tool
        /\ [u EXCEPT !.tool = tool, !.sess = s].sess = s
        /\ [u EXCEPT !.tool = tool, !.sess = s].run = t0.run
    BY <1>3, <2>1 DEF Turn
  <2> QED BY <2>2 DEF u
<1>5. Frozen(d0, d) BY <1>1, <1>3, FrozenTrans
<1> HIDE DEF D, T
<1>6. t.run # None => d.run[t.run].status # "cancelled"
  <2>1. t.run \in Runs \cup {None} BY <1>4 DEF Turn
  <2> QED BY <1>4, <1>5, <2>1 DEF Frozen
<1>7. SUFFICES Outcome(d) /\ ran' \in [Entries -> Nat] BY <1>5, OutcomeFrozen
<1>8. ASSUME NEW h \in Entries,
             EndHeld(markNeedsInput(Park(d, h, NewRow(t, h, "input", FALSE)), t.run), t, h)
      PROVE  Outcome(d)
  <2> DEFINE row == NewRow(t, h, "input", FALSE)
             p == Park(d, h, row)
             m == markNeedsInput(p, t.run)
  <2>1. /\ row \in Row /\ row.tool \in Tools /\ row.sess \in Sessions
        /\ row.run = t.run
    BY <1>3, <1>4, NewRowGood
  <2> HIDE DEF row
  <2>2. Good(p) /\ Frozen(d, p) BY <1>3, <1>6, <2>1, ParkGood
  <2> HIDE DEF p
  <2>3. Good(m) /\ Frozen(p, m) BY <2>2, MarkNeedsInputGood
  <2>4. EndHeld(m, t, h) BY <1>8 DEF m, p, row
  <2> HIDE DEF m
  <2>5. Outcome(m) BY <2>3, <2>4, EndHeldGood
  <2>6. Frozen(d, m) BY <2>2, <2>3, FrozenTrans
  <2> QED BY <2>5, <2>6, OutcomeFrozen
<1>9. ASSUME ToolAnswered(d, t) PROVE Outcome(d)
  BY <1>3, <1>4, <1>6, <1>9, ToolAnsweredGood
<1>10. ASSUME db' = d, turn' = [t EXCEPT !.pc = "scopes"], UNCHANGED orphan
       PROVE  Outcome(d)
  <2> DEFINE u == [t EXCEPT !.pc = "scopes"]
  <2>1. u \in Turn /\ u.tool = tool /\ u.sess = s /\ u.run = t.run BY <1>4 DEF Turn
  <2> HIDE DEF t
  <2>2. GoodTurn(u, d) BY <1>3, <1>6, <2>1 DEF GoodTurn
  <2>3. Frozen(d, d) BY DEF Frozen
  <2> QED BY <1>3, <1>10, <2>2, <2>3 DEF Outcome
<1>11. ASSUME Decide(d, t) PROVE Outcome(d) /\ ran' \in [Entries -> Nat]
  BY <1>3, <1>4, <1>6, <1>11, DecideGood
<1> QED BY <1>2, <1>8, <1>9, <1>10, <1>11

-----------------------------------------------------------------------------
(* The inductive invariant, and the steps that are compositions of the     *)
(* operators above.                                                        *)

\* What holds between steps, the queue bound left out.
CoreInv ==
    /\ Good(db) /\ GoodTurn(turn, db)
    /\ orphan \in Entries \cup {None}
    /\ ran \in [Entries -> Nat]

\* The same of the state a step leads to, with what it did to the runs.
StepOK == Outcome(db) /\ ran' \in [Entries -> Nat]

LEMMA LoopTurnGood ==
    ASSUME NEW op \in {"chat", "commission", "resolve", "provide", "direct"},
           NEW r \in Runs \cup {None}
    PROVE  LET t == LoopTurn(op, r) IN t \in Turn /\ t.run = r /\ t.pc = "llm"
BY DEF LoopTurn, Idle, Turn

LEMMA HealGood ==
    ASSUME NEW d, Good(d)
    PROVE  Good(healCrashedDispatchHolds(d)) /\ Frozen(d, healCrashedDispatchHolds(d))
<1> DEFINE H == {h \in UnresolvedHuman(d) : d.hold[h].st = "dispatched"}
           E == {d.hold[h].entry : h \in H}
           x == deleteHeldToolCalls(d, H)
           f == [e \in Entries |-> IF e \in E THEN d.obs[e] + 1 ELSE d.obs[e]]
           d2 == [x EXCEPT !.obs = f]
<1>0. d \in Database BY DEF Good
<1>1. f \in [Entries -> Nat] BY <1>0, Fields
<1>2. healCrashedDispatchHolds(d) = d2 BY DEF healCrashedDispatchHolds
<1>3. Good(x) /\ Frozen(d, x) BY DeleteGood
<1> HIDE DEF f, x
<1>4. /\ d2 \in Database /\ d2.sess = x.sess
      /\ d2.run = x.run /\ d2.hold = x.hold
  <2>1. x \in Database BY <1>3 DEF Good
  <2> QED BY <1>1, <2>1 DEF Database
<1> HIDE DEF d2
<1>5. Good(d2) /\ Frozen(x, d2) BY <1>3, <1>4, GoodCopy
<1> QED BY <1>2, <1>3, <1>5, FrozenTrans

LEMMA RepairOrphanGood ==
    ASSUME NEW d, Good(d)
    PROVE  Good(repairOrphanedToolUse(d)) /\ Frozen(d, repairOrphanedToolUse(d))
<1>1. Frozen(d, d) BY DEF Frozen
<1> QED BY <1>1, DeleteGood DEF repairOrphanedToolUse

LEMMA ChatGood == ASSUME CoreInv, Chat PROVE StepOK
<1> DEFINE d0 == Reaped(db)
           d1 == healCrashedDispatchHolds(d0)
           d2 == repairOrphanedToolUse(d1)
<1>1. Good(d0) /\ Frozen(db, d0) BY ReapedGood DEF CoreInv
<1>2. Good(d1) /\ Frozen(d0, d1) BY <1>1, HealGood
<1>3. Good(d2) /\ Frozen(d1, d2) BY <1>2, RepairOrphanGood
<1>4. Frozen(db, d1) /\ Frozen(db, d2) BY <1>1, <1>2, <1>3, FrozenTrans
<1>5. \/ db' = d1 /\ UNCHANGED <<turn, orphan>>
      \/ /\ \E s \in ActiveCandidates(d2) : db' = resolveActiveSession(d2, s)
         /\ turn' = LoopTurn("chat", None)
         /\ orphan' = None
  BY DEF Chat
<1>6. ran' \in [Entries -> Nat] BY DEF Chat, CoreInv
<1> HIDE DEF d1, d2
<1>7. CASE db' = d1 /\ UNCHANGED <<turn, orphan>>
  <2>1. GoodTurn(turn, d1) BY <1>4, TurnFrozen DEF CoreInv
  <2> QED BY <1>2, <1>4, <1>6, <1>7, <2>1 DEF StepOK, Outcome, CoreInv
<1>8. CASE /\ \E s \in ActiveCandidates(d2) : db' = resolveActiveSession(d2, s)
           /\ turn' = LoopTurn("chat", None)
           /\ orphan' = None
  <2>1. PICK s \in ActiveCandidates(d2) : db' = resolveActiveSession(d2, s) BY <1>8
  <2>2. Good(db') /\ Frozen(d2, db') BY <1>3, <2>1, ResolveSessionGood
  <2>3. Frozen(db, db') BY <1>4, <2>2, FrozenTrans
  <2>4. GoodTurn(LoopTurn("chat", None), db') BY LoopTurnGood DEF GoodTurn
  <2> QED BY <1>6, <1>8, <2>2, <2>3, <2>4 DEF StepOK, Outcome
<1> QED BY <1>5, <1>7, <1>8

LEMMA DirectGood ==
    ASSUME CoreInv, NEW tool \in Tools, executeToolDirect(tool) PROVE StepOK
<1> DEFINE t == LoopTurn("direct", None)
<1>1. t \in Turn /\ t.run = None BY LoopTurnGood
<1>2. ExecuteTool(db, t, tool) BY DEF executeToolDirect
<1> HIDE DEF t
<1> QED BY <1>1, <1>2, ExecuteToolGood DEF StepOK, CoreInv

LEMMA LoopCallsToolGood ==
    ASSUME CoreInv, NEW tool \in Tools, LoopCallsTool(tool) PROVE StepOK
<1> DEFINE t == [turn EXCEPT !.calls = @ + 1]
<1>1. t \in Turn /\ t.run = turn.run BY DEF CoreInv, GoodTurn, Turn
<1>2. ExecuteTool(db, t, tool) /\ turn.pc = "llm" BY DEF LoopCallsTool
<1> HIDE DEF t
<1>3. t.run # None => db.run[t.run].status # "cancelled"
  BY <1>1, <1>2 DEF CoreInv, GoodTurn
<1> QED BY <1>1, <1>2, <1>3, ExecuteToolGood DEF StepOK, CoreInv

LEMMA LoopFinishesGood == ASSUME CoreInv, LoopFinishes PROVE StepOK
BY EndFinishedGood DEF LoopFinishes, StepOK, CoreInv

LEMMA LoopThrowsGood == ASSUME CoreInv, LoopThrows PROVE StepOK
<1> DEFINE d == updateCommissionStatus(db, turn.run, "failed")
<1>1. Good(d) /\ Frozen(db, d) BY UpdateStatusGood DEF CoreInv
<1>2. Frozen(db, db) BY DEF Frozen
<1>3. Good(db') /\ Frozen(db, db') /\ turn' = Idle
  BY <1>1, <1>2 DEF LoopThrows, CoreInv
<1> QED BY <1>3, IdleGood DEF LoopThrows, StepOK, Outcome, CoreInv

LEMMA ScopesReadGood == ASSUME CoreInv, ScopesRead PROVE StepOK
<1>1. /\ turn \in Turn /\ turn.tool \in Tools /\ turn.sess \in Sessions
      /\ turn.run # None => db.run[turn.run].status # "cancelled"
  BY DEF ScopesRead, CoreInv, GoodTurn
<1>2. CASE ToolAnswered(db, turn) /\ UNCHANGED ran
  BY <1>1, <1>2, ToolAnsweredGood DEF StepOK, CoreInv
<1>3. CASE Decide(db, turn) BY <1>1, <1>3, DecideGood DEF StepOK, CoreInv
<1> QED BY <1>2, <1>3 DEF ScopesRead

LEMMA ToolReturnsGood == ASSUME CoreInv, ToolReturns PROVE StepOK
<1>1. /\ turn \in Turn
      /\ turn.run # None => db.run[turn.run].status # "cancelled"
  BY DEF ToolReturns, CoreInv, GoodTurn
<1> QED BY <1>1, ToolAnsweredGood DEF ToolReturns, StepOK, CoreInv

LEMMA ResolveTurnGood ==
    ASSUME CoreInv, NEW h \in Entries, db.hold[h].st # "absent"
    PROVE  LET t == ResolveTurn(h) IN
           /\ t \in Turn
           /\ t.run # None => db.run[t.run].status # "cancelled"
<1>1. db.hold[h] \in Row BY Fields DEF CoreInv, Good
<1>2. db.hold[h].run \in Runs \cup {None} BY <1>1 DEF Row
<1> DEFINE u == LoopTurn("resolve", db.hold[h].run)
<1>3. u \in Turn /\ u.run = db.hold[h].run BY <1>2, LoopTurnGood
<1> HIDE DEF u
<1> DEFINE t == [u EXCEPT !.hold = h, !.entry = db.hold[h].entry,
                          !.direct = db.hold[h].direct, !.tool = db.hold[h].tool]
<1>4. t \in Turn /\ t.run = db.hold[h].run BY <1>1, <1>3 DEF Turn, Row
<1>5. ResolveTurn(h) = t BY DEF ResolveTurn, u
<1> QED BY <1>4, <1>5 DEF CoreInv, Good, RowsGood

\* A resolve step that closes entry e, records the answer and resumes.
LEMMA AnswerGood ==
    ASSUME CoreInv, NEW h, NEW e, NEW t, t \in Turn,
           t.run # None => db.run[t.run].status # "cancelled",
           Resume(SetTurnState(CloseObserved(db, e), h, "answered"), t)
    PROVE  Outcome(db)
<1> DEFINE c == CloseObserved(db, e)
           a == SetTurnState(c, h, "answered")
<1>1. Good(c) /\ Frozen(db, c) /\ c.run = db.run
  BY CloseObservedGood, CloseObservedFields DEF CoreInv, Good
<1> HIDE DEF c
<1>2. Good(a) /\ Frozen(c, a) /\ a.run = c.run
  BY <1>1, SetTurnStateGood, SetTurnStateFields DEF Good
<1>3. Resume(a, t) BY DEF c
<1> HIDE DEF a
<1>4. Outcome(a) BY <1>1, <1>2, <1>3, ResumeGood DEF CoreInv
<1> QED BY <1>1, <1>2, <1>4, OutcomeFrozen, FrozenTrans

LEMMA ResolveAnsweredGood ==
    ASSUME CoreInv, NEW h \in Entries, ResolveAnswered(h) PROVE StepOK
<1>1. db.hold[h].st # "absent" BY DEF ResolveAnswered, Loadable
<1> QED BY <1>1, ResolveTurnGood, ResumeGood DEF ResolveAnswered, StepOK, CoreInv

LEMMA ResolveDispatchedGood ==
    ASSUME CoreInv, NEW h \in Entries, ResolveDispatched(h) PROVE StepOK
<1>1. db.hold[h].st # "absent" BY DEF ResolveDispatched, Loadable
<1> DEFINE t == ResolveTurn(h)
<1>2. t \in Turn /\ (t.run # None => db.run[t.run].status # "cancelled")
  BY <1>1, ResolveTurnGood
<1>3. Resume(SetTurnState(CloseObserved(db, db.hold[h].entry), h, "answered"), t)
  BY DEF ResolveDispatched
<1> HIDE DEF t
<1> QED BY <1>2, <1>3, AnswerGood DEF ResolveDispatched, StepOK, CoreInv

LEMMA ResolveDenyGood ==
    ASSUME CoreInv, NEW h \in Entries, ResolveDeny(h) PROVE StepOK
<1>1. db.hold[h].st # "absent" BY DEF ResolveDeny, Answerable, Loadable
<1> DEFINE t == ResolveTurn(h)
           c == CloseObserved(db, db.hold[h].entry)
<1>2. t \in Turn /\ (t.run # None => db.run[t.run].status # "cancelled")
  BY <1>1, ResolveTurnGood
<1>3. \/ Resume(SetTurnState(c, h, "answered"), t)
      \/ FaultAfterClose(c)
  BY DEF ResolveDeny
<1>4. Good(c) /\ Frozen(db, c) BY CloseObservedGood DEF CoreInv
<1>5. CASE FaultAfterClose(c)
  <2> HIDE DEF c
  <2>1. Outcome(db) BY <1>4, <1>5, FaultGood, OutcomeFrozen
  <2> QED BY <2>1 DEF ResolveDeny, StepOK, CoreInv
<1>6. CASE Resume(SetTurnState(c, h, "answered"), t)
  <2> HIDE DEF t
  <2>1. Outcome(db) BY <1>2, <1>6, AnswerGood
  <2> QED BY <2>1 DEF ResolveDeny, StepOK, CoreInv
<1> QED BY <1>3, <1>5, <1>6

LEMMA HeldCallReturnsGood == ASSUME CoreInv, HeldCallReturns PROVE StepOK
<1>1. turn \in Turn /\ (turn.run # None => db.run[turn.run].status # "cancelled")
  BY DEF HeldCallReturns, CoreInv, GoodTurn
<1>2. Outcome(db) BY <1>1, AnswerGood DEF HeldCallReturns
<1> QED BY <1>2 DEF HeldCallReturns, StepOK, CoreInv

LEMMA IdleStepGood ==
    ASSUME CoreInv, db' = db, turn' = Idle, orphan' \in Entries \cup {None}, ran' = ran
    PROVE  StepOK
<1>1. Frozen(db, db) BY DEF Frozen
<1> QED BY <1>1, IdleGood DEF StepOK, Outcome, CoreInv

LEMMA ResolveApproveGood ==
    ASSUME CoreInv, NEW h \in Entries, NEW session \in BOOLEAN, ResolveApprove(h, session)
    PROVE  StepOK
<1>0. db \in Database /\ db.hold[h].st # "absent"
  BY DEF ResolveApprove, Answerable, Loadable, CoreInv, Good
<1> DEFINE row == db.hold[h]
           d == IF session THEN [db EXCEPT !.grants = @ \cup {<<row.sess, row.tool>>}]
                ELSE db
<1>1. row.sess \in Sessions /\ row.tool \in Tools BY <1>0 DEF CoreInv, Good, RowsGood
<1>2. /\ d \in Database /\ d.sess = db.sess
      /\ d.run = db.run /\ d.hold = db.hold
  <2>1. [db EXCEPT !.grants = @ \cup {<<row.sess, row.tool>>}] \in Database
    BY <1>0, <1>1 DEF Database
  <2> QED BY <1>0, <2>1 DEF Database
<1> HIDE DEF d
<1>3. Good(d) /\ Frozen(db, d) BY <1>2, GoodCopy DEF CoreInv
<1>4. \/ /\ \E e \in Entries \ db.opened :
               db' = updateCommissionStatus(reholdForSpend(d, h, e), row.run,
                                            "awaiting_confirmation")
         /\ UNCHANGED <<turn, ran>>
      \/ /\ db' = SetTurnState(d, h, "dispatched")
         /\ turn' = [ResolveTurn(h) EXCEPT !.pc = "hold"]
         /\ ran' = [ran EXCEPT ![h] = @ + 1]
  BY DEF ResolveApprove, d
<1>5. orphan' \in Entries \cup {None} BY DEF ResolveApprove, CoreInv
<1>6. CASE /\ \E e \in Entries \ db.opened :
               db' = updateCommissionStatus(reholdForSpend(d, h, e), row.run,
                                            "awaiting_confirmation")
           /\ UNCHANGED <<turn, ran>>
  <2>1. PICK e \in Entries : db' = updateCommissionStatus(reholdForSpend(d, h, e), row.run,
                                            "awaiting_confirmation")
    BY <1>6
  <2> DEFINE x == reholdForSpend(d, h, e)
  <2>2. Good(x) /\ Frozen(d, x) BY <1>0, <1>2, <1>3, ReholdGood
  <2> HIDE DEF x
  <2>3. Good(db') /\ Frozen(x, db') BY <2>1, <2>2, UpdateStatusGood DEF x
  <2>4. Frozen(db, db') BY <1>3, <2>2, <2>3, FrozenTrans
  <2>5. GoodTurn(turn, db') BY <2>4, TurnFrozen DEF CoreInv
  <2> QED BY <1>5, <1>6, <2>3, <2>4, <2>5 DEF StepOK, Outcome, CoreInv
<1>7. CASE /\ db' = SetTurnState(d, h, "dispatched")
           /\ turn' = [ResolveTurn(h) EXCEPT !.pc = "hold"]
           /\ ran' = [ran EXCEPT ![h] = @ + 1]
  <2>1. Good(db') /\ Frozen(d, db') BY <1>3, <1>7, SetTurnStateGood
  <2>2. Frozen(db, db') BY <1>3, <2>1, FrozenTrans
  <2> DEFINE t == ResolveTurn(h)
  <2>3. t \in Turn /\ (t.run # None => db.run[t.run].status # "cancelled")
    BY <1>0, ResolveTurnGood
  <2> HIDE DEF t
  <2>4. turn' \in Turn /\ turn'.run = t.run /\ turn'.pc = "hold"
    BY <1>7, <2>3 DEF t, Turn
  <2>5. GoodTurn(turn', db) BY <2>3, <2>4 DEF GoodTurn
  <2>6. GoodTurn(turn', db') BY <2>2, <2>5, TurnFrozen
  <2>7. ran' \in [Entries -> Nat] BY <1>7 DEF CoreInv
  <2> QED BY <1>5, <2>1, <2>2, <2>6, <2>7 DEF StepOK, Outcome
<1> QED BY <1>4, <1>6, <1>7

LEMMA ProvideGood ==
    ASSUME CoreInv, NEW r \in Runs, NEW h \in Entries, NEW b \in BOOLEAN,
           ProvideTaskInput(r, h, b)
    PROVE  StepOK
<1> DEFINE d == Reaped(db)
           x == updateRunData(d, r, b)
           y == clearNeedsInput(x, r)
           z == SetTurnState(y, h, "dispatched")
           u == LoopTurn("provide", r)
           t == [u EXCEPT !.hold = h, !.entry = d.hold[h].entry, !.direct = d.hold[h].direct]
<1>1. Good(d) /\ Frozen(db, d) BY ReapedGood DEF CoreInv
<1>2. /\ d.run[r].status = "needs_input" /\ d.hold[h].st # "absent"
      /\ ExecuteTool(z, t, d.hold[h].tool)
  BY DEF ProvideTaskInput, selectInputHoldForTask, selectHeldCallsForRun, selectHeldCalls
<1> HIDE DEF d
<1>3. Good(x) /\ Frozen(d, x) /\ \A q \in Runs : x.run[q].status = d.run[q].status
  BY <1>1, UpdateRunDataGood
<1> HIDE DEF x
<1>4. Good(y) /\ Frozen(x, y) BY <1>3, ClearNeedsInputGood
<1> HIDE DEF y
<1>5. Good(z) /\ Frozen(y, z) BY <1>4, SetTurnStateGood
<1> HIDE DEF z
<1>6. Frozen(d, z) BY <1>3, <1>4, <1>5, FrozenTrans
<1>7. z.run[r].status # "cancelled" BY <1>2, <1>6 DEF Frozen
<1>8. d.hold[h] \in Row BY <1>1, Fields DEF Good
<1>9. u \in Turn /\ u.run = r BY LoopTurnGood
<1> HIDE DEF u
<1>10. t \in Turn /\ t.run = r BY <1>8, <1>9 DEF Turn, Row
<1> HIDE DEF t
<1>11. d.hold[h].tool \in Tools BY <1>1, <1>2 DEF Good, RowsGood
<1>12. Outcome(z) /\ ran' \in [Entries -> Nat]
  BY <1>2, <1>5, <1>7, <1>10, <1>11, ExecuteToolGood DEF CoreInv
<1>13. Frozen(db, z) BY <1>1, <1>6, FrozenTrans
<1> QED BY <1>12, <1>13, OutcomeFrozen DEF StepOK

\* Handlers that leave the turn, the buffer and the history alone.
LEMMA QuietGood ==
    ASSUME CoreInv, Good(db'), Frozen(db, db'),
           \/ turn' = turn
           \/ \E d0, d1 : turn' = Sever(turn, d0, d1),
           UNCHANGED <<orphan, ran>>
    PROVE  StepOK
<1>1. GoodTurn(turn, db') BY TurnFrozen DEF CoreInv
<1>2. GoodTurn(turn', db') BY <1>1, SeverGood
<1> QED BY <1>2 DEF StepOK, Outcome, CoreInv

LEMMA AmendTaskGood ==
    ASSUME CoreInv, NEW r \in Runs, NEW b \in BOOLEAN, AmendTask(r, b) PROVE StepOK
<1> DEFINE d == Reaped(db)
<1>1. Good(d) /\ Frozen(db, d) BY ReapedGood DEF CoreInv
<1>2. db' = updateRunData(d, r, b) /\ UNCHANGED <<turn, orphan, ran>> BY DEF AmendTask
<1> HIDE DEF d
<1>3. Good(db') /\ Frozen(d, db') BY <1>1, <1>2, UpdateRunDataGood
<1> QED BY <1>1, <1>2, <1>3, FrozenTrans, QuietGood

LEMMA ReadCommissionRunGood ==
    ASSUME CoreInv, NEW r \in Runs, ReadCommissionRun(r) PROVE StepOK
<1> DEFINE d1 == Reaped(db)
           d2 == IF turn.pc = "idle" THEN RepairRuns(d1, {r}) ELSE d1
<1>1. Good(d1) /\ Frozen(db, d1) BY ReapedGood DEF CoreInv
<1>2. /\ db' = d2 \/ db' = expireRuns(d2, {r})
      /\ turn' = Sever(turn, db, d1) /\ UNCHANGED <<orphan, ran>>
  BY DEF ReadCommissionRun
<1> HIDE DEF d1
<1>3. Frozen(d1, d1) BY DEF Frozen
<1>4. Good(d2) /\ Frozen(d1, d2) BY <1>1, <1>3, RepairRunsGood
<1> HIDE DEF d2
<1>5. Good(expireRuns(d2, {r})) /\ Frozen(d2, expireRuns(d2, {r}))
  BY <1>4, ExpireRunsGood
<1>6. Frozen(db, d2) BY <1>1, <1>4, FrozenTrans
<1>7. Frozen(db, expireRuns(d2, {r})) BY <1>5, <1>6, FrozenTrans
<1> QED BY <1>2, <1>4, <1>5, <1>6, <1>7, QuietGood

LEMMA ReadReapsGood == ASSUME CoreInv, ReadReaps PROVE StepOK
<1>1. Good(db') /\ Frozen(db, db') BY ReapedGood DEF CoreInv, ReadReaps
<1> QED BY <1>1, QuietGood DEF ReadReaps

LEMMA StartSessionGood == ASSUME CoreInv, StartSession PROVE StepOK
<1> DEFINE d == Reaped(db)
<1>1. Good(d) /\ Frozen(db, d) BY ReapedGood DEF CoreInv
<1>2. /\ db' = d \/ \E s \in ActiveCandidates(d) : db' = resolveActiveSession(d, s)
      /\ turn' = Sever(turn, db, d) /\ UNCHANGED <<orphan, ran>>
  BY DEF StartSession
<1> HIDE DEF d
<1>3. Frozen(d, d) BY DEF Frozen
<1>4. Good(db') /\ Frozen(d, db') BY <1>1, <1>2, <1>3, ResolveSessionGood
<1>5. Frozen(db, db') BY <1>1, <1>4, FrozenTrans
<1> QED BY <1>2, <1>4, <1>5, QuietGood

LEMMA EndSessionGood == ASSUME CoreInv, EndSession PROVE StepOK
<1> DEFINE d == Reaped(db)
           S == selectOpenSessions(d) \cap ActiveCandidates(d)
           d2 == EndSessions(d, S)
<1>1. Good(d) /\ Frozen(db, d) BY ReapedGood DEF CoreInv
<1>2. db' = d2 /\ turn' = Sever(turn, db, d2) /\ UNCHANGED <<orphan, ran>>
  BY DEF EndSession
<1> HIDE DEF d, S
<1>3. Good(d2) /\ Frozen(d, d2) BY <1>1, EndSessionsGood
<1> HIDE DEF d2
<1>4. Frozen(db, d2) BY <1>1, <1>3, FrozenTrans
<1> QED BY <1>2, <1>3, <1>4, QuietGood

LEMMA NoGrantsGood ==
    ASSUME NEW d, Good(d)
    PROVE  LET d2 == [d EXCEPT !.grants = {}] IN Good(d2) /\ Frozen(d, d2)
<1> DEFINE d2 == [d EXCEPT !.grants = {}]
<1>1. d \in Database BY DEF Good
<1>2. /\ d2 \in Database /\ d2.sess = d.sess
      /\ d2.run = d.run /\ d2.hold = d.hold
  BY <1>1 DEF Database
<1> HIDE DEF d2
<1>3. Good(d2) /\ Frozen(d, d2) BY <1>2, GoodCopy
<1> QED BY <1>3 DEF d2

LEMMA KillSwitchGood ==
    ASSUME CoreInv, NEW lost \in BOOLEAN, KillSwitch(lost) PROVE StepOK
<1> DEFINE H == selectHeldCalls(db)
           a == deleteHeldToolCalls(db, H)
           b == SweepHolds(db, H)
           c == EndSessions(b, selectOpenSessions(db))
<1>1. Good(a) /\ Frozen(db, a) BY DeleteGood DEF CoreInv
<1>2. Good(b) /\ Frozen(db, b) BY SweepGood DEF CoreInv
<1>3. /\ db' = [a EXCEPT !.grants = {}] \/ db' = [c EXCEPT !.grants = {}]
      /\ turn' = [turn EXCEPT !.severed = turn.pc # "idle"]
      /\ UNCHANGED <<orphan, ran>>
  BY DEF KillSwitch
<1> HIDE DEF a, b
<1>4. Good(c) /\ Frozen(b, c) BY <1>2, EndSessionsGood
<1> HIDE DEF c
<1>5. Frozen(db, c) BY <1>2, <1>4, FrozenTrans
<1>6. Good(db') /\ Frozen(db, db') BY <1>1, <1>3, <1>4, <1>5, NoGrantsGood, FrozenTrans
<1>7. GoodTurn(turn, db') BY <1>6, TurnFrozen DEF CoreInv
<1>8. GoodTurn(turn', db')
  <2>1. turn \in Turn BY DEF CoreInv, GoodTurn
  <2>2. (turn.pc # "idle") \in BOOLEAN OBVIOUS
  <2>3. /\ turn' \in Turn /\ turn'.pc = turn.pc /\ turn'.run = turn.run
        /\ turn'.tool = turn.tool /\ turn'.sess = turn.sess
    BY <1>3, <2>1, <2>2 DEF Turn
  <2> QED BY <1>7, <2>3 DEF GoodTurn
<1> QED BY <1>3, <1>6, <1>8 DEF StepOK, Outcome, CoreInv

LEMMA SessionAgesGood ==
    ASSUME CoreInv, NEW s \in Sessions, SessionAges(s) PROVE StepOK
<1> DEFINE A == {u \in Sessions : u <= s}
           d2 == [db EXCEPT !.aged = @ \cup A]
<1>1. db \in Database BY DEF CoreInv, Good
<1>2. A \subseteq Sessions OBVIOUS
<1>3. db' = d2 /\ UNCHANGED <<turn, orphan, ran>> BY DEF SessionAges
<1> HIDE DEF A
<1>4. /\ d2 \in Database /\ d2.sess = db.sess
      /\ d2.run = db.run /\ d2.hold = db.hold
  BY <1>1, <1>2 DEF Database
<1> HIDE DEF d2
<1>5. Good(d2) /\ Frozen(db, d2) BY <1>4, GoodCopy DEF CoreInv
<1> QED BY <1>3, <1>5, QuietGood

-----------------------------------------------------------------------------
(* The two steps that move a run outside Frozen.                           *)

\* cancelTask: nothing of the run is left to approve or to run.
LEMMA CancelTaskGood ==
    ASSUME CoreInv, NEW r \in Runs, CancelTask(r)
    PROVE  /\ CoreInv'
           /\ \A q \in Runs : db.run[q].status \notin NonTerminal =>
                                 db'.run[q].status = db.run[q].status
<1> DEFINE d == Reaped(db)
           H == selectHeldCallsForRun(d, r)
           w == SweepHolds(d, H)
<1>1. Good(d) /\ Frozen(db, d) BY ReapedGood DEF CoreInv
<1>2. /\ turn.pc = "idle" /\ d.run[r].status \in {"awaiting_confirmation", "needs_input"}
      /\ db' = cancelRun(w, r) /\ UNCHANGED <<turn, orphan, ran>>
  BY DEF CancelTask
<1> HIDE DEF d
<1>3. Good(w) /\ Frozen(d, w) BY <1>1, SweepGood
<1>4. \A h \in Entries : w.hold[h].st # "absent" => w.hold[h].run # r
  <2>1. d \in Database BY <1>1 DEF Good
  <2>2. w.hold = [h \in Entries |-> IF h \in H THEN NoRow ELSE d.hold[h]]
    BY <2>1, SweepRows
  <2> HIDE DEF w
  <2> QED BY <2>2, NoRowAbsent DEF selectHeldCallsForRun, selectHeldCalls
<1> HIDE DEF w
<1>5. /\ db' \in Database /\ db'.sess = w.sess /\ db'.hold = w.hold
      /\ \A q \in Runs :
            /\ db'.run[q].sess = w.run[q].sess
            /\ db'.run[q].status =
                  IF q \in {r} /\ w.run[q].status \in {"awaiting_confirmation", "needs_input"}
                  THEN "cancelled" ELSE w.run[q].status
  <2>1. w \in Database BY <1>3 DEF Good
  <2>2. "cancelled" \in RunStatus BY DEF RunStatus, Terminal
  <2> QED BY <1>2, <2>1, <2>2, MoveRunsFields DEF cancelRun
<1>6. RunsGood(db') BY <1>3, <1>5, StatusFacts DEF Good, RunsGood
<1>7. RowsGood(db')
  <2> SUFFICES ASSUME NEW h \in Entries, db'.hold[h].st # "absent"
               PROVE  /\ db'.hold[h].tool \in Tools /\ db'.hold[h].sess \in Sessions
                      /\ db'.hold[h].run # None =>
                             db'.run[db'.hold[h].run].status # "cancelled"
    BY DEF RowsGood
  <2>1. db'.hold[h].run # r BY <1>4, <1>5
  <2>2. db'.hold[h].run \in Runs \cup {None} BY <1>5, Fields DEF Row
  <2> QED BY <1>3, <1>5, <2>1, <2>2 DEF Good, RowsGood
<1>8. GoodTurn(turn', db') BY <1>2 DEF CoreInv, GoodTurn
<1>9. ASSUME NEW q \in Runs, db.run[q].status \notin NonTerminal
      PROVE  db'.run[q].status = db.run[q].status
  <2>1. w.run[q].status = db.run[q].status
    BY <1>1, <1>3, <1>9 DEF Frozen
  <2> QED BY <1>5, <1>9, <2>1 DEF NonTerminal
<1> QED BY <1>2, <1>5, <1>6, <1>7, <1>8, <1>9 DEF CoreInv, Good

Bounded == IsFiniteSet(PendingRuns(db)) /\ PendingBounded

\* commissionGoal: one run is added, and only below the cap.
LEMMA CommissionGoalGood ==
    ASSUME CoreInv, Bounded, NEW r \in Runs, NEW slot \in BOOLEAN, CommissionGoal(r, slot)
    PROVE  /\ CoreInv' /\ Bounded'
           /\ \A q \in Runs : db.run[q].status \in Terminal =>
                                 db'.run[q].status = db.run[q].status
<1> DEFINE d0 == Reaped(db)
           d1 == RepairRuns(d0, Runs)
           X == {q \in Runs : d0.run[q].status # "running" /\ d0.run[q].sess # None
                              /\ d0.sess[d0.run[q].sess] = "ended"}
           d == expireRuns(d1, X)
<1>1. Good(d0) /\ Frozen(db, d0) BY ReapedGood DEF CoreInv
<1>2. /\ db.run[r].status = "unborn"
      /\ \/ AtCap(d) /\ db' = d /\ UNCHANGED turn
         \/ /\ ~AtCap(d)
            /\ \E s \in ActiveCandidates(d) :
                  db' = insertCommissionRun(resolveActiveSession(d, s), r, s, slot)
            /\ turn' = LoopTurn("commission", r)
      /\ UNCHANGED <<orphan, ran>>
  BY DEF CommissionGoal, ReconciledRuns
<1> HIDE DEF d0
<1>3. Good(d1) /\ Frozen(d0, d1) BY <1>1, RepairRunsGood
<1> HIDE DEF d1, X
<1>4. Good(d) /\ Frozen(d1, d) BY <1>3, ExpireRunsGood
<1> HIDE DEF d
<1>5. Frozen(db, d) BY <1>1, <1>3, <1>4, FrozenTrans
<1>6. PendingRuns(d) \subseteq PendingRuns(db) BY <1>5 DEF Frozen, PendingRuns
<1>7. /\ IsFiniteSet(PendingRuns(d)) /\ Cardinality(PendingRuns(d)) \in Nat
      /\ Cardinality(PendingRuns(d)) <= Cardinality(PendingRuns(db))
      /\ Cardinality(PendingRuns(db)) \in Nat
  BY <1>6, FS_Subset, FS_CardinalityType DEF Bounded
<1>8. CASE AtCap(d) /\ db' = d /\ UNCHANGED turn
  <2>1. GoodTurn(turn', db') BY <1>5, <1>8, TurnFrozen DEF CoreInv
  <2>2. Bounded'
    BY <1>7, <1>8, BoundsAssumption DEF Bounded, PendingBounded, PendingRuns
  <2>3. \A q \in Runs : db.run[q].status \in Terminal =>
                                 db'.run[q].status = db.run[q].status
    BY <1>5, <1>8, StatusFacts DEF Frozen
  <2> QED BY <1>2, <1>4, <1>8, <2>1, <2>2, <2>3 DEF CoreInv
<1>9. CASE /\ ~AtCap(d)
           /\ \E s \in ActiveCandidates(d) :
                 db' = insertCommissionRun(resolveActiveSession(d, s), r, s, slot)
           /\ turn' = LoopTurn("commission", r)
  <2>1. PICK s \in ActiveCandidates(d) :
            db' = insertCommissionRun(resolveActiveSession(d, s), r, s, slot)
    BY <1>9
  <2> DEFINE e == resolveActiveSession(d, s)
             row == [status |-> "running", sess |-> s, slot |-> slot]
             f == [e.run EXCEPT ![r] = row]
  <2>2. Good(e) /\ Frozen(d, e) /\ s \in Sessions /\ e.sess[s] = "open"
    BY <1>4, ResolveSessionGood
  <2>3. db' = [e EXCEPT !.run = f] BY <2>1 DEF insertCommissionRun
  <2> HIDE DEF e
  <2>4. e \in Database BY <2>2 DEF Good
  <2>5. row \in RunRow /\ row.status = "running" /\ row.sess = s
    BY <2>2 DEF RunRow, RunStatus, NonTerminal
  <2> HIDE DEF row
  <2>6. f \in [Runs -> RunRow] /\ f[r] = row /\ \A q \in Runs \ {r} : f[q] = e.run[q]
    BY <2>4, <2>5, Fields
  <2> HIDE DEF f
  <2>7. /\ db' \in Database /\ db'.run = f /\ db'.sess = e.sess /\ db'.hold = e.hold
    <3>1. [e EXCEPT !.run = f] \in Database BY <2>4, <2>6 DEF Database, RunRow
    <3> QED BY <2>3, <2>4, <3>1 DEF Database
  <2>8. Good(db')
    <3>1. RunsGood(db') BY <2>2, <2>5, <2>6, <2>7 DEF Good, RunsGood
    <3>2. RowsGood(db')
      <4> SUFFICES ASSUME NEW h \in Entries, db'.hold[h].st # "absent"
                   PROVE  /\ db'.hold[h].tool \in Tools /\ db'.hold[h].sess \in Sessions
                          /\ db'.hold[h].run # None =>
                                 db'.run[db'.hold[h].run].status # "cancelled"
        BY DEF RowsGood
      <4>1. db'.hold[h].run \in Runs \cup {None} BY <2>7, Fields DEF Row
      <4> QED BY <2>2, <2>5, <2>6, <2>7, <4>1 DEF Good, RowsGood
    <3> QED BY <2>7, <3>1, <3>2 DEF Good
  <2>9. GoodTurn(turn', db')
    <3>1. turn' \in Turn /\ turn'.run = r /\ turn'.pc = "llm" BY <1>9, LoopTurnGood
    <3> QED BY <2>5, <2>6, <2>7, <3>1 DEF GoodTurn
  <2>10. Frozen(db, e) BY <1>5, <2>2, FrozenTrans
  <2>11. \A q \in Runs : db.run[q].status \in Terminal =>
                            db'.run[q].status = db.run[q].status
    BY <1>2, <2>6, <2>7, <2>10, StatusFacts DEF Frozen
  <2>12. Bounded'
    <3>1. PendingRuns(db') \subseteq PendingRuns(d) \cup {r}
      BY <2>2, <2>6, <2>7 DEF Frozen, PendingRuns
    <3>2. Cardinality(PendingRuns(d)) < MaxPending
      BY <1>7, <1>9, BoundsAssumption DEF AtCap
    <3> DEFINE P == PendingRuns(d) \cup {r}
    <3>3. /\ IsFiniteSet(P) /\ Cardinality(P) \in Nat
          /\ Cardinality(P) <= Cardinality(PendingRuns(d)) + 1
      <4>1. /\ IsFiniteSet(P)
            /\ \/ Cardinality(P) = Cardinality(PendingRuns(d))
               \/ Cardinality(P) = Cardinality(PendingRuns(d)) + 1
        BY <1>7, FS_AddElement
      <4> QED BY <1>7, <4>1
    <3>4. /\ IsFiniteSet(PendingRuns(db')) /\ Cardinality(PendingRuns(db')) \in Nat
          /\ Cardinality(PendingRuns(db')) <= Cardinality(P)
      <4> HIDE DEF P
      <4>1. PendingRuns(db') \subseteq P BY <3>1 DEF P
      <4> QED BY <3>3, <4>1, FS_Subset, FS_CardinalityType
    <3>5. Cardinality(PendingRuns(db')) <= MaxPending
      BY <1>7, <3>2, <3>3, <3>4, BoundsAssumption
    <3> QED BY <3>4, <3>5 DEF Bounded, PendingBounded, PendingRuns
  <2> QED BY <1>2, <2>8, <2>9, <2>11, <2>12 DEF CoreInv
<1> QED BY <1>2, <1>8, <1>9

-----------------------------------------------------------------------------
(* The theorems.                                                           *)

IInv == CoreInv /\ Bounded

TerminalKept ==
    \A r \in Runs : db.run[r].status \in Terminal => db'.run[r].status = db.run[r].status

LEMMA BoundedKept ==
    ASSUME CoreInv, Bounded,
           \A r \in Runs : db.run[r].status \notin NonTerminal =>
                               db'.run[r].status = db.run[r].status
    PROVE  Bounded' /\ TerminalKept
<1>1. PendingRuns(db') \subseteq PendingRuns(db) BY DEF PendingRuns
<1>2. /\ IsFiniteSet(PendingRuns(db')) /\ Cardinality(PendingRuns(db')) \in Nat
      /\ Cardinality(PendingRuns(db')) <= Cardinality(PendingRuns(db))
      /\ Cardinality(PendingRuns(db)) \in Nat
  BY <1>1, FS_Subset, FS_CardinalityType DEF Bounded
<1>3. Cardinality(PendingRuns(db')) <= MaxPending
  BY <1>2, BoundsAssumption DEF Bounded, PendingBounded
<1>4. TerminalKept BY StatusFacts DEF TerminalKept
<1> QED BY <1>2, <1>3, <1>4 DEF Bounded, PendingBounded, PendingRuns

LEMMA StepOKKeeps == ASSUME IInv, StepOK PROVE IInv' /\ TerminalKept
<1>1. CoreInv' BY DEF StepOK, Outcome, CoreInv
<1>2. Frozen(db, db') BY DEF StepOK, Outcome
<1>3. \A r \in Runs : db.run[r].status \notin NonTerminal =>
                          db'.run[r].status = db.run[r].status
  BY <1>2 DEF Frozen
<1>4. Bounded' /\ TerminalKept BY <1>3, BoundedKept DEF IInv
<1> QED BY <1>1, <1>4 DEF IInv

LEMMA InitIInv == Init => IInv
<1> SUFFICES ASSUME Init PROVE IInv OBVIOUS
<1>1. EmptyDatabase \in Database
  <2>1. [r \in Runs |-> [status |-> "unborn", sess |-> None, slot |-> FALSE]]
            \in [Runs -> RunRow]
    BY DEF RunRow, RunStatus
  <2>2. [h \in Entries |-> NoRow] \in [Entries -> Row] BY NoRowType
  <2> QED BY <2>1, <2>2 DEF EmptyDatabase, Database, RunRow
<1>2. Good(db)
  <2>1. \A r \in Runs : db.run[r].status = "unborn" BY DEF Init, EmptyDatabase
  <2>2. \A h \in Entries : db.hold[h].st = "absent"
    BY NoRowAbsent DEF Init, EmptyDatabase
  <2> QED BY <1>1, <2>1, <2>2, StatusFacts DEF Init, Good, RowsGood, RunsGood
<1>3. PendingRuns(db) = {}
  BY StatusFacts DEF PendingRuns, Init, EmptyDatabase
<1>4. Bounded BY <1>3, FS_EmptySet, BoundsAssumption DEF Bounded, PendingBounded
<1> QED BY <1>2, <1>4, IdleGood DEF Init, IInv, CoreInv

LEMMA NextIInv == ASSUME IInv, Next PROVE IInv' /\ TerminalKept
<1>0. CoreInv /\ Bounded BY DEF IInv
<1>1. CASE Chat BY <1>0, <1>1, ChatGood, StepOKKeeps
<1>2. ASSUME NEW r \in Runs, NEW slot \in BOOLEAN, CommissionGoal(r, slot)
      PROVE  IInv' /\ TerminalKept
  BY <1>0, <1>2, CommissionGoalGood DEF IInv, TerminalKept
<1>3. ASSUME NEW tool \in Tools, executeToolDirect(tool) PROVE IInv' /\ TerminalKept
  BY <1>0, <1>3, DirectGood, StepOKKeeps
<1>4. ASSUME NEW tool \in Tools, LoopCallsTool(tool) PROVE IInv' /\ TerminalKept
  BY <1>0, <1>4, LoopCallsToolGood, StepOKKeeps
<1>5. CASE LoopFinishes BY <1>0, <1>5, LoopFinishesGood, StepOKKeeps
<1>6. CASE LoopThrows BY <1>0, <1>6, LoopThrowsGood, StepOKKeeps
<1>7. CASE ScopesRead BY <1>0, <1>7, ScopesReadGood, StepOKKeeps
<1>8. CASE ToolReturns BY <1>0, <1>8, ToolReturnsGood, StepOKKeeps
<1>9. ASSUME NEW h \in Entries, ResolveAnswered(h) PROVE IInv' /\ TerminalKept
  BY <1>0, <1>9, ResolveAnsweredGood, StepOKKeeps
<1>10. ASSUME NEW h \in Entries, ResolveDispatched(h) PROVE IInv' /\ TerminalKept
  BY <1>0, <1>10, ResolveDispatchedGood, StepOKKeeps
<1>11. ASSUME NEW h \in Entries, ResolveDeny(h) PROVE IInv' /\ TerminalKept
  BY <1>0, <1>11, ResolveDenyGood, StepOKKeeps
<1>12. ASSUME NEW h \in Entries, NEW b \in BOOLEAN, ResolveApprove(h, b)
       PROVE  IInv' /\ TerminalKept
  BY <1>0, <1>12, ResolveApproveGood, StepOKKeeps
<1>13. CASE HeldCallReturns BY <1>0, <1>13, HeldCallReturnsGood, StepOKKeeps
<1>14. CASE HeldOutcomeWriteFails
  <2>1. /\ db' = db /\ turn' = Idle /\ ran' = ran
        /\ orphan' \in Entries \cup {None}
    BY <1>0, <1>14 DEF HeldOutcomeWriteFails, CoreInv
  <2> QED BY <1>0, <2>1, IdleStepGood, StepOKKeeps
<1>15. ASSUME NEW r \in Runs, NEW h \in Entries, NEW b \in BOOLEAN,
              ProvideTaskInput(r, h, b)
       PROVE  IInv' /\ TerminalKept
  BY <1>0, <1>15, ProvideGood, StepOKKeeps
<1>16. ASSUME NEW r \in Runs, CancelTask(r) PROVE IInv' /\ TerminalKept
  BY <1>0, <1>16, CancelTaskGood, BoundedKept DEF IInv
<1>17. ASSUME NEW r \in Runs, ReadCommissionRun(r) PROVE IInv' /\ TerminalKept
  BY <1>0, <1>17, ReadCommissionRunGood, StepOKKeeps
<1>18. ASSUME NEW r \in Runs, NEW b \in BOOLEAN, AmendTask(r, b)
       PROVE  IInv' /\ TerminalKept
  BY <1>0, <1>18, AmendTaskGood, StepOKKeeps
<1>19. CASE ReadReaps BY <1>0, <1>19, ReadReapsGood, StepOKKeeps
<1>20. CASE StartSession BY <1>0, <1>20, StartSessionGood, StepOKKeeps
<1>21. CASE EndSession BY <1>0, <1>21, EndSessionGood, StepOKKeeps
<1>22. ASSUME NEW lost \in BOOLEAN, KillSwitch(lost) PROVE IInv' /\ TerminalKept
  BY <1>0, <1>22, KillSwitchGood, StepOKKeeps
<1>23. ASSUME NEW s \in Sessions, SessionAges(s) PROVE IInv' /\ TerminalKept
  BY <1>0, <1>23, SessionAgesGood, StepOKKeeps
<1>24. CASE Crash
  <2>1. /\ db' = db /\ turn' = Idle /\ ran' = ran
        /\ orphan' \in Entries \cup {None}
    BY <1>24 DEF Crash
  <2> QED BY <1>0, <2>1, IdleStepGood, StepOKKeeps
<1> QED
  BY <1>1, <1>2, <1>3, <1>4, <1>5, <1>6, <1>7, <1>8, <1>9, <1>10, <1>11, <1>12,
     <1>13, <1>14, <1>15, <1>16, <1>17, <1>18, <1>19, <1>20, <1>21, <1>22, <1>23,
     <1>24 DEF Next

LEMMA StutterIInv ==
    ASSUME IInv, UNCHANGED vars PROVE IInv' /\ TerminalKept
<1>1. CoreInv' BY DEF IInv, CoreInv, vars
<1>2. Bounded' BY DEF IInv, Bounded, PendingBounded, vars
<1>3. TerminalKept BY DEF TerminalKept, vars
<1> QED BY <1>1, <1>2, <1>3 DEF IInv

\* The strengthening holds in every reachable state: typed store, rows and runs
\* of live sessions, a turn whose run still exists, a bounded queue.
THEOREM Invariance == Spec => []IInv
<1>1. Init => IInv BY InitIInv
<1>2. IInv /\ [Next]_vars => IInv' BY NextIInv, StutterIInv
<1> QED BY <1>1, <1>2, PTL DEF Spec

\* The store, the turn, the buffer marker and the history keep their types
\* under every handler and fault of the UserAgent.
THEOREM TypeCorrect == Spec => []TypeOK
<1>1. IInv => TypeOK BY DEF IInv, CoreInv, Good, GoodTurn, TypeOK
<1> QED BY <1>1, Invariance, PTL

\* No order of session ends, turn tails and crash repairs leaves a task that
\* is not terminal on a session that is not open.
THEOREM LiveRunsOnOpenSessions == Spec => []LiveRunHasOpenSession
<1>1. IInv => LiveRunHasOpenSession
  BY NoneAssumption DEF IInv, CoreInv, Good, RunsGood, LiveRunHasOpenSession
<1> QED BY <1>1, Invariance, PTL

\* commissionGoal's admission keeps the pending queue within
\* MAX_PENDING_COMMISSIONS, whatever crashes left behind.
THEOREM QueueBounded == Spec => []PendingBounded
<1>1. IInv => PendingBounded BY DEF IInv, Bounded
<1> QED BY <1>1, Invariance, PTL

\* After cancelTask no row of the task can be approved and no turn of it runs.
THEOREM CancelledStaysInert == Spec => []CancelledIsInert
<1>1. IInv => CancelledIsInert
  <2> SUFFICES ASSUME IInv, NEW r \in Runs, db.run[r].status = "cancelled"
               PROVE  selectHeldCallsForRun(db, r) = {} /\ ~(InFlight /\ turn.run = r)
    BY DEF CancelledIsInert
  <2>1. r # None BY NoneAssumption
  <2>2. selectHeldCallsForRun(db, r) = {}
    BY <2>1 DEF IInv, CoreInv, Good, RowsGood, selectHeldCallsForRun, selectHeldCalls
  <2>3. ~(InFlight /\ turn.run = r)
    BY <2>1 DEF IInv, CoreInv, GoodTurn, InFlight
  <2> QED BY <2>2, <2>3
<1> QED BY <1>1, Invariance, PTL

\* commissionGoal, cancelTask, the sweeps and the readers' repair together keep
\* tasks and sessions in step, under every storage fault of the specification.
THEOREM TasksAreSound == Spec => []TasksSound
<1>1. LiveRunHasOpenSession /\ CancelledIsInert => TasksSound BY DEF TasksSound
<1> QED BY <1>1, LiveRunsOnOpenSessions, CancelledStaysInert, PTL

\* No handler overwrites a terminal task status: a turn that outlives the end
\* of its session reports its outcome to a row that no longer takes it.
THEOREM TerminalStatusFinal == Spec => TerminalIsFinal
<1>1. IInv /\ [Next]_vars => TerminalKept BY NextIInv, StutterIInv
<1>2. TerminalKept => [TerminalKept]_vars OBVIOUS
<1> QED BY <1>1, <1>2, Invariance, PTL DEF Spec, TerminalIsFinal, TerminalKept

-----------------------------------------------------------------------------
(***************************************************************************)
(* Each pending decision is closed at most once, a parked row's decision   *)
(* is open, and a held call is sent at most once, for every value of the   *)
(* constants under two conditions the code needs: no crash falls between a *)
(* closer and its row ("split_close"), and parked input holds are not      *)
(* answered through the confirmation route.                                *)
(*                                                                         *)
(* Audit(d, t, rn) is the strengthening: it relates the rows, the closers, *)
(* the entry the turn t in flight owns and the history rn of sent calls.   *)
(***************************************************************************)

Present(d, h) == d.hold[h].st # "absent"

\* Every row waits on an entry that was written, and that is open until the
\* row carries its answer.
RowsOpen(d) ==
    \A h \in Entries : Present(d, h) =>
        /\ h \in d.opened /\ d.hold[h].entry \in d.opened
        /\ d.hold[h].st # "answered" => ~hasCloser(d, d.hold[h].entry)

\* Two rows share neither an entry nor a task.
RowsApart(d) ==
    \A h, g \in Entries : Present(d, h) /\ Present(d, g) /\ h # g =>
        /\ d.hold[h].entry # d.hold[g].entry
        /\ d.hold[h].run # None => d.hold[h].run # d.hold[g].run

\* The row of a task that needs input is a parked input hold.
RowsOfRuns(d) ==
    \A h \in Entries : Present(d, h) /\ d.hold[h].run # None =>
        /\ d.run[d.hold[h].run].status # "unborn"
        /\ d.run[d.hold[h].run].status = "needs_input" =>
               d.hold[h].st = "parked" /\ d.hold[h].kind = "input"

Closers(d) ==
    \A e \in Entries : /\ d.obs[e] + d.inf[e] <= 1
                       /\ e \notin d.opened => ~hasCloser(d, e)

Sends(d, rn) ==
    \A h \in Entries : /\ rn[h] <= 1
                       /\ rn[h] = 1 => h \in d.opened /\ d.hold[h].st # "parked"

\* The entry e is open, and no row but h's waits on it.
Owns(d, h, e) ==
    /\ h \in Entries /\ e \in d.opened /\ ~hasCloser(d, e)
    /\ \A g \in Entries : Present(d, g) /\ d.hold[g].entry = e => g = h
    /\ Present(d, h) => d.hold[h].entry = e

TurnOwns(d, t, rn) ==
    /\ t.entry # None => Owns(d, t.hold, t.entry)
                         /\ d.hold[t.hold].st \in {"absent", "dispatched"}
    /\ t.pc = "idle" => t.entry = None
    /\ t.pc = "hold" => t.entry # None /\ t.op = "resolve"
    /\ t.pc # "idle" /\ t.op = "provide" =>
         t.entry # None /\ (t.pc \in {"llm", "scopes"} => rn[t.hold] = 0)

\* The task of the turn in flight has at most the row the turn is resolving.
TurnRun(d, t) ==
    t.pc # "idle" =>
        /\ t.hold # None => t.hold \in d.opened
        /\ t.run # None =>
             /\ t.op \in {"commission", "resolve", "provide"}
             /\ t.op = "commission" => t.hold = None
             /\ d.run[t.run].status \notin {"unborn", "needs_input"}
             /\ \A h \in Entries : Present(d, h) /\ d.hold[h].run = t.run => h = t.hold

Store(d, rn) == /\ RowsOpen(d) /\ RowsApart(d) /\ RowsOfRuns(d)
                /\ Closers(d) /\ Sends(d, rn)

Audit(d, t, rn) ==
    /\ d \in Database /\ t \in Turn /\ rn \in [Entries -> Nat]
    /\ Store(d, rn) /\ TurnOwns(d, t, rn) /\ TurnRun(d, t)

-----------------------------------------------------------------------------
(* Operators of the store that keep Audit whatever the turn.               *)

LEMMA NoneFacts == None \notin Sessions /\ None \notin Runs /\ None \notin Entries
BY NoneAssumption

LEMMA RowFacts ==
    ASSUME NEW d \in Database, NEW h \in Entries
    PROVE  /\ d.hold[h].st \in {"absent", "parked", "dispatched", "answered"}
           /\ d.hold[h].run \in Runs \cup {None}
           /\ d.hold[h].entry \in Entries \cup {None}
           /\ d.obs[h] \in Nat /\ d.inf[h] \in Nat
BY Fields DEF Row

LEMMA TurnFacts ==
    ASSUME NEW t \in Turn
    PROVE  /\ t.run \in Runs \cup {None} /\ t.hold \in Entries \cup {None}
           /\ t.entry \in Entries \cup {None}
           /\ t.pc \in {"idle", "llm", "scopes", "tool", "hold"}
           /\ t.op \in {"none", "chat", "commission", "resolve", "provide", "direct"}
BY DEF Turn

\* Statuses may move, but not to "unborn" or "needs_input".
LEMMA AuditRuns ==
    ASSUME NEW d, NEW t, NEW rn, Audit(d, t, rn), NEW d2 \in Database,
           d2.hold = d.hold, d2.opened = d.opened, d2.obs = d.obs, d2.inf = d.inf,
           \A r \in Runs :
               \/ d2.run[r].status = d.run[r].status
               \/ d2.run[r].status \notin {"unborn", "needs_input"}
    PROVE  Audit(d2, t, rn)
<1>0. /\ d \in Database /\ t \in Turn /\ rn \in [Entries -> Nat] BY DEF Audit
<1>1. \A e \in Entries : hasCloser(d2, e) <=> hasCloser(d, e) BY DEF hasCloser
<1>2. \A h \in Entries : Present(d2, h) <=> Present(d, h) BY DEF Present
<1>3. d.opened \subseteq Entries BY <1>0, Fields
<1>4. RowsOpen(d2) BY <1>1, <1>2, <1>3 DEF Audit, Store, RowsOpen
<1>5. RowsApart(d2) BY <1>2 DEF Audit, Store, RowsApart
<1>6. RowsOfRuns(d2)
  <2>1. \A h \in Entries : d.hold[h].run \in Runs \cup {None} BY <1>0, RowFacts
  <2> QED BY <1>2, <2>1 DEF Audit, Store, RowsOfRuns
<1>7. Closers(d2) BY <1>1 DEF Audit, Store, Closers
<1>8. Sends(d2, rn) BY DEF Audit, Store, Sends
<1>9. TurnOwns(d2, t, rn)
  <2>1. t.entry # None => Owns(d2, t.hold, t.entry)
    BY <1>0, <1>1, <1>2, <1>3 DEF Audit, TurnOwns, Owns, Turn
  <2> QED BY <2>1 DEF Audit, TurnOwns
<1>10. TurnRun(d2, t)
  <2>1. t.run \in Runs \cup {None} BY <1>0, TurnFacts
  <2> QED BY <1>2, <2>1 DEF Audit, TurnRun
<1> QED BY <1>0, <1>4, <1>5, <1>6, <1>7, <1>8, <1>9, <1>10 DEF Audit, Store

LEMMA MoveRunsAudit ==
    ASSUME NEW d, NEW t, NEW rn, Audit(d, t, rn), NEW R, NEW from,
           NEW to \in RunStatus \ {"unborn", "needs_input"}
    PROVE  Audit(MoveRuns(d, R, from, to), t, rn)
<1> DEFINE d2 == MoveRuns(d, R, from, to)
<1>1. d \in Database BY DEF Audit
<1>2. /\ d2 \in Database /\ d2.hold = d.hold /\ d2.opened = d.opened
      /\ d2.obs = d.obs /\ d2.inf = d.inf
      /\ \A r \in Runs : d2.run[r].status = IF r \in R /\ d.run[r].status \in from
                                       THEN to ELSE d.run[r].status
  BY <1>1, MoveRunsFields
<1> HIDE DEF d2
<1>3. Audit(d2, t, rn) BY <1>2, AuditRuns
<1> QED BY <1>3 DEF d2

\* d2 is d with rows H gone, and an inferred closer on entries E of parked
\* rows that went.
SweptTo(d, H, E, d2) ==
    /\ \A e \in E : \E h \in Entries :
          h \in H /\ d.hold[h].st = "parked" /\ d.hold[h].entry = e
    /\ d2.hold = [h \in Entries |-> IF h \in H THEN NoRow ELSE d.hold[h]]
    /\ d2.inf = [e \in Entries |->
          IF e \in E /\ ~hasCloser(d, e) THEN d.inf[e] + 1 ELSE d.inf[e]]
    /\ d2.run = d.run /\ d2.opened = d.opened /\ d2.obs = d.obs

LEMMA AuditSweep ==
    ASSUME NEW d, NEW t, NEW rn, Audit(d, t, rn), NEW H, NEW E, NEW d2 \in Database,
           SweptTo(d, H, E, d2)
    PROVE  Audit(d2, t, rn)
<1> USE DEF SweptTo
<1>0. /\ d \in Database /\ t \in Turn /\ rn \in [Entries -> Nat] BY DEF Audit
<1>1. \A h \in Entries : Present(d2, h) =>
          h \notin H /\ Present(d, h) /\ d2.hold[h] = d.hold[h]
  BY NoRowAbsent DEF Present
<1>2. \A h \in Entries : d.hold[h].entry \in Entries \cup {None}
                         /\ d.hold[h].st \in {"absent", "parked", "dispatched", "answered"}
  BY <1>0, RowFacts
<1>3. \A e \in Entries : d.obs[e] \in Nat /\ d.inf[e] \in Nat BY <1>0, RowFacts
<1>4. d.opened \subseteq Entries BY <1>0, Fields
<1>5. \A e \in Entries \ E : hasCloser(d2, e) <=> hasCloser(d, e)
  BY DEF hasCloser
<1>6. \A h \in Entries : Present(d2, h) => d.hold[h].entry \notin E
  <2> SUFFICES ASSUME NEW h \in Entries, Present(d2, h), d.hold[h].entry \in E
               PROVE FALSE
    OBVIOUS
  <2>1. PICK g \in Entries : g \in H /\ d.hold[g].st = "parked"
                             /\ d.hold[g].entry = d.hold[h].entry
    OBVIOUS
  <2> QED BY <1>1, <2>1 DEF Audit, Store, RowsApart, Present
<1>7. RowsOpen(d2)
  BY <1>1, <1>4, <1>5, <1>6 DEF Audit, Store, RowsOpen
<1>8. RowsApart(d2) BY <1>1 DEF Audit, Store, RowsApart
<1>9. RowsOfRuns(d2) BY <1>1 DEF Audit, Store, RowsOfRuns
<1>10. Closers(d2)
  <2> SUFFICES ASSUME NEW e \in Entries
               PROVE  /\ d2.obs[e] + d2.inf[e] <= 1
                      /\ e \notin d2.opened => ~hasCloser(d2, e)
    BY DEF Closers
  <2>1. e \in E => e \in d.opened
    BY DEF Audit, Store, RowsOpen, Present
  <2> QED BY <1>3, <2>1 DEF Audit, Store, Closers, hasCloser
<1>11. Sends(d2, rn)
  <2>1. \A h \in Entries : d2.hold[h].st = "parked" => d.hold[h].st = "parked"
    BY NoRowAbsent
  <2> QED BY <2>1 DEF Audit, Store, Sends
<1>12. TurnOwns(d2, t, rn)
  <2>1. ASSUME t.entry # None
        PROVE  Owns(d2, t.hold, t.entry) /\ d2.hold[t.hold].st \in {"absent", "dispatched"}
    <3>1. /\ Owns(d, t.hold, t.entry) /\ d.hold[t.hold].st \in {"absent", "dispatched"}
          /\ t.hold \in Entries /\ t.entry \in Entries
      BY <1>4, <2>1 DEF Audit, TurnOwns, Owns
    <3>2. t.entry \notin E
      BY <3>1 DEF Owns, Present
    <3>3. Owns(d2, t.hold, t.entry) BY <1>1, <1>5, <3>1, <3>2 DEF Owns
    <3>4. d2.hold[t.hold].st \in {"absent", "dispatched"}
      BY <3>1, NoRowAbsent
    <3> QED BY <3>3, <3>4
  <2> QED BY <2>1 DEF Audit, TurnOwns
<1>13. TurnRun(d2, t) BY <1>1 DEF Audit, TurnRun
<1> QED BY <1>0, <1>7, <1>8, <1>9, <1>10, <1>11, <1>12, <1>13 DEF Audit, Store

LEMMA SweepAudit ==
    ASSUME NEW d, NEW t, NEW rn, Audit(d, t, rn), NEW H \in SUBSET selectHeldCalls(d)
    PROVE  Audit(SweepHolds(d, H), t, rn)
<1> DEFINE d2 == SweepHolds(d, H)
           E == {d.hold[h].entry : h \in {g \in H : ~HasResolution(d, g)}}
<1>0. d \in Database BY DEF Audit
<1>1. /\ d2 \in Database
      /\ d2.hold = [h \in Entries |-> IF h \in H THEN NoRow ELSE d.hold[h]]
      /\ d2.inf = [e \in Entries |->
            IF e \in E /\ ~hasCloser(d, e) THEN d.inf[e] + 1 ELSE d.inf[e]]
      /\ d2.run = d.run /\ d2.opened = d.opened /\ d2.obs = d.obs
  BY <1>0, SweepFields
<1>2. \A e \in E : \E h \in Entries :
          h \in H /\ d.hold[h].st = "parked" /\ d.hold[h].entry = e
  <2>1. \A h \in H : h \in Entries /\ d.hold[h].st # "absent" BY DEF selectHeldCalls
  <2>2. \A h \in H : ~HasResolution(d, h) => d.hold[h].st = "parked"
    BY <1>0, <2>1, RowFacts DEF HasResolution
  <2> QED BY <2>1, <2>2
<1> HIDE DEF d2, E
<1>3. SweptTo(d, H, E, d2) BY <1>1, <1>2 DEF SweptTo
<1>4. Audit(d2, t, rn) BY <1>1, <1>3, AuditSweep
<1> QED BY <1>4 DEF d2

LEMMA DeleteAudit ==
    ASSUME NEW d, NEW t, NEW rn, Audit(d, t, rn), NEW H
    PROVE  Audit(deleteHeldToolCalls(d, H), t, rn)
<1> DEFINE d2 == deleteHeldToolCalls(d, H)
<1>0. d \in Database BY DEF Audit
<1>1. /\ d2 \in Database
      /\ d2.hold = [h \in Entries |-> IF h \in H THEN NoRow ELSE d.hold[h]]
      /\ d2.inf = d.inf /\ d2.run = d.run /\ d2.opened = d.opened /\ d2.obs = d.obs
  BY <1>0, DeleteFields
<1>2. d.inf = [e \in Entries |-> d.inf[e]] BY <1>0, Fields
<1> HIDE DEF d2
<1>3. d2.inf = [e \in Entries |->
            IF e \in {} /\ ~hasCloser(d, e) THEN d.inf[e] + 1 ELSE d.inf[e]]
  BY <1>1, <1>2
<1>4. SweptTo(d, H, {}, d2) BY <1>1, <1>3 DEF SweptTo
<1>5. Audit(d2, t, rn) BY <1>1, <1>4, AuditSweep
<1> QED BY <1>5 DEF d2

LEMMA AuditCopy ==
    ASSUME NEW d, NEW t, NEW rn, Audit(d, t, rn), NEW d2 \in Database,
           d2.hold = d.hold, d2.opened = d.opened, d2.obs = d.obs, d2.inf = d.inf,
           d2.run = d.run
    PROVE  Audit(d2, t, rn)
BY AuditRuns

LEMMA ExpireRunsAudit ==
    ASSUME NEW d, NEW t, NEW rn, Audit(d, t, rn), NEW R
    PROVE  Audit(expireRuns(d, R), t, rn)
<1>1. "expired" \in RunStatus \ {"unborn", "needs_input"} BY DEF RunStatus, Terminal
<1> QED BY <1>1, MoveRunsAudit DEF expireRuns

LEMMA UpdateStatusAudit ==
    ASSUME NEW d, NEW t, NEW rn, Audit(d, t, rn), NEW r,
           NEW to \in {"awaiting_confirmation", "completed", "denied", "failed"}
    PROVE  Audit(updateCommissionStatus(d, r, to), t, rn)
<1>1. to \in RunStatus \ {"unborn", "needs_input"} BY DEF RunStatus, Terminal, NonTerminal
<1> QED BY <1>1, MoveRunsAudit DEF updateCommissionStatus

LEMMA ClearNeedsInputAudit ==
    ASSUME NEW d, NEW t, NEW rn, Audit(d, t, rn), NEW r
    PROVE  Audit(clearNeedsInput(d, r), t, rn)
<1>1. "running" \in RunStatus \ {"unborn", "needs_input"} BY DEF RunStatus, NonTerminal
<1> QED BY <1>1, MoveRunsAudit DEF clearNeedsInput

LEMMA RepairRunsFields ==
    ASSUME NEW d \in Database, NEW R
    PROVE  LET d2 == RepairRuns(d, R) IN
           /\ d2 \in Database
           /\ d2.hold = d.hold /\ d2.opened = d.opened /\ d2.obs = d.obs /\ d2.inf = d.inf
           /\ \A r \in Runs :
                 \/ d2.run[r].status = d.run[r].status
                 \/ d2.run[r].status \notin {"unborn", "needs_input"}
<1> DEFINE to(r) == IF selectHeldCallsForRun(d, r) # {}
                    THEN "awaiting_confirmation" ELSE "failed"
           g(r) == IF r \in R /\ d.run[r].status = "running"
                   THEN [d.run[r] EXCEPT !.status = to(r)] ELSE d.run[r]
           f == [r \in Runs |-> g(r)]
<1>1. \A r \in Runs : to(r) \in {"awaiting_confirmation", "failed"} OBVIOUS
<1>2. RepairRuns(d, R) = [d EXCEPT !.run = f] BY DEF RepairRuns
<1> HIDE DEF to
<1>3. ASSUME NEW r \in Runs
      PROVE  /\ g(r) \in RunRow
             /\ \/ g(r).status = d.run[r].status
                \/ g(r).status \notin {"unborn", "needs_input"}
  <2>1. d.run[r] \in RunRow BY Fields
  <2>2. to(r) \in {"awaiting_confirmation", "failed"} BY <1>1
  <2>3. /\ [d.run[r] EXCEPT !.status = to(r)] \in RunRow
        /\ [d.run[r] EXCEPT !.status = to(r)].status = to(r)
    BY <2>1, <2>2 DEF RunRow, RunStatus, NonTerminal, Terminal
  <2> QED BY <2>1, <2>2, <2>3
<1> HIDE DEF g
<1>4. f \in [Runs -> RunRow] /\ \A r \in Runs : f[r] = g(r) BY <1>3
<1> HIDE DEF f
<1>5. [d EXCEPT !.run = f] \in Database BY <1>4 DEF Database, RunRow
<1> DEFINE d2 == [d EXCEPT !.run = f]
<1>6. /\ d2 \in Database /\ d2.run = f
      /\ d2.hold = d.hold /\ d2.opened = d.opened /\ d2.obs = d.obs /\ d2.inf = d.inf
  BY <1>5 DEF Database
<1> HIDE DEF d2
<1>7. \A r \in Runs : \/ d2.run[r].status = d.run[r].status
                      \/ d2.run[r].status \notin {"unborn", "needs_input"}
  BY <1>3, <1>4, <1>6
<1>8. RepairRuns(d, R) = d2 BY <1>2 DEF d2
<1> QED BY <1>6, <1>7, <1>8

LEMMA RepairRunsAudit ==
    ASSUME NEW d, NEW t, NEW rn, Audit(d, t, rn), NEW R
    PROVE  Audit(RepairRuns(d, R), t, rn)
<1>1. d \in Database BY DEF Audit
<1> QED BY <1>1, RepairRunsFields, AuditRuns

LEMMA EndSessionsAudit ==
    ASSUME NEW d, NEW t, NEW rn, Audit(d, t, rn), NEW S
    PROVE  Audit(EndSessions(d, S), t, rn)
<1> DEFINE H == {h \in selectHeldCalls(d) : d.hold[h].sess \in S}
           swept == SweepHolds(d, H)
           R == {r \in Runs : d.run[r].sess \in S}
           runs == expireRuns(swept, R)
           f == [s \in Sessions |-> IF s \in S THEN "ended" ELSE d.sess[s]]
           d2 == [runs EXCEPT !.sess = f]
<1>0. d \in Database BY DEF Audit
<1>1. H \in SUBSET selectHeldCalls(d) OBVIOUS
<1>2. f \in [Sessions -> {"none", "open", "ended"}] BY <1>0, Fields
<1>3. EndSessions(d, S) = d2 BY DEF EndSessions
<1> HIDE DEF H, R, f
<1>4. Audit(swept, t, rn) BY <1>1, SweepAudit
<1> HIDE DEF swept
<1>5. Audit(runs, t, rn) BY <1>4, ExpireRunsAudit
<1> HIDE DEF runs
<1>6. /\ d2 \in Database /\ d2.hold = runs.hold /\ d2.opened = runs.opened
      /\ d2.obs = runs.obs /\ d2.inf = runs.inf /\ d2.run = runs.run
  <2>1. runs \in Database BY <1>5 DEF Audit
  <2> QED BY <1>2, <2>1 DEF Database
<1> HIDE DEF d2
<1> QED BY <1>3, <1>5, <1>6, AuditCopy

LEMMA ReapedAudit ==
    ASSUME NEW d, NEW t, NEW rn, Audit(d, t, rn)
    PROVE  Audit(Reaped(d), t, rn)
BY EndSessionsAudit DEF Reaped

LEMMA ResolveSessionAudit ==
    ASSUME NEW d, NEW t, NEW rn, Audit(d, t, rn), NEW s \in Sessions
    PROVE  Audit(resolveActiveSession(d, s), t, rn)
<1>0. d \in Database BY DEF Audit
<1>1. CASE s \in selectOpenSessions(d)
  BY <1>1, EndSessionsAudit DEF resolveActiveSession
<1>2. CASE s \notin selectOpenSessions(d)
  <2> DEFINE f == [d.sess EXCEPT ![s] = "open"]
             d2 == [d EXCEPT !.sess = f]
  <2>1. resolveActiveSession(d, s) = d2 BY <1>2 DEF resolveActiveSession, createSession
  <2>2. f \in [Sessions -> {"none", "open", "ended"}] BY <1>0, Fields
  <2> HIDE DEF f
  <2>3. /\ d2 \in Database /\ d2.hold = d.hold /\ d2.opened = d.opened
        /\ d2.obs = d.obs /\ d2.inf = d.inf /\ d2.run = d.run
    BY <1>0, <2>2 DEF Database
  <2> HIDE DEF d2
  <2> QED BY <2>1, <2>3, AuditCopy
<1> QED BY <1>1, <1>2

LEMMA UpdateRunDataAudit ==
    ASSUME NEW d, NEW t, NEW rn, Audit(d, t, rn), Good(d), NEW r \in Runs, NEW b \in BOOLEAN
    PROVE  Audit(updateRunData(d, r, b), t, rn)
<1> DEFINE d2 == updateRunData(d, r, b)
<1>1. /\ Good(d2) /\ d2.hold = d.hold /\ d2.opened = d.opened
      /\ d2.obs = d.obs /\ d2.inf = d.inf
      /\ \A q \in Runs : d2.run[q].status = d.run[q].status
  BY UpdateRunDataGood
<1> HIDE DEF d2
<1>2. Audit(d2, t, rn) BY <1>1, AuditRuns DEF Good
<1> QED BY <1>2 DEF d2

-----------------------------------------------------------------------------
(* The turn.                                                               *)

LEMMA AuditTurn ==
    ASSUME NEW d, NEW t, NEW rn, Audit(d, t, rn), NEW u \in Turn,
           u.pc = t.pc, u.op = t.op, u.run = t.run, u.hold = t.hold, u.entry = t.entry
    PROVE  Audit(d, u, rn)
BY DEF Audit, TurnOwns, TurnRun

LEMMA IdleFacts == Idle \in Turn /\ Idle.pc = "idle" /\ Idle.entry = None
BY DEF Idle, Turn

LEMMA StoreIdle ==
    ASSUME NEW d \in Database, NEW rn \in [Entries -> Nat], Store(d, rn)
    PROVE  Audit(d, Idle, rn)
BY IdleFacts DEF Audit, TurnOwns, TurnRun

LEMMA AuditIdle ==
    ASSUME NEW d, NEW t, NEW rn, Audit(d, t, rn) PROVE Audit(d, Idle, rn)
BY StoreIdle DEF Audit

LEMMA IdleAny ==
    ASSUME NEW d, NEW rn, Audit(d, Idle, rn), NEW t \in Turn, t.pc = "idle", t.entry = None
    PROVE  Audit(d, t, rn)
BY DEF Audit, TurnOwns, TurnRun

\* Closing an owned entry and recording the answer.
LEMMA AnswerStore ==
    ASSUME NEW d \in Database, NEW rn \in [Entries -> Nat], Store(d, rn),
           NEW h, NEW e, Owns(d, h, e),
           Present(d, h) /\ d.hold[h].run # None =>
               d.run[d.hold[h].run].status # "needs_input"
    PROVE  LET d2 == SetTurnState(CloseObserved(d, e), h, "answered") IN
           /\ d2 \in Database /\ Store(d2, rn)
           /\ d2.run = d.run /\ d2.opened = d.opened
           /\ \A g \in Entries : /\ Present(d2, g) <=> Present(d, g)
                                 /\ d2.hold[g].run = d.hold[g].run
<1> DEFINE c == CloseObserved(d, e)
           d2 == SetTurnState(c, h, "answered")
<1>0. h \in Entries /\ e \in Entries BY Fields DEF Owns
<1>1. /\ c \in Database /\ c.obs = [d.obs EXCEPT ![e] = @ + 1]
      /\ c.run = d.run /\ c.hold = d.hold /\ c.opened = d.opened /\ c.inf = d.inf
  BY CloseObservedFields
<1> HIDE DEF c
<1>2. /\ d2 \in Database
      /\ d2.hold = [g \in Entries |->
            IF g = h /\ c.hold[h].st # "absent"
            THEN [c.hold[h] EXCEPT !.st = "answered"] ELSE c.hold[g]]
      /\ d2.run = c.run /\ d2.opened = c.opened /\ d2.obs = c.obs /\ d2.inf = c.inf
  <2>1. c \in Database BY <1>1
  <2> QED BY <2>1, SetTurnStateFields
<1> HIDE DEF d2
<1>3. d.hold[h] \in Row BY <1>0, Fields
<1>4. ASSUME NEW g \in Entries
      PROVE  /\ Present(d2, g) <=> Present(d, g)
             /\ d2.hold[g].run = d.hold[g].run /\ d2.hold[g].entry = d.hold[g].entry
             /\ d2.hold[g].kind = d.hold[g].kind
             /\ d2.hold[g].st = IF g = h /\ Present(d, h) THEN "answered"
                                ELSE d.hold[g].st
  <2>1. CASE g = h /\ d.hold[h].st # "absent"
    BY <1>1, <1>2, <1>3, <2>1 DEF Present, Row
  <2>2. CASE ~(g = h /\ d.hold[h].st # "absent")
    <3>1. d2.hold[g] = d.hold[g] BY <1>1, <1>2, <2>2
    <3> QED BY <2>2, <3>1 DEF Present
  <2> QED BY <2>1, <2>2
<1>5. \A x \in Entries : d.obs[x] \in Nat /\ d.inf[x] \in Nat BY RowFacts
<1>6. \A x \in Entries : /\ d2.obs[x] = IF x = e THEN d.obs[x] + 1 ELSE d.obs[x]
                         /\ d2.inf[x] = d.inf[x]
  <2>1. d2.obs = [d.obs EXCEPT ![e] = @ + 1] /\ d2.inf = d.inf BY <1>1, <1>2
  <2>2. d.obs \in [Entries -> Nat] BY Fields
  <2> QED BY <2>1, <2>2
<1>7. \A x \in Entries : x # e => (hasCloser(d2, x) <=> hasCloser(d, x))
  BY <1>6 DEF hasCloser
<1>8. d2.opened = d.opened /\ d.opened \subseteq Entries BY <1>1, <1>2, Fields
<1>9. RowsOpen(d2)
  <2> SUFFICES ASSUME NEW g \in Entries, Present(d2, g)
               PROVE  /\ g \in d2.opened /\ d2.hold[g].entry \in d2.opened
                      /\ d2.hold[g].st # "answered" => ~hasCloser(d2, d2.hold[g].entry)
    BY DEF RowsOpen
  <2>1. Present(d, g) /\ g \in d.opened /\ d.hold[g].entry \in d.opened
    BY <1>4 DEF Store, RowsOpen
  <2>2. CASE g = h BY <1>4, <1>8, <2>1, <2>2
  <2>3. CASE g # h
    <3>1. d.hold[g].entry # e BY <2>1, <2>3 DEF Owns
    <3>2. d.hold[g].entry \in Entries BY <1>8, <2>1
    <3>3. hasCloser(d2, d.hold[g].entry) <=> hasCloser(d, d.hold[g].entry)
      BY <1>7, <3>1, <3>2
    <3> QED BY <1>4, <1>8, <2>1, <2>3, <3>3 DEF Store, RowsOpen
  <2> QED BY <2>2, <2>3
<1>10. RowsApart(d2) BY <1>4 DEF Store, RowsApart
<1>11. RowsOfRuns(d2)
  <2> SUFFICES ASSUME NEW g \in Entries, Present(d2, g), d2.hold[g].run # None
               PROVE  /\ d2.run[d2.hold[g].run].status # "unborn"
                      /\ d2.run[d2.hold[g].run].status = "needs_input" =>
                             d2.hold[g].st = "parked" /\ d2.hold[g].kind = "input"
    BY DEF RowsOfRuns
  <2>1. Present(d, g) /\ d.hold[g].run # None /\ d2.run = d.run BY <1>1, <1>2, <1>4
  <2>2. CASE g = h BY <1>4, <2>1, <2>2 DEF Store, RowsOfRuns
  <2>3. CASE g # h BY <1>4, <2>1, <2>3 DEF Store, RowsOfRuns
  <2> QED BY <2>2, <2>3
<1>12. Closers(d2)
  <2> SUFFICES ASSUME NEW x \in Entries
               PROVE  /\ d2.obs[x] + d2.inf[x] <= 1
                      /\ x \notin d2.opened => ~hasCloser(d2, x)
    BY DEF Closers
  <2>1. CASE x = e BY <1>5, <1>6, <1>8, <2>1 DEF Owns, hasCloser
  <2>2. CASE x # e BY <1>6, <1>7, <1>8, <2>2 DEF Store, Closers
  <2> QED BY <2>1, <2>2
<1>13. Sends(d2, rn) BY <1>4, <1>8 DEF Store, Sends
<1> QED BY <1>1, <1>2, <1>4, <1>9, <1>10, <1>11, <1>12, <1>13 DEF Store, d2, c

LEMMA EndFinishedAudit ==
    ASSUME NEW d, NEW t, NEW rn, Audit(d, Idle, rn), EndFinished(d, t)
    PROVE  Audit(db', turn', rn)
<1> DEFINE x == IF t.op = "resolve" THEN deleteHeldToolCalls(d, {t.hold}) ELSE d
<1>1. Audit(x, Idle, rn) BY DeleteAudit
<1> HIDE DEF x
<1>2. PICK status \in {"completed", "denied", "failed"} :
          /\ db' = IF t.op = "chat" THEN d ELSE updateCommissionStatus(x, t.run, status)
          /\ turn' = Idle
  BY DEF EndFinished, x
<1>3. Audit(updateCommissionStatus(x, t.run, status), Idle, rn)
  BY <1>1, UpdateStatusAudit
<1> QED BY <1>2, <1>3

LEMMA ResumeAudit ==
    ASSUME NEW d \in Database, NEW t \in Turn, NEW rn \in [Entries -> Nat],
           Store(d, rn), TurnRun(d, t), t.pc # "idle", t.op \in {"resolve", "provide"},
           Resume(d, t)
    PROVE  Audit(db', turn', rn)
<1>1. CASE t.direct
  <2>1. Audit(d, Idle, rn) BY StoreIdle
  <2> QED BY <1>1, <2>1, EndFinishedAudit DEF Resume
<1>2. CASE ~t.direct
  <2> DEFINE u == [t EXCEPT !.pc = "llm", !.op = "resolve", !.tool = None,
                            !.sess = None, !.entry = None]
  <2>1. /\ u \in Turn /\ u.run = t.run /\ u.pc = "llm" /\ u.op = "resolve"
        /\ u.hold = t.hold /\ u.entry = None
    BY DEF Turn
  <2>2. db' = d /\ turn' = u BY <1>2 DEF Resume
  <2> HIDE DEF u
  <2>3. TurnOwns(d, u, rn) BY <2>1 DEF TurnOwns
  <2>4. TurnRun(d, u) BY <2>1 DEF TurnRun
  <2> QED BY <2>1, <2>2, <2>3, <2>4 DEF Audit
<1> QED BY <1>1, <1>2

\* The entry t owns is closed, its row answered, and t resumed.
LEMMA AnswerAudit ==
    ASSUME NEW d \in Database, NEW t \in Turn, NEW rn \in [Entries -> Nat], Store(d, rn),
           t.pc # "idle", t.op \in {"resolve", "provide"}, TurnRun(d, t),
           NEW h, NEW e, Owns(d, h, e),
           Present(d, h) /\ d.hold[h].run # None =>
               d.run[d.hold[h].run].status # "needs_input",
           Resume(SetTurnState(CloseObserved(d, e), h, "answered"), t)
    PROVE  Audit(db', turn', rn)
<1> DEFINE a == SetTurnState(CloseObserved(d, e), h, "answered")
<1>1. /\ a \in Database /\ Store(a, rn) /\ a.run = d.run /\ a.opened = d.opened
      /\ \A g \in Entries : /\ Present(a, g) <=> Present(d, g)
                            /\ a.hold[g].run = d.hold[g].run
  BY AnswerStore
<1>2. Resume(a, t) OBVIOUS
<1> HIDE DEF a
<1>3. TurnRun(a, t) BY <1>1 DEF TurnRun
<1> QED BY <1>1, <1>2, <1>3, ResumeAudit

LEMMA ToolAnsweredAudit ==
    ASSUME NEW d, NEW t, NEW rn, Audit(d, t, rn), t.pc # "idle",
           "split_close" \notin Faults, ToolAnswered(d, t)
    PROVE  Audit(db', turn', rn)
<1>0. d \in Database /\ t \in Turn /\ rn \in [Entries -> Nat] BY DEF Audit
<1>1. CASE t.op = "provide"
  <2>1. Resume(SetTurnState(CloseObserved(d, t.entry), t.hold, "answered"), t)
    BY <1>1 DEF ToolAnswered, FaultAfterClose
  <2>2. /\ Owns(d, t.hold, t.entry) /\ d.hold[t.hold].st \in {"absent", "dispatched"}
        /\ Store(d, rn) /\ TurnRun(d, t)
    BY <1>1 DEF Audit, TurnOwns
  <2>3. Present(d, t.hold) /\ d.hold[t.hold].run # None =>
               d.run[d.hold[t.hold].run].status # "needs_input"
    BY <2>2 DEF Store, RowsOfRuns, Owns
  <2> QED BY <1>0, <1>1, <2>1, <2>2, <2>3, AnswerAudit
<1>2. CASE t.op = "direct"
  <2>1. db' = d /\ turn' = Idle BY <1>2 DEF ToolAnswered
  <2> QED BY <2>1, AuditIdle
<1>3. CASE t.op \notin {"provide", "direct"}
  <2> DEFINE u == [t EXCEPT !.pc = "llm", !.tool = None, !.sess = None]
  <2>1. /\ u \in Turn /\ u.run = t.run /\ u.pc = "llm" /\ u.op = t.op
        /\ u.hold = t.hold /\ u.entry = t.entry
    BY <1>0 DEF Turn
  <2>2. db' = d /\ turn' = u BY <1>3 DEF ToolAnswered
  <2> HIDE DEF u
  <2>3. Audit(d, u, rn) BY <1>3, <2>1 DEF Audit, TurnOwns, TurnRun
  <2> QED BY <2>2, <2>3
<1> QED BY <1>1, <1>2, <1>3

-----------------------------------------------------------------------------
(* A turn that ends in a new hold.                                         *)

\* d2 is d after the turn t parked row h of the given kind: the row t was
\* resolving is gone, and its entry closed if t was a provide.
HeldTo(d, t, h, kind, d2) ==
    /\ d2.opened = d.opened \cup {h} /\ d2.inf = d.inf
    /\ \A e \in Entries :
          d2.obs[e] = IF t.op = "provide" /\ e = t.entry THEN d.obs[e] + 1 ELSE d.obs[e]
    /\ \A g \in Entries :
          IF g = h
          THEN /\ d2.hold[g].st = "parked" /\ d2.hold[g].kind = kind
               /\ d2.hold[g].run = t.run /\ d2.hold[g].entry = h
          ELSE IF g = t.hold /\ t.op \in {"resolve", "provide"}
               THEN d2.hold[g].st = "absent" ELSE d2.hold[g] = d.hold[g]
    /\ \A r \in Runs :
          \/ d2.run[r].status = d.run[r].status
          \/ d2.run[r].status = "awaiting_confirmation"
          \/ r = t.run /\ kind = "input" /\ d2.run[r].status = "needs_input"

LEMMA HeldStore ==
    ASSUME NEW d, NEW t, NEW rn, Audit(d, t, rn), t.pc # "idle",
           NEW h \in Entries, h \notin d.opened,
           NEW kind \in {"confirmation", "input"},
           NEW d2 \in Database, HeldTo(d, t, h, kind, d2)
    PROVE  Audit(d2, Idle, rn)
<1>0. d \in Database /\ t \in Turn /\ rn \in [Entries -> Nat] BY DEF Audit
<1>1. \A e \in Entries : d.obs[e] \in Nat /\ d.inf[e] \in Nat BY <1>0, RowFacts
<1>2. d.opened \subseteq Entries BY <1>0, Fields
<1>3. t.op = "provide" => Owns(d, t.hold, t.entry) /\ t.entry \in Entries
  BY <1>2 DEF Audit, TurnOwns, Owns
<1>4. ASSUME NEW g \in Entries, Present(d2, g), g # h
      PROVE  /\ Present(d, g) /\ d2.hold[g] = d.hold[g]
             /\ ~(g = t.hold /\ t.op \in {"resolve", "provide"})
             /\ t.run # None => d.hold[g].run # t.run
             /\ d.hold[g].entry \in d.opened
             /\ t.op = "provide" => d.hold[g].entry # t.entry
  <2>1. /\ Present(d, g) /\ d2.hold[g] = d.hold[g]
        /\ ~(g = t.hold /\ t.op \in {"resolve", "provide"})
    BY <1>4 DEF HeldTo, Present
  <2>2. t.run # None => d.hold[g].run # t.run
    BY <2>1, NoneFacts DEF Audit, TurnRun
  <2>3. d.hold[g].entry \in d.opened BY <2>1 DEF Audit, Store, RowsOpen
  <2>4. t.op = "provide" => d.hold[g].entry # t.entry BY <1>3, <2>1 DEF Owns
  <2> QED BY <2>1, <2>2, <2>3, <2>4
<1>5. /\ d2.hold[h].st = "parked" /\ d2.hold[h].kind = kind
      /\ d2.hold[h].run = t.run /\ d2.hold[h].entry = h
  BY DEF HeldTo
<1>6. \A e \in Entries : ~(t.op = "provide" /\ e = t.entry) =>
                             (hasCloser(d2, e) <=> hasCloser(d, e))
  BY DEF HeldTo, hasCloser
<1>7. d2.opened = d.opened \cup {h} BY DEF HeldTo
<1>8. RowsOpen(d2)
  <2> SUFFICES ASSUME NEW g \in Entries, Present(d2, g)
               PROVE  /\ g \in d2.opened /\ d2.hold[g].entry \in d2.opened
                      /\ d2.hold[g].st # "answered" => ~hasCloser(d2, d2.hold[g].entry)
    BY DEF RowsOpen
  <2>1. CASE g = h
    <3>1. ~hasCloser(d, h) BY DEF Audit, Store, Closers
    <3>2. ~(t.op = "provide" /\ h = t.entry) BY <1>3 DEF Owns
    <3> QED BY <1>5, <1>6, <1>7, <2>1, <3>1, <3>2
  <2>2. CASE g # h
    <3>1. d.hold[g].entry \in Entries BY <1>2, <1>4, <2>2
    <3>2. hasCloser(d2, d.hold[g].entry) <=> hasCloser(d, d.hold[g].entry)
      BY <1>4, <1>6, <2>2, <3>1
    <3> QED BY <1>4, <1>7, <2>2, <3>2 DEF Audit, Store, RowsOpen
  <2> QED BY <2>1, <2>2
<1>9. RowsApart(d2)
  <2> SUFFICES ASSUME NEW f \in Entries, NEW g \in Entries,
                      Present(d2, f), Present(d2, g), f # g
               PROVE  /\ d2.hold[f].entry # d2.hold[g].entry
                      /\ d2.hold[f].run # None => d2.hold[f].run # d2.hold[g].run
    BY DEF RowsApart
  <2>1. CASE f = h BY <1>4, <1>5, <2>1
  <2>2. CASE g = h BY <1>4, <1>5, <2>2
  <2>3. CASE f # h /\ g # h BY <1>4, <2>3 DEF Audit, Store, RowsApart
  <2> QED BY <2>1, <2>2, <2>3
<1>10. RowsOfRuns(d2)
  <2> SUFFICES ASSUME NEW g \in Entries, Present(d2, g), d2.hold[g].run # None
               PROVE  /\ d2.run[d2.hold[g].run].status # "unborn"
                      /\ d2.run[d2.hold[g].run].status = "needs_input" =>
                             d2.hold[g].st = "parked" /\ d2.hold[g].kind = "input"
    BY DEF RowsOfRuns
  <2>1. d2.hold[g].run \in Runs BY RowFacts
  <2>2. CASE g = h
    <3>1. d.run[t.run].status \notin {"unborn", "needs_input"}
      BY <1>5, <2>2 DEF Audit, TurnRun
    <3> QED BY <1>5, <2>1, <2>2, <3>1 DEF HeldTo
  <2>3. CASE g # h
    <3>1. /\ Present(d, g) /\ d2.hold[g] = d.hold[g] /\ d.hold[g].run # t.run
      BY <1>4, <2>3
    <3>2. \/ d2.run[d.hold[g].run].status = d.run[d.hold[g].run].status
          \/ d2.run[d.hold[g].run].status = "awaiting_confirmation"
      BY <2>1, <3>1 DEF HeldTo
    <3> QED BY <3>1, <3>2 DEF Audit, Store, RowsOfRuns
  <2> QED BY <2>2, <2>3
<1>11. Closers(d2)
  <2> SUFFICES ASSUME NEW e \in Entries
               PROVE  /\ d2.obs[e] + d2.inf[e] <= 1
                      /\ e \notin d2.opened => ~hasCloser(d2, e)
    BY DEF Closers
  <2>1. CASE t.op = "provide" /\ e = t.entry
    <3>1. ~hasCloser(d, e) /\ e \in d.opened BY <1>3, <2>1 DEF Owns
    <3>2. d.obs[e] = 0 /\ d.inf[e] = 0 BY <1>1, <3>1 DEF hasCloser
    <3> QED BY <1>7, <2>1, <3>1, <3>2 DEF HeldTo
  <2>2. CASE ~(t.op = "provide" /\ e = t.entry)
    <3>1. d2.obs[e] = d.obs[e] /\ d2.inf[e] = d.inf[e] BY <2>2 DEF HeldTo
    <3> QED BY <1>6, <1>7, <2>2, <3>1 DEF Audit, Store, Closers
  <2> QED BY <2>1, <2>2
<1>12. Sends(d2, rn)
  <2> SUFFICES ASSUME NEW g \in Entries
               PROVE  /\ rn[g] <= 1
                      /\ rn[g] = 1 => g \in d2.opened /\ d2.hold[g].st # "parked"
    BY DEF Sends
  <2>1. rn[g] <= 1 /\ (rn[g] = 1 => g \in d.opened /\ d.hold[g].st # "parked")
    BY DEF Audit, Store, Sends
  <2>2. g # h => d2.hold[g].st = "absent" \/ d2.hold[g] = d.hold[g] BY DEF HeldTo
  <2> QED BY <1>7, <2>1, <2>2
<1>13. Store(d2, rn) BY <1>8, <1>9, <1>10, <1>11, <1>12 DEF Store
<1> QED BY <1>0, <1>13, StoreIdle

\* Park followed by the status the input route writes.
ParkedTo(d, h, row, kind, p) ==
    /\ p \in Database /\ p.opened = d.opened \cup {h} /\ p.inf = d.inf /\ p.obs = d.obs
    /\ p.hold = [g \in Entries |-> IF g = h THEN row ELSE d.hold[g]]
    /\ \A r \in Runs :
          \/ p.run[r].status = d.run[r].status
          \/ r = row.run /\ kind = "input" /\ p.run[r].status = "needs_input"

LEMMA ParkFields ==
    ASSUME NEW d \in Database, NEW h \in Entries, NEW row \in Row
    PROVE  LET p == Park(d, h, row) IN
           /\ p \in Database /\ p.opened = d.opened \cup {h}
           /\ p.inf = d.inf /\ p.obs = d.obs /\ p.run = d.run
           /\ p.hold = [g \in Entries |-> IF g = h THEN row ELSE d.hold[g]]
<1> DEFINE w == WithRow(d, h, row)
           p == [w EXCEPT !.opened = @ \cup {h}]
<1>1. /\ w \in Database /\ w.opened = d.opened /\ w.inf = d.inf /\ w.obs = d.obs
      /\ w.run = d.run /\ w.hold = [g \in Entries |-> IF g = h THEN row ELSE d.hold[g]]
  BY WithRowFields
<1>2. Park(d, h, row) = p BY DEF Park
<1> HIDE DEF w
<1>3. w \in Database BY <1>1
<1>4. p \in Database BY <1>3 DEF Database
<1>5. /\ p.opened = w.opened \cup {h} /\ p.inf = w.inf /\ p.obs = w.obs
      /\ p.run = w.run /\ p.hold = w.hold
  BY <1>3 DEF Database
<1> HIDE DEF p
<1> QED BY <1>1, <1>2, <1>4, <1>5

LEMMA MarkedFields ==
    ASSUME NEW d \in Database, NEW h \in Entries, NEW row \in Row
    PROVE  /\ ParkedTo(d, h, row, "confirmation", Park(d, h, row))
           /\ ParkedTo(d, h, row, "input", markNeedsInput(Park(d, h, row), row.run))
<1> DEFINE p == Park(d, h, row)
           m == markNeedsInput(p, row.run)
<1>1. /\ p \in Database /\ p.opened = d.opened \cup {h}
      /\ p.inf = d.inf /\ p.obs = d.obs /\ p.run = d.run
      /\ p.hold = [g \in Entries |-> IF g = h THEN row ELSE d.hold[g]]
  BY ParkFields
<1> HIDE DEF p
<1>2. "needs_input" \in RunStatus BY DEF RunStatus, NonTerminal
<1>3. /\ m \in Database /\ m.opened = p.opened /\ m.inf = p.inf /\ m.obs = p.obs
      /\ m.hold = p.hold
      /\ \A r \in Runs : m.run[r].status =
            IF r \in {row.run} /\ p.run[r].status \in {"running", "awaiting_confirmation"}
            THEN "needs_input" ELSE p.run[r].status
  <2>1. p \in Database BY <1>1
  <2> QED BY <1>2, <2>1, MoveRunsFields DEF markNeedsInput
<1> HIDE DEF m
<1>4. ParkedTo(d, h, row, "confirmation", p) BY <1>1 DEF ParkedTo
<1>5. ParkedTo(d, h, row, "input", m) BY <1>1, <1>3 DEF ParkedTo
<1> QED BY <1>4, <1>5 DEF p, m

LEMMA HeldDatabaseTo ==
    ASSUME NEW d \in Database, NEW t \in Turn, NEW h \in Entries,
           NEW kind \in {"confirmation", "input"},
           NEW row \in Row, row.st = "parked", row.kind = kind, row.run = t.run,
           row.entry = h, h # t.hold, NEW p, ParkedTo(d, h, row, kind, p)
    PROVE  HeldDatabase(p, t, h) \in Database /\ HeldTo(d, t, h, kind, HeldDatabase(p, t, h))
<1> DEFINE row2 == [p.hold[h] EXCEPT !.direct = (t.op = "direct")]
           kept == WithRow(p, h, row2)
           one == deleteHeldToolCalls(kept, {t.hold})
           two == CloseObserved(kept, t.entry)
           three == deleteHeldToolCalls(two, {t.hold})
           up(x) == updateCommissionStatus(x, t.run, "awaiting_confirmation")
<1>0. p \in Database /\ p.hold[h] = row /\ \A g \in Entries \ {h} : p.hold[g] = d.hold[g]
  BY DEF ParkedTo
<1>1. /\ row2 \in Row /\ row2.st = "parked" /\ row2.kind = kind /\ row2.run = t.run
      /\ row2.entry = h
  BY <1>0 DEF Row
<1>2. \/ t.op = "commission" /\ HeldDatabase(p, t, h) = up(kept)
      \/ t.op = "resolve" /\ HeldDatabase(p, t, h) = up(one)
      \/ t.op = "provide" /\ HeldDatabase(p, t, h) = up(three)
      \/ t.op \notin {"commission", "resolve", "provide"} /\ HeldDatabase(p, t, h) = kept
  BY DEF HeldDatabase
<1> HIDE DEF row2
<1>3. /\ kept \in Database /\ kept.run = p.run /\ kept.opened = p.opened
      /\ kept.obs = p.obs /\ kept.inf = p.inf
      /\ kept.hold = [g \in Entries |-> IF g = h THEN row2 ELSE p.hold[g]]
  BY <1>0, <1>1, WithRowFields
<1> HIDE DEF kept
<1>k. kept \in Database BY <1>3
<1>4. /\ one \in Database /\ one.run = kept.run /\ one.opened = kept.opened
      /\ one.obs = kept.obs /\ one.inf = kept.inf
      /\ one.hold = [g \in Entries |-> IF g \in {t.hold} THEN NoRow ELSE kept.hold[g]]
  BY <1>k, DeleteFields
<1>5. /\ two \in Database /\ two.run = kept.run /\ two.opened = kept.opened
      /\ two.obs = [kept.obs EXCEPT ![t.entry] = @ + 1] /\ two.inf = kept.inf
      /\ two.hold = kept.hold
  BY <1>k, CloseObservedFields
<1> HIDE DEF two
<1>w. two \in Database BY <1>5
<1>6. /\ three \in Database /\ three.run = two.run /\ three.opened = two.opened
      /\ three.obs = two.obs /\ three.inf = two.inf
      /\ three.hold = [g \in Entries |-> IF g \in {t.hold} THEN NoRow ELSE two.hold[g]]
  BY <1>w, DeleteFields
<1> HIDE DEF one, three
<1>7. ASSUME NEW x \in Database
      PROVE  /\ up(x) \in Database /\ up(x).opened = x.opened /\ up(x).obs = x.obs
             /\ up(x).inf = x.inf /\ up(x).hold = x.hold
             /\ \A r \in Runs : \/ up(x).run[r].status = x.run[r].status
                                \/ up(x).run[r].status = "awaiting_confirmation"
  <2>1. "awaiting_confirmation" \in RunStatus BY DEF RunStatus, NonTerminal
  <2> QED BY <2>1, MoveRunsFields DEF updateCommissionStatus
<1> HIDE DEF up
<1>8. CASE t.op = "commission" /\ HeldDatabase(p, t, h) = up(kept)
  <2>1. HeldTo(d, t, h, kind, up(kept))
    BY <1>0, <1>1, <1>3, <1>7, <1>8 DEF HeldTo, ParkedTo
  <2> QED BY <1>3, <1>7, <1>8, <2>1
<1>9. CASE t.op = "resolve" /\ HeldDatabase(p, t, h) = up(one)
  <2>1. HeldTo(d, t, h, kind, up(one))
    BY <1>0, <1>1, <1>3, <1>4, <1>7, <1>9, NoRowAbsent DEF HeldTo, ParkedTo
  <2> QED BY <1>4, <1>7, <1>9, <2>1
<1>10. CASE t.op = "provide" /\ HeldDatabase(p, t, h) = up(three)
  <2>1. \A e \in Entries :
            three.obs[e] = IF e = t.entry THEN d.obs[e] + 1 ELSE d.obs[e]
    <3>1. kept.obs = d.obs /\ d.obs \in [Entries -> Nat] BY <1>3, Fields DEF ParkedTo
    <3> QED BY <1>5, <1>6, <3>1
  <2>2. \A g \in Entries : g # h =>
            IF g = t.hold THEN three.hold[g].st = "absent" ELSE three.hold[g] = d.hold[g]
    BY <1>0, <1>3, <1>5, <1>6, NoRowAbsent
  <2>3. three.hold[h] = row2 BY <1>3, <1>5, <1>6
  <2>4. three.opened = d.opened \cup {h} /\ three.inf = d.inf /\ three.run = p.run
    BY <1>3, <1>5, <1>6 DEF ParkedTo
  <2>5. HeldTo(d, t, h, kind, up(three))
    BY <1>1, <1>6, <1>7, <1>10, <2>1, <2>2, <2>3, <2>4 DEF HeldTo, ParkedTo
  <2> QED BY <1>6, <1>7, <1>10, <2>5
<1>11. CASE t.op \notin {"commission", "resolve", "provide"} /\ HeldDatabase(p, t, h) = kept
  <2>1. HeldTo(d, t, h, kind, kept)
    BY <1>0, <1>1, <1>3, <1>11 DEF HeldTo, ParkedTo
  <2> QED BY <1>3, <1>11, <2>1
<1> QED BY <1>2, <1>8, <1>9, <1>10, <1>11

LEMMA EndHeldAudit ==
    ASSUME NEW d, NEW t, NEW rn, Audit(d, t, rn), t.pc # "idle",
           NEW h \in Entries, h \notin d.opened,
           NEW kind \in {"confirmation", "input"},
           NEW row \in Row, row.st = "parked", row.kind = kind, row.run = t.run,
           row.entry = h, NEW p, ParkedTo(d, h, row, kind, p), EndHeld(p, t, h)
    PROVE  Audit(db', turn', rn)
<1>1. d \in Database /\ t \in Turn BY DEF Audit
<1>2. h # t.hold BY NoneFacts DEF Audit, TurnRun
<1>3. HeldDatabase(p, t, h) \in Database /\ HeldTo(d, t, h, kind, HeldDatabase(p, t, h))
  BY <1>1, <1>2, HeldDatabaseTo
<1>4. Audit(HeldDatabase(p, t, h), Idle, rn) BY <1>3, HeldStore
<1> QED BY <1>4 DEF EndHeld

LEMMA NewRowFields ==
    ASSUME NEW t \in Turn, t.tool \in Tools, t.sess \in Sessions, NEW h \in Entries,
           NEW kind \in {"confirmation", "input"}, NEW spend \in BOOLEAN
    PROVE  LET row == NewRow(t, h, kind, spend) IN
           /\ row \in Row /\ row.st = "parked" /\ row.kind = kind
           /\ row.run = t.run /\ row.entry = h
BY DEF NewRow, Row, Turn

LEMMA DecideAudit ==
    ASSUME NEW d, NEW t, Audit(d, t, ran), t.pc \in {"llm", "scopes"},
           t.tool \in Tools, t.sess \in Sessions, Decide(d, t)
    PROVE  Audit(db', turn', ran')
<1>0. d \in Database /\ t \in Turn /\ ran \in [Entries -> Nat] BY DEF Audit
<1>1. ASSUME NEW h \in Entries \ d.opened,
             EndHeld(Park(d, h, NewRow(t, h, "confirmation", Granted(d, t))), t, h),
             UNCHANGED ran
      PROVE  Audit(db', turn', ran')
  <2> DEFINE row == NewRow(t, h, "confirmation", Granted(d, t))
             p == Park(d, h, row)
  <2>1. Granted(d, t) \in BOOLEAN BY DEF Granted
  <2>2. /\ row \in Row /\ row.st = "parked" /\ row.kind = "confirmation"
        /\ row.run = t.run /\ row.entry = h
    BY <1>0, <2>1, NewRowFields
  <2> HIDE DEF row
  <2>3. ParkedTo(d, h, row, "confirmation", p) BY <1>0, <2>2, MarkedFields
  <2>4. EndHeld(p, t, h) BY <1>1 DEF row
  <2> HIDE DEF p
  <2>5. Audit(db', turn', ran) BY <2>2, <2>3, <2>4, EndHeldAudit
  <2> QED BY <1>1, <2>5
<1>2. ASSUME db' = d, turn' = [t EXCEPT !.pc = "tool"],
             ran' = IF t.op = "provide" THEN [ran EXCEPT ![t.hold] = @ + 1] ELSE ran
      PROVE  Audit(db', turn', ran')
  <2> DEFINE u == [t EXCEPT !.pc = "tool"]
  <2>1. /\ u \in Turn /\ u.run = t.run /\ u.pc = "tool" /\ u.op = t.op
        /\ u.hold = t.hold /\ u.entry = t.entry
    BY <1>0 DEF Turn
  <2>2. turn' = u BY <1>2
  <2> HIDE DEF u
  <2>3. TurnRun(d, u) BY <2>1 DEF Audit, TurnRun
  <2>4. \A rn : TurnOwns(d, u, rn) BY <2>1 DEF Audit, TurnOwns
  <2>5. ran' \in [Entries -> Nat] /\ Sends(d, ran')
    <3>1. CASE t.op # "provide" BY <1>0, <1>2, <3>1 DEF Audit, Store
    <3>2. CASE t.op = "provide"
      <4>1. /\ t.hold \in Entries /\ ran[t.hold] = 0 /\ t.hold \in d.opened
            /\ d.hold[t.hold].st # "parked"
        BY <3>2, NoneFacts DEF Audit, TurnOwns, Owns, TurnRun
      <4>2. /\ ran' \in [Entries -> Nat] /\ ran'[t.hold] = 1
            /\ \A g \in Entries \ {t.hold} : ran'[g] = ran[g]
        BY <1>0, <1>2, <3>2, <4>1
      <4> QED BY <4>1, <4>2 DEF Audit, Store, Sends
    <3> QED BY <3>1, <3>2
  <2> QED BY <1>0, <1>2, <2>1, <2>2, <2>3, <2>4, <2>5 DEF Audit, Store
<1> QED BY <1>1, <1>2 DEF Decide

LEMMA SeverAudit ==
    ASSUME NEW d, NEW t, NEW rn, Audit(d, t, rn), NEW d0, NEW d1
    PROVE  Audit(d, Sever(t, d0, d1), rn)
<1> DEFINE b == t.severed \/ (t.pc # "idle" /\ d1.sess # d0.sess)
           u == [t EXCEPT !.severed = b]
<1>1. b \in BOOLEAN /\ Sever(t, d0, d1) = u BY DEF Sever
<1> HIDE DEF b
<1>2. /\ u \in Turn /\ u.pc = t.pc /\ u.op = t.op /\ u.run = t.run
      /\ u.hold = t.hold /\ u.entry = t.entry
  BY <1>1 DEF Audit, Turn
<1> HIDE DEF u
<1> QED BY <1>1, <1>2, AuditTurn

LEMMA ExecuteToolAudit ==
    ASSUME NEW d0, NEW t0, Audit(d0, t0, ran), t0.pc = "llm", NEW tool \in Tools,
           "split_close" \notin Faults, ExecuteTool(d0, t0, tool)
    PROVE  Audit(db', turn', ran')
<1> DEFINE d1 == Reaped(d0)
           v == Sever(t0, d0, d1)
<1>1. Audit(d1, t0, ran) BY ReapedAudit
<1>2. Audit(d1, v, ran) /\ v.pc = "llm"
  <2>1. v.pc = t0.pc BY SeverType DEF Audit
  <2> QED BY <1>1, <2>1, SeverAudit
<1> DEFINE D(s) == resolveActiveSession(d1, s)
           T(s) == [v EXCEPT !.tool = tool, !.sess = s]
<1>3. PICK s \in ActiveCandidates(d1) :
          \/ /\ \E h \in Entries \ D(s).opened :
                   EndHeld(markNeedsInput(Park(D(s), h, NewRow(T(s), h, "input", FALSE)),
                                          T(s).run), T(s), h)
             /\ UNCHANGED ran
          \/ ToolAnswered(D(s), T(s)) /\ UNCHANGED ran
          \/ /\ db' = D(s) /\ turn' = [T(s) EXCEPT !.pc = "scopes"]
             /\ UNCHANGED <<orphan, ran>>
          \/ Decide(D(s), T(s))
  BY DEF ExecuteTool
<1> HIDE DEF d1, v
<1>4. s \in Sessions BY DEF ActiveCandidates, selectOpenSessions
<1> DEFINE d == D(s)
           t == T(s)
<1>5. /\ t \in Turn /\ t.tool = tool /\ t.sess = s /\ t.run = v.run /\ t.pc = "llm"
      /\ t.op = v.op /\ t.hold = v.hold /\ t.entry = v.entry
  <2>1. v \in Turn /\ v.pc = "llm" BY <1>2 DEF Audit
  <2> QED BY <1>4, <2>1 DEF Turn
<1>6. Audit(d, v, ran) BY <1>2, <1>4, ResolveSessionAudit
<1> HIDE DEF D, T
<1>7. Audit(d, t, ran)
  <2> HIDE DEF d, t
  <2> QED BY <1>2, <1>5, <1>6, AuditTurn
<1>8. d \in Database BY <1>7 DEF Audit
<1>9. ASSUME NEW h \in Entries \ d.opened, UNCHANGED ran,
             EndHeld(markNeedsInput(Park(d, h, NewRow(t, h, "input", FALSE)), t.run), t, h)
      PROVE  Audit(db', turn', ran')
  <2> DEFINE row == NewRow(t, h, "input", FALSE)
             m == markNeedsInput(Park(d, h, row), row.run)
  <2>1. /\ row \in Row /\ row.st = "parked" /\ row.kind = "input"
        /\ row.run = t.run /\ row.entry = h
    BY <1>4, <1>5, NewRowFields
  <2> HIDE DEF row
  <2>2. ParkedTo(d, h, row, "input", m) BY <1>8, <2>1, MarkedFields
  <2>3. EndHeld(m, t, h) BY <1>9, <2>1 DEF row
  <2> HIDE DEF m, d, t
  <2>4. Audit(db', turn', ran) BY <1>5, <1>7, <2>1, <2>2, <2>3, EndHeldAudit
  <2> QED BY <1>9, <2>4
<1>10. ASSUME ToolAnswered(d, t), UNCHANGED ran PROVE Audit(db', turn', ran')
  BY <1>5, <1>7, <1>10, ToolAnsweredAudit
<1>11. ASSUME db' = d, turn' = [t EXCEPT !.pc = "scopes"], UNCHANGED ran
       PROVE  Audit(db', turn', ran')
  <2> DEFINE u == [t EXCEPT !.pc = "scopes"]
  <2>1. /\ u \in Turn /\ u.run = t.run /\ u.pc = "scopes" /\ u.op = t.op
        /\ u.hold = t.hold /\ u.entry = t.entry
    BY <1>5 DEF Turn
  <2> HIDE DEF u, t, d
  <2>2. Audit(d, u, ran) BY <1>5, <1>7, <2>1 DEF Audit, TurnOwns, TurnRun
  <2> QED BY <1>11, <2>2 DEF u
<1>12. ASSUME Decide(d, t) PROVE Audit(db', turn', ran')
  BY <1>4, <1>5, <1>7, <1>12, DecideAudit
<1> QED BY <1>3, <1>9, <1>10, <1>11, <1>12

-----------------------------------------------------------------------------
(* The actions.                                                            *)

AuditInv == IInv /\ Audit(db, turn, ran)

\* The two conditions: no crash between a closer and its row, and no input
\* hold answered through the confirmation route.
Undisturbed == "split_close" \notin Faults /\ AnswersInput = FALSE

LEMMA HealAudit ==
    ASSUME NEW d, NEW rn, Audit(d, Idle, rn)
    PROVE  Audit(healCrashedDispatchHolds(d), Idle, rn)
<1> DEFINE H == {h \in UnresolvedHuman(d) : d.hold[h].st = "dispatched"}
           E == {d.hold[h].entry : h \in H}
           x == deleteHeldToolCalls(d, H)
           f == [e \in Entries |-> IF e \in E THEN d.obs[e] + 1 ELSE d.obs[e]]
           d2 == [x EXCEPT !.obs = f]
<1>0. d \in Database BY DEF Audit
<1>1. f \in [Entries -> Nat] BY <1>0, Fields
<1>2. healCrashedDispatchHolds(d) = d2 BY DEF healCrashedDispatchHolds
<1>3. /\ x \in Database
      /\ x.hold = [h \in Entries |-> IF h \in H THEN NoRow ELSE d.hold[h]]
      /\ x.inf = d.inf /\ x.run = d.run /\ x.opened = d.opened
  BY <1>0, DeleteFields
<1>4. Audit(x, Idle, rn) BY DeleteAudit
<1>5. \A h \in H : h \in Entries /\ Present(d, h) /\ d.hold[h].st = "dispatched"
  BY DEF UnresolvedHuman, selectHeldCalls, Present
<1>6. ASSUME NEW e \in E PROVE e \in d.opened /\ ~hasCloser(d, e)
  BY <1>5 DEF Audit, Store, RowsOpen
<1>7. \A g \in Entries : Present(x, g) => g \notin H /\ d.hold[g] = x.hold[g]
  BY <1>3, NoRowAbsent DEF Present
<1>8. \A g \in Entries : Present(x, g) => d.hold[g].entry \notin E
  BY <1>5, <1>7 DEF Audit, Store, RowsApart, Present
<1> HIDE DEF H, E, x
<1>9. x \in Database BY <1>3
<1>10. f = [e \in Entries |-> IF e \in E THEN d.obs[e] + 1 ELSE d.obs[e]] OBVIOUS
<1> HIDE DEF f
<1>11. /\ d2 \in Database /\ d2.obs = f /\ d2.inf = x.inf /\ d2.hold = x.hold
       /\ d2.run = x.run /\ d2.opened = x.opened
  BY <1>1, <1>9 DEF Database
<1> HIDE DEF d2
<1>12. \A e \in Entries : d.obs[e] \in Nat /\ d.inf[e] \in Nat BY <1>0, RowFacts
<1>13. \A e \in Entries : Present(d2, e) <=> Present(x, e) BY <1>11 DEF Present
<1>14. \A e \in Entries : e \notin E => (hasCloser(d2, e) <=> hasCloser(d, e))
  BY <1>3, <1>10, <1>11 DEF hasCloser
<1>15. RowsOpen(d2)
  <2> SUFFICES ASSUME NEW g \in Entries, Present(d2, g)
               PROVE  /\ g \in d2.opened /\ d2.hold[g].entry \in d2.opened
                      /\ d2.hold[g].st # "answered" => ~hasCloser(d2, d2.hold[g].entry)
    BY DEF RowsOpen
  <2>1. /\ Present(x, g) /\ d2.hold[g] = d.hold[g] /\ d.hold[g].entry \notin E
        /\ d2.opened = d.opened
    BY <1>3, <1>7, <1>8, <1>11, <1>13
  <2>2. Present(d, g) BY <2>1 DEF Present, Audit
  <2>3. d.hold[g].entry \in Entries
    BY <1>0, <2>2, Fields DEF Audit, Store, RowsOpen
  <2> QED BY <1>14, <2>1, <2>2, <2>3 DEF Audit, Store, RowsOpen
<1>16. RowsApart(d2) BY <1>4, <1>11, <1>13 DEF Audit, Store, RowsApart
<1>17. RowsOfRuns(d2) BY <1>4, <1>11, <1>13 DEF Audit, Store, RowsOfRuns
<1>18. Closers(d2)
  <2> SUFFICES ASSUME NEW e \in Entries
               PROVE  /\ d2.obs[e] + d2.inf[e] <= 1
                      /\ e \notin d2.opened => ~hasCloser(d2, e)
    BY DEF Closers
  <2>1. CASE e \in E
    <3>1. e \in d.opened /\ d.obs[e] = 0 /\ d.inf[e] = 0
      BY <1>6, <1>12, <2>1 DEF hasCloser
    <3> QED BY <1>3, <1>10, <1>11, <2>1, <3>1
  <2>2. CASE e \notin E
    BY <1>3, <1>10, <1>11, <1>14, <2>2 DEF Audit, Store, Closers
  <2> QED BY <2>1, <2>2
<1>19. Sends(d2, rn) BY <1>4, <1>11 DEF Audit, Store, Sends
<1>20. Store(d2, rn) BY <1>15, <1>16, <1>17, <1>18, <1>19 DEF Store
<1>21. rn \in [Entries -> Nat] BY DEF Audit
<1> QED BY <1>2, <1>11, <1>20, <1>21, StoreIdle

\* A turn that starts with no task and no row to resolve.
LEMMA FreshTurn ==
    ASSUME NEW d, NEW rn, Audit(d, Idle, rn), NEW op \in {"chat", "direct"}
    PROVE  Audit(d, LoopTurn(op, None), rn)
<1> DEFINE t == LoopTurn(op, None)
<1>1. t \in Turn /\ t.pc = "llm" /\ t.op = op /\ t.run = None /\ t.hold = None
      /\ t.entry = None
  BY DEF LoopTurn, Idle, Turn
<1> HIDE DEF t
<1>2. Audit(d, t, rn) BY <1>1 DEF Audit, TurnOwns, TurnRun
<1> QED BY <1>2 DEF t

LEMMA ChatAudit == ASSUME AuditInv, Chat PROVE Audit(db', turn', ran')
<1> DEFINE d0 == Reaped(db)
           d1 == healCrashedDispatchHolds(d0)
           d2 == repairOrphanedToolUse(d1)
<1>0. Audit(db, Idle, ran) BY AuditIdle DEF AuditInv
<1>1. Audit(d0, Idle, ran) BY <1>0, ReapedAudit
<1>2. Audit(d1, Idle, ran) BY <1>1, HealAudit
<1>3. /\ \/ db' = d1 /\ UNCHANGED <<turn, orphan>>
         \/ /\ \E s \in ActiveCandidates(d2) : db' = resolveActiveSession(d2, s)
            /\ turn' = LoopTurn("chat", None)
      /\ ran' = ran /\ turn.pc = "idle"
  BY DEF Chat
<1> HIDE DEF d1
<1>4. Audit(d2, Idle, ran) BY <1>2, DeleteAudit DEF repairOrphanedToolUse
<1> HIDE DEF d2
<1>5. CASE db' = d1 /\ UNCHANGED <<turn, orphan>>
  <2>1. turn \in Turn /\ turn.entry = None BY <1>3 DEF AuditInv, Audit, TurnOwns
  <2>2. Audit(d1, turn, ran) BY <1>2, <1>3, <2>1, IdleAny
  <2> QED BY <1>3, <1>5, <2>2
<1>6. CASE /\ \E s \in ActiveCandidates(d2) : db' = resolveActiveSession(d2, s)
           /\ turn' = LoopTurn("chat", None)
  <2>1. PICK s \in ActiveCandidates(d2) : db' = resolveActiveSession(d2, s) BY <1>6
  <2>2. s \in Sessions BY DEF ActiveCandidates, selectOpenSessions
  <2>3. Audit(db', Idle, ran) BY <1>4, <2>1, <2>2, ResolveSessionAudit
  <2> QED BY <1>3, <1>6, <2>3, FreshTurn
<1> QED BY <1>3, <1>5, <1>6

LEMMA CommissionAudit ==
    ASSUME AuditInv, NEW r \in Runs, NEW slot \in BOOLEAN, CommissionGoal(r, slot)
    PROVE  Audit(db', turn', ran')
<1> DEFINE d0 == Reaped(db)
           d1 == RepairRuns(d0, Runs)
           X == {q \in Runs : d0.run[q].status # "running" /\ d0.run[q].sess # None
                              /\ d0.sess[d0.run[q].sess] = "ended"}
           d == expireRuns(d1, X)
<1>1. Good(d0) /\ Frozen(db, d0) BY ReapedGood DEF AuditInv, IInv, CoreInv
<1>2. Audit(d0, turn, ran) BY ReapedAudit DEF AuditInv
<1>3. /\ db.run[r].status = "unborn" /\ ran' = ran
      /\ \/ db' = d /\ UNCHANGED turn
         \/ /\ \E s \in ActiveCandidates(d) :
                  db' = insertCommissionRun(resolveActiveSession(d, s), r, s, slot)
            /\ turn' = LoopTurn("commission", r)
  BY DEF CommissionGoal, ReconciledRuns
<1> HIDE DEF d0
<1>4. Good(d1) /\ Frozen(d0, d1) /\ Audit(d1, turn, ran)
  BY <1>1, <1>2, RepairRunsGood, RepairRunsAudit
<1> HIDE DEF d1, X
<1>5. Good(d) /\ Frozen(d1, d) /\ Audit(d, turn, ran)
  BY <1>4, ExpireRunsGood, ExpireRunsAudit
<1> HIDE DEF d
<1>6. Frozen(db, d) BY <1>1, <1>4, <1>5, FrozenTrans
<1>7. CASE db' = d /\ UNCHANGED turn BY <1>3, <1>5, <1>7
<1>8. CASE /\ \E s \in ActiveCandidates(d) :
                  db' = insertCommissionRun(resolveActiveSession(d, s), r, s, slot)
           /\ turn' = LoopTurn("commission", r)
  <2>1. PICK s \in ActiveCandidates(d) :
            db' = insertCommissionRun(resolveActiveSession(d, s), r, s, slot)
    BY <1>8
  <2> DEFINE e == resolveActiveSession(d, s)
             row == [status |-> "running", sess |-> s, slot |-> slot]
             f == [e.run EXCEPT ![r] = row]
             t == LoopTurn("commission", r)
  <2>2. Good(e) /\ Frozen(d, e) /\ s \in Sessions BY <1>5, ResolveSessionGood
  <2>3. Audit(e, Idle, ran) BY <1>5, <2>2, AuditIdle, ResolveSessionAudit
  <2>4. db' = [e EXCEPT !.run = f] BY <2>1 DEF insertCommissionRun
  <2> HIDE DEF e
  <2>5. e \in Database BY <2>2 DEF Good
  <2>6. row \in RunRow /\ row.status = "running"
    BY <2>2 DEF RunRow, RunStatus, NonTerminal
  <2> HIDE DEF row
  <2>7. f \in [Runs -> RunRow] /\ f[r] = row /\ \A q \in Runs \ {r} : f[q] = e.run[q]
    BY <2>5, <2>6, Fields
  <2> HIDE DEF f
  <2>8. /\ db' \in Database /\ db'.run = f /\ db'.hold = e.hold /\ db'.opened = e.opened
        /\ db'.obs = e.obs /\ db'.inf = e.inf
    <3>1. [e EXCEPT !.run = f] \in Database BY <2>5, <2>7 DEF Database, RunRow
    <3> QED BY <2>4, <2>5, <3>1 DEF Database
  <2>9. Audit(db', Idle, ran) BY <2>3, <2>6, <2>7, <2>8, AuditRuns
  <2>10. e.run[r].status = "unborn"
    BY <1>3, <1>6, <2>2, StatusFacts DEF Frozen
  <2>11. \A h \in Entries : Present(db', h) => db'.hold[h].run # r
    BY <2>3, <2>8, <2>10, NoneFacts DEF Audit, Store, RowsOfRuns, Present
  <2>12. /\ t \in Turn /\ t.pc = "llm" /\ t.op = "commission" /\ t.run = r
         /\ t.hold = None /\ t.entry = None
    BY DEF LoopTurn, Idle, Turn
  <2>13. turn' = t BY <1>8
  <2> HIDE DEF t
  <2>14. TurnRun(db', t) BY <2>6, <2>7, <2>8, <2>11, <2>12 DEF TurnRun
  <2>15. TurnOwns(db', t, ran) BY <2>12 DEF TurnOwns
  <2> QED BY <1>3, <2>9, <2>12, <2>13, <2>14, <2>15 DEF Audit
<1> QED BY <1>3, <1>7, <1>8

LEMMA DirectAudit ==
    ASSUME AuditInv, Undisturbed, NEW tool \in Tools, executeToolDirect(tool)
    PROVE  Audit(db', turn', ran')
<1> DEFINE t == LoopTurn("direct", None)
<1>1. Audit(db, t, ran) BY AuditIdle, FreshTurn DEF AuditInv
<1>2. t.pc = "llm" BY LoopTurnGood
<1>3. ExecuteTool(db, t, tool) BY DEF executeToolDirect
<1> HIDE DEF t
<1> QED BY <1>1, <1>2, <1>3, ExecuteToolAudit DEF Undisturbed

LEMMA LoopCallsToolAudit ==
    ASSUME AuditInv, Undisturbed, NEW tool \in Tools, LoopCallsTool(tool)
    PROVE  Audit(db', turn', ran')
<1> DEFINE t == [turn EXCEPT !.calls = @ + 1]
<1>1. /\ t \in Turn /\ t.pc = turn.pc /\ t.op = turn.op /\ t.run = turn.run
      /\ t.hold = turn.hold /\ t.entry = turn.entry
  BY DEF AuditInv, Audit, Turn
<1>2. ExecuteTool(db, t, tool) /\ turn.pc = "llm" BY DEF LoopCallsTool
<1> HIDE DEF t
<1>3. Audit(db, t, ran) BY <1>1, AuditTurn DEF AuditInv
<1> QED BY <1>1, <1>2, <1>3, ExecuteToolAudit DEF Undisturbed

LEMMA LoopFinishesAudit == ASSUME AuditInv, LoopFinishes PROVE Audit(db', turn', ran')
<1>1. Audit(db, Idle, ran) BY AuditIdle DEF AuditInv
<1>2. Audit(db', turn', ran) BY <1>1, EndFinishedAudit DEF LoopFinishes
<1> QED BY <1>2 DEF LoopFinishes

LEMMA LoopThrowsAudit == ASSUME AuditInv, LoopThrows PROVE Audit(db', turn', ran')
<1>1. Audit(db, Idle, ran) BY AuditIdle DEF AuditInv
<1>2. Audit(updateCommissionStatus(db, turn.run, "failed"), Idle, ran)
  BY <1>1, UpdateStatusAudit
<1> QED BY <1>1, <1>2 DEF LoopThrows

LEMMA ScopesReadAudit ==
    ASSUME AuditInv, Undisturbed, ScopesRead PROVE Audit(db', turn', ran')
<1>1. turn.tool \in Tools /\ turn.sess \in Sessions /\ turn.pc = "scopes"
  BY DEF ScopesRead, AuditInv, IInv, CoreInv, GoodTurn
<1>2. CASE ToolAnswered(db, turn) /\ UNCHANGED ran
  BY <1>1, <1>2, ToolAnsweredAudit DEF AuditInv, Undisturbed
<1>3. CASE Decide(db, turn) BY <1>1, <1>3, DecideAudit DEF AuditInv
<1> QED BY <1>2, <1>3 DEF ScopesRead

LEMMA ToolReturnsAudit ==
    ASSUME AuditInv, Undisturbed, ToolReturns PROVE Audit(db', turn', ran')
<1>1. turn.pc # "idle" /\ ToolAnswered(db, turn) /\ ran' = ran BY DEF ToolReturns
<1> QED BY <1>1, ToolAnsweredAudit DEF AuditInv, Undisturbed

\* The turn that resolves a row that is not an open input hold.
LEMMA ResolveTurnAudit ==
    ASSUME AuditInv, NEW h \in Entries, Present(db, h),
           db.hold[h].st = "parked" => db.hold[h].kind # "input"
    PROVE  LET t == ResolveTurn(h) IN
           /\ t \in Turn /\ t.pc = "llm" /\ t.op = "resolve" /\ t.run = db.hold[h].run
           /\ t.hold = h /\ t.entry = db.hold[h].entry
           /\ TurnRun(db, t)
           /\ db.hold[h].st # "answered" => Owns(db, h, db.hold[h].entry)
           /\ db.hold[h].run # None => db.run[db.hold[h].run].status # "needs_input"
<1>0. db \in Database BY DEF AuditInv, Audit
<1>1. db.hold[h] \in Row BY <1>0, Fields
<1> DEFINE t == ResolveTurn(h)
           u == LoopTurn("resolve", db.hold[h].run)
<1>2. u \in Turn /\ u.pc = "llm" /\ u.op = "resolve" /\ u.run = db.hold[h].run
  BY <1>1 DEF LoopTurn, Idle, Turn, Row
<1>3. t = [u EXCEPT !.hold = h, !.entry = db.hold[h].entry,
                    !.direct = db.hold[h].direct, !.tool = db.hold[h].tool]
  BY DEF ResolveTurn
<1> HIDE DEF u
<1>4. /\ t \in Turn /\ t.pc = "llm" /\ t.op = "resolve" /\ t.run = db.hold[h].run
      /\ t.hold = h /\ t.entry = db.hold[h].entry
  BY <1>1, <1>2, <1>3 DEF Turn, Row
<1> HIDE DEF t
<1>5. db.hold[h].run # None =>
          db.run[db.hold[h].run].status \notin {"unborn", "needs_input"}
  BY DEF AuditInv, Audit, Store, RowsOfRuns
<1>6. \A g \in Entries : Present(db, g) /\ g # h =>
          /\ db.hold[h].entry # db.hold[g].entry
          /\ db.hold[h].run # None => db.hold[h].run # db.hold[g].run
  BY DEF AuditInv, Audit, Store, RowsApart
<1>7. TurnRun(db, t)
  BY <1>4, <1>5, <1>6 DEF TurnRun, AuditInv, Audit, Store, RowsOpen
<1>8. db.hold[h].st # "answered" => Owns(db, h, db.hold[h].entry)
  BY <1>6 DEF Owns, AuditInv, Audit, Store, RowsOpen
<1> QED BY <1>4, <1>5, <1>7, <1>8 DEF t

LEMMA ResolveAnsweredAudit ==
    ASSUME AuditInv, NEW h \in Entries, ResolveAnswered(h) PROVE Audit(db', turn', ran')
<1>1. /\ Present(db, h) /\ db.hold[h].st # "parked" /\ ran' = ran
      /\ Resume(db, ResolveTurn(h))
  BY DEF ResolveAnswered, Loadable, Present
<1> DEFINE t == ResolveTurn(h)
<1>2. t \in Turn /\ t.pc = "llm" /\ t.op = "resolve" /\ TurnRun(db, t)
  BY <1>1, ResolveTurnAudit
<1> HIDE DEF t
<1>3. Audit(db', turn', ran)
  BY <1>1, <1>2, ResumeAudit DEF AuditInv, Audit, t
<1> QED BY <1>1, <1>3

\* Deny, and the recovery of a dispatched row, close the entry and resume.
LEMMA CloseRowAudit ==
    ASSUME AuditInv, NEW h \in Entries, Present(db, h), db.hold[h].st # "answered",
           db.hold[h].st = "parked" => db.hold[h].kind # "input",
           Resume(SetTurnState(CloseObserved(db, db.hold[h].entry), h, "answered"),
                  ResolveTurn(h))
    PROVE  Audit(db', turn', ran)
<1> DEFINE t == ResolveTurn(h)
           e == db.hold[h].entry
<1>1. /\ t \in Turn /\ t.pc = "llm" /\ t.op = "resolve" /\ TurnRun(db, t)
      /\ Owns(db, h, e)
      /\ db.hold[h].run # None => db.run[db.hold[h].run].status # "needs_input"
  BY ResolveTurnAudit
<1>2. Resume(SetTurnState(CloseObserved(db, e), h, "answered"), t) OBVIOUS
<1> HIDE DEF t, e
<1> QED BY <1>1, <1>2, AnswerAudit DEF AuditInv, Audit

LEMMA ResolveDispatchedAudit ==
    ASSUME AuditInv, NEW h \in Entries, ResolveDispatched(h) PROVE Audit(db', turn', ran')
<1>1. /\ Present(db, h) /\ db.hold[h].st = "dispatched" /\ ran' = ran
      /\ Resume(SetTurnState(CloseObserved(db, db.hold[h].entry), h, "answered"),
                ResolveTurn(h))
  BY DEF ResolveDispatched, Loadable, Present
<1> QED BY <1>1, CloseRowAudit

LEMMA ResolveDenyAudit ==
    ASSUME AuditInv, Undisturbed, NEW h \in Entries, ResolveDeny(h)
    PROVE  Audit(db', turn', ran')
<1>1. /\ Present(db, h) /\ db.hold[h].st = "parked" /\ db.hold[h].kind # "input"
      /\ ran' = ran
      /\ Resume(SetTurnState(CloseObserved(db, db.hold[h].entry), h, "answered"),
                ResolveTurn(h))
  BY DEF ResolveDeny, Answerable, Loadable, Present, FaultAfterClose, Undisturbed
<1> QED BY <1>1, CloseRowAudit

LEMMA HeldCallReturnsAudit ==
    ASSUME AuditInv, HeldCallReturns PROVE Audit(db', turn', ran')
<1>1. /\ turn.op = "resolve" /\ Owns(db, turn.hold, turn.entry)
      /\ db.hold[turn.hold].st \in {"absent", "dispatched"}
      /\ Store(db, ran) /\ TurnRun(db, turn) /\ turn.pc # "idle" /\ ran' = ran
      /\ turn \in Turn /\ db \in Database /\ ran \in [Entries -> Nat]
  BY DEF HeldCallReturns, AuditInv, Audit, TurnOwns
<1>2. Present(db, turn.hold) /\ db.hold[turn.hold].run # None =>
          db.run[db.hold[turn.hold].run].status # "needs_input"
  BY <1>1 DEF Store, RowsOfRuns, Owns
<1>3. Audit(db', turn', ran) BY <1>1, <1>2, AnswerAudit DEF HeldCallReturns
<1> QED BY <1>1, <1>3

LEMMA ReholdAudit ==
    ASSUME NEW d, NEW rn, Audit(d, Idle, rn), NEW h \in Entries, NEW e \in Entries,
           d.hold[h].st = "parked", e \notin d.opened
    PROVE  Audit(reholdForSpend(d, h, e), Idle, rn)
<1> DEFINE old == d.hold[h].entry
           c == CloseObserved(d, old)
           row == [d.hold[h] EXCEPT !.entry = e, !.spend = TRUE]
           w == WithRow(c, h, row)
           d2 == [w EXCEPT !.opened = @ \cup {e}]
<1>0. d \in Database /\ rn \in [Entries -> Nat] BY DEF Audit
<1>1. d.hold[h] \in Row BY <1>0, Fields
<1>2. /\ row \in Row /\ row.st = "parked" /\ row.entry = e
      /\ row.run = d.hold[h].run /\ row.kind = d.hold[h].kind
  BY <1>1 DEF Row
<1>3. reholdForSpend(d, h, e) = d2 BY DEF reholdForSpend
<1>4. /\ c \in Database /\ c.obs = [d.obs EXCEPT ![old] = @ + 1] /\ c.inf = d.inf
      /\ c.run = d.run /\ c.hold = d.hold /\ c.opened = d.opened
  BY <1>0, CloseObservedFields
<1>5. c \in Database BY <1>4
<1> HIDE DEF row, c
<1>6. /\ w \in Database /\ w.run = c.run /\ w.opened = c.opened /\ w.obs = c.obs
      /\ w.inf = c.inf /\ w.hold = [g \in Entries |-> IF g = h THEN row ELSE c.hold[g]]
  BY <1>2, <1>5, WithRowFields
<1>7. w \in Database BY <1>6
<1> HIDE DEF w
<1>8. d2 \in Database BY <1>7 DEF Database
<1>9. /\ d2.opened = w.opened \cup {e} /\ d2.run = w.run /\ d2.obs = w.obs
      /\ d2.inf = w.inf /\ d2.hold = w.hold
  BY <1>7 DEF Database
<1> HIDE DEF d2
<1>10. Present(d, h) /\ old \in d.opened /\ ~hasCloser(d, old) /\ h \in d.opened
       /\ old \in Entries
  BY <1>0, Fields DEF Audit, Store, RowsOpen, Present
<1>11. \A x \in Entries : /\ d.obs[x] \in Nat /\ d.inf[x] \in Nat
                          /\ d2.obs[x] = IF x = old THEN d.obs[x] + 1 ELSE d.obs[x]
                          /\ d2.inf[x] = d.inf[x]
  <2>1. d.obs \in [Entries -> Nat] /\ d.inf \in [Entries -> Nat] BY <1>0, Fields
  <2>2. d2.obs = [d.obs EXCEPT ![old] = @ + 1] /\ d2.inf = d.inf
    BY <1>4, <1>6, <1>9
  <2> QED BY <2>1, <2>2
<1>12. /\ d2.hold[h] = row /\ \A g \in Entries \ {h} : d2.hold[g] = d.hold[g]
       /\ d2.opened = d.opened \cup {e} /\ d2.run = d.run
  BY <1>4, <1>6, <1>9
<1> HIDE DEF old
<1>13. \A x \in Entries \ {old} : hasCloser(d2, x) <=> hasCloser(d, x)
  BY <1>11 DEF hasCloser
<1>14. RowsOpen(d2)
  <2> SUFFICES ASSUME NEW g \in Entries, Present(d2, g)
               PROVE  /\ g \in d2.opened /\ d2.hold[g].entry \in d2.opened
                      /\ d2.hold[g].st # "answered" => ~hasCloser(d2, d2.hold[g].entry)
    BY DEF RowsOpen
  <2>1. CASE g = h
    <3>1. ~hasCloser(d2, e) BY <1>10, <1>13 DEF Audit, Store, Closers
    <3> QED BY <1>2, <1>10, <1>12, <2>1, <3>1
  <2>2. CASE g # h
    <3>1. Present(d, g) /\ d2.hold[g] = d.hold[g] BY <1>12, <2>2 DEF Present
    <3>2. d.hold[g].entry # old
      BY <1>10, <2>2, <3>1 DEF Audit, Store, RowsApart, old
    <3>3. d.hold[g].entry \in d.opened /\ d.hold[g].entry \in Entries
      BY <1>0, <3>1, Fields DEF Audit, Store, RowsOpen
    <3>4. hasCloser(d2, d.hold[g].entry) <=> hasCloser(d, d.hold[g].entry)
      BY <1>13, <3>2, <3>3
    <3> QED BY <1>12, <3>1, <3>3, <3>4 DEF Audit, Store, RowsOpen
  <2> QED BY <2>1, <2>2
<1>15. RowsApart(d2)
  <2> SUFFICES ASSUME NEW f \in Entries, NEW g \in Entries,
                      Present(d2, f), Present(d2, g), f # g
               PROVE  /\ d2.hold[f].entry # d2.hold[g].entry
                      /\ d2.hold[f].run # None => d2.hold[f].run # d2.hold[g].run
    BY DEF RowsApart
  <2>1. \A x \in Entries : Present(d2, x) => Present(d, x) /\ d2.hold[x].run = d.hold[x].run
    BY <1>2, <1>10, <1>12 DEF Present
  <2>2. \A x \in Entries \ {h} : Present(d2, x) => d2.hold[x].entry \in d.opened
                                                   /\ d2.hold[x].entry = d.hold[x].entry
    BY <1>12, <2>1 DEF Audit, Store, RowsOpen
  <2>3. CASE f = h BY <1>2, <1>12, <2>1, <2>2, <2>3 DEF Audit, Store, RowsApart
  <2>4. CASE g = h BY <1>2, <1>12, <2>1, <2>2, <2>4 DEF Audit, Store, RowsApart
  <2>5. CASE f # h /\ g # h BY <2>1, <2>2, <2>5 DEF Audit, Store, RowsApart
  <2> QED BY <2>3, <2>4, <2>5
<1>16. RowsOfRuns(d2)
  BY <1>2, <1>10, <1>12 DEF Audit, Store, RowsOfRuns, Present
<1>17. Closers(d2)
  <2> SUFFICES ASSUME NEW x \in Entries
               PROVE  /\ d2.obs[x] + d2.inf[x] <= 1
                      /\ x \notin d2.opened => ~hasCloser(d2, x)
    BY DEF Closers
  <2>1. CASE x = old
    BY <1>10, <1>11, <1>12, <2>1 DEF hasCloser
  <2>2. CASE x # old BY <1>11, <1>12, <1>13, <2>2 DEF Audit, Store, Closers
  <2> QED BY <2>1, <2>2
<1>18. Sends(d2, rn) BY <1>2, <1>12 DEF Audit, Store, Sends
<1>19. Store(d2, rn) BY <1>14, <1>15, <1>16, <1>17, <1>18 DEF Store
<1> QED BY <1>0, <1>3, <1>8, <1>19, StoreIdle

LEMMA DispatchedFields ==
    ASSUME NEW d \in Database, NEW h \in Entries, Present(d, h)
    PROVE  LET d2 == SetTurnState(d, h, "dispatched") IN
           /\ d2 \in Database /\ d2.run = d.run /\ d2.opened = d.opened
           /\ d2.obs = d.obs /\ d2.inf = d.inf
           /\ d2.hold = [g \in Entries |->
                 IF g = h THEN [d.hold[h] EXCEPT !.st = "dispatched"] ELSE d.hold[g]]
<1> DEFINE d2 == SetTurnState(d, h, "dispatched")
           row == [d.hold[h] EXCEPT !.st = "dispatched"]
<1>1. d.hold[h].st # "absent" BY DEF Present
<1>2. /\ d2 \in Database /\ d2.run = d.run /\ d2.opened = d.opened
      /\ d2.obs = d.obs /\ d2.inf = d.inf
  BY SetTurnStateFields
<1>3. d2.hold = [g \in Entries |->
          IF g = h /\ d.hold[h].st # "absent" THEN row ELSE d.hold[g]]
  <2> DEFINE st == "dispatched"
  <2>1. st \in {"parked", "dispatched", "answered"} OBVIOUS
  <2>2. d2 = SetTurnState(d, h, st) OBVIOUS
  <2> HIDE DEF st, d2
  <2>3. d2.hold = [g \in Entries |->
            IF g = h /\ d.hold[h].st # "absent"
            THEN [d.hold[h] EXCEPT !.st = st] ELSE d.hold[g]]
    BY <2>1, <2>2, SetTurnStateFields
  <2> QED BY <2>3 DEF st
<1> HIDE DEF d2, row
<1>4. d2.hold = [g \in Entries |-> IF g = h THEN row ELSE d.hold[g]]
  BY <1>1, <1>3
<1> QED BY <1>2, <1>4 DEF d2, row

\* Marking a parked row `dispatched` for the turn t that takes it.
LEMMA DispatchAudit ==
    ASSUME NEW d, NEW rn, Audit(d, Idle, rn), NEW h \in Entries, d.hold[h].st = "parked",
           d.hold[h].run # None => d.run[d.hold[h].run].status # "needs_input",
           NEW t \in Turn, t.hold = h, t.entry = d.hold[h].entry, t.run = d.hold[h].run,
           \/ t.pc = "hold" /\ t.op = "resolve"
           \/ t.pc = "llm" /\ t.op = "provide",
           NEW rn2 \in [Entries -> Nat], \A g \in Entries \ {h} : rn2[g] = rn[g],
           rn2[h] <= 1, t.op = "provide" => rn2[h] = 0
    PROVE  Audit(SetTurnState(d, h, "dispatched"), t, rn2)
<1> DEFINE d2 == SetTurnState(d, h, "dispatched")
<1>0. d \in Database BY DEF Audit
<1>1. /\ d2 \in Database /\ d2.run = d.run /\ d2.opened = d.opened
      /\ d2.obs = d.obs /\ d2.inf = d.inf
      /\ d2.hold = [g \in Entries |->
            IF g = h THEN [d.hold[h] EXCEPT !.st = "dispatched"] ELSE d.hold[g]]
  <2>1. Present(d, h) BY DEF Present
  <2> QED BY ONLY <1>0, <2>1, h \in Entries, DispatchedFields
<1> HIDE DEF d2
<1>2. d.hold[h] \in Row BY <1>0, Fields
<1>3. /\ d2.hold[h].st = "dispatched" /\ d2.hold[h].entry = d.hold[h].entry
      /\ d2.hold[h].run = d.hold[h].run
      /\ \A g \in Entries \ {h} : d2.hold[g] = d.hold[g]
  BY <1>1, <1>2 DEF Row
<1>4. \A g \in Entries : /\ Present(d2, g) <=> Present(d, g)
                         /\ d2.hold[g].entry = d.hold[g].entry
                         /\ d2.hold[g].run = d.hold[g].run
  BY <1>3 DEF Present
<1>5. \A e \in Entries : hasCloser(d2, e) <=> hasCloser(d, e) BY <1>1 DEF hasCloser
<1>6. d.opened \subseteq Entries BY <1>0, Fields
<1>7. /\ Present(d, h) /\ h \in d.opened /\ d.hold[h].entry \in d.opened
      /\ ~hasCloser(d, d.hold[h].entry)
  BY DEF Audit, Store, RowsOpen, Present
<1>8. RowsOpen(d2)
  BY <1>1, <1>3, <1>4, <1>5, <1>6, <1>7 DEF Audit, Store, RowsOpen
<1>9. RowsApart(d2) BY <1>4 DEF Audit, Store, RowsApart
<1>10. RowsOfRuns(d2)
  <2> SUFFICES ASSUME NEW g \in Entries, Present(d2, g), d2.hold[g].run # None
               PROVE  /\ d2.run[d2.hold[g].run].status # "unborn"
                      /\ d2.run[d2.hold[g].run].status = "needs_input" =>
                             d2.hold[g].st = "parked" /\ d2.hold[g].kind = "input"
    BY DEF RowsOfRuns
  <2>1. CASE g = h BY <1>1, <1>3, <1>7, <2>1 DEF Audit, Store, RowsOfRuns
  <2>2. CASE g # h BY <1>1, <1>3, <1>4, <2>2 DEF Audit, Store, RowsOfRuns
  <2> QED BY <2>1, <2>2
<1>11. Closers(d2) BY <1>1, <1>5 DEF Audit, Store, Closers
<1>12. Sends(d2, rn2)
  <2> SUFFICES ASSUME NEW g \in Entries
               PROVE  /\ rn2[g] <= 1
                      /\ rn2[g] = 1 => g \in d2.opened /\ d2.hold[g].st # "parked"
    BY DEF Sends
  <2>1. CASE g = h BY <1>1, <1>3, <1>7, <2>1
  <2>2. CASE g # h BY <1>1, <1>3, <2>2 DEF Audit, Store, Sends
  <2> QED BY <2>1, <2>2
<1>13. Owns(d2, h, d.hold[h].entry)
  <2> DEFINE e == d.hold[h].entry
  <2>1. e \in d2.opened BY <1>1, <1>7
  <2>2. ~hasCloser(d2, e) BY <1>5, <1>6, <1>7
  <2>3. ASSUME NEW g \in Entries, Present(d2, g), d2.hold[g].entry = e PROVE g = h
    BY <1>4, <1>7, <2>3 DEF Audit, Store, RowsApart
  <2>4. d2.hold[h].entry = e BY <1>3
  <2> QED BY <2>1, <2>2, <2>3, <2>4 DEF Owns
<1>14. d.hold[h].entry # None BY <1>6, <1>7, NoneFacts
<1>15. TurnOwns(d2, t, rn2) BY <1>3, <1>13, <1>14 DEF TurnOwns
<1>16. TurnRun(d2, t)
  <2>1. t.run # None => d.run[t.run].status \notin {"unborn", "needs_input"}
    BY <1>7 DEF Audit, Store, RowsOfRuns
  <2>2. t.run # None =>
            \A g \in Entries : Present(d2, g) /\ d2.hold[g].run = t.run => g = h
    BY <1>4, <1>7 DEF Audit, Store, RowsApart
  <2> QED BY <1>1, <1>7, <2>1, <2>2 DEF TurnRun
<1>17. Audit(d2, t, rn2)
  BY <1>1, <1>8, <1>9, <1>10, <1>11, <1>12, <1>15, <1>16 DEF Audit, Store
<1> QED BY <1>17 DEF d2

LEMMA ResolveApproveAudit ==
    ASSUME AuditInv, Undisturbed, NEW h \in Entries, NEW session \in BOOLEAN,
           ResolveApprove(h, session)
    PROVE  Audit(db', turn', ran')
<1> DEFINE row == db.hold[h]
           d == IF session THEN [db EXCEPT !.grants = @ \cup {<<row.sess, row.tool>>}]
                ELSE db
<1>0. /\ db \in Database /\ db.hold[h].st = "parked" /\ Present(db, h)
      /\ db.hold[h].kind # "input" /\ turn.pc = "idle"
  BY DEF ResolveApprove, Answerable, Loadable, AuditInv, Audit, Present, Undisturbed
<1>1. row.sess \in Sessions /\ row.tool \in Tools
  BY <1>0 DEF AuditInv, IInv, CoreInv, Good, RowsGood, Present
<1>2. /\ d \in Database /\ d.hold = db.hold /\ d.opened = db.opened
      /\ d.obs = db.obs /\ d.inf = db.inf /\ d.run = db.run
  <2>1. [db EXCEPT !.grants = @ \cup {<<row.sess, row.tool>>}] \in Database
    BY <1>0, <1>1 DEF Database
  <2> QED BY <1>0, <2>1 DEF Database
<1>3. \/ /\ \E e \in Entries \ db.opened :
               db' = updateCommissionStatus(reholdForSpend(d, h, e), row.run,
                                            "awaiting_confirmation")
         /\ UNCHANGED <<turn, ran>>
      \/ /\ db' = SetTurnState(d, h, "dispatched")
         /\ turn' = [ResolveTurn(h) EXCEPT !.pc = "hold"]
         /\ ran' = [ran EXCEPT ![h] = @ + 1]
  BY DEF ResolveApprove
<1> HIDE DEF d
<1>4. Audit(d, Idle, ran) BY <1>2, AuditCopy, AuditIdle DEF AuditInv
<1>5. CASE /\ \E e \in Entries \ db.opened :
               db' = updateCommissionStatus(reholdForSpend(d, h, e), row.run,
                                            "awaiting_confirmation")
           /\ UNCHANGED <<turn, ran>>
  <2>1. PICK e \in Entries \ db.opened :
            db' = updateCommissionStatus(reholdForSpend(d, h, e), row.run,
                                         "awaiting_confirmation")
    BY <1>5
  <2>2. Audit(reholdForSpend(d, h, e), Idle, ran)
    BY <1>0, <1>2, <1>4, ReholdAudit
  <2>3. Audit(db', Idle, ran) BY <2>1, <2>2, UpdateStatusAudit
  <2>4. turn \in Turn /\ turn.entry = None BY <1>0 DEF AuditInv, Audit, TurnOwns
  <2>5. Audit(db', turn, ran) BY <1>0, <2>3, <2>4, IdleAny
  <2> QED BY <1>5, <2>5
<1>6. CASE /\ db' = SetTurnState(d, h, "dispatched")
           /\ turn' = [ResolveTurn(h) EXCEPT !.pc = "hold"]
           /\ ran' = [ran EXCEPT ![h] = @ + 1]
  <2> DEFINE u == ResolveTurn(h)
  <2>1. /\ u \in Turn /\ u.op = "resolve" /\ u.run = row.run
        /\ u.hold = h /\ u.entry = row.entry
        /\ row.run # None => db.run[row.run].status # "needs_input"
    BY <1>0, ResolveTurnAudit
  <2>2. turn' = [u EXCEPT !.pc = "hold"] BY <1>6
  <2> HIDE DEF u
  <2>3. /\ turn' \in Turn /\ turn'.pc = "hold" /\ turn'.op = "resolve"
        /\ turn'.run = row.run /\ turn'.hold = h /\ turn'.entry = row.entry
    BY <2>1, <2>2 DEF Turn
  <2>4. ran \in [Entries -> Nat] /\ ran[h] = 0
    BY <1>0 DEF AuditInv, Audit, Store, Sends
  <2>5. /\ ran' \in [Entries -> Nat] /\ ran'[h] <= 1
        /\ \A g \in Entries \ {h} : ran'[g] = ran[g]
    BY <1>6, <2>4
  <2>6. Audit(SetTurnState(d, h, "dispatched"), turn', ran')
    BY <1>0, <1>2, <1>4, <2>1, <2>3, <2>5, DispatchAudit
  <2> QED BY <1>6, <2>6
<1> QED BY <1>3, <1>5, <1>6

LEMMA ProvideAudit ==
    ASSUME AuditInv, Undisturbed, NEW r \in Runs, NEW h \in Entries, NEW b \in BOOLEAN,
           ProvideTaskInput(r, h, b)
    PROVE  Audit(db', turn', ran')
<1> DEFINE d == Reaped(db)
           x == updateRunData(d, r, b)
           y == clearNeedsInput(x, r)
           z == SetTurnState(y, h, "dispatched")
           u == LoopTurn("provide", r)
           t == [u EXCEPT !.hold = h, !.entry = d.hold[h].entry, !.direct = d.hold[h].direct]
<1>1. Good(d) /\ Audit(d, Idle, ran)
  BY ReapedGood, ReapedAudit, AuditIdle DEF AuditInv, IInv, CoreInv
<1>2. /\ d.run[r].status = "needs_input" /\ Present(d, h) /\ d.hold[h].run = r
      /\ ExecuteTool(z, t, d.hold[h].tool)
  BY DEF ProvideTaskInput, selectInputHoldForTask, selectHeldCallsForRun,
         selectHeldCalls, Present
<1> HIDE DEF d
<1>3. d.hold[h].st = "parked"
  BY <1>1, <1>2, NoneFacts DEF Audit, Store, RowsOfRuns
<1>4. /\ Good(x) /\ x.hold = d.hold
      /\ \A q \in Runs : x.run[q].status = d.run[q].status
  BY <1>1, UpdateRunDataGood
<1>5. Audit(x, Idle, ran) BY <1>1, UpdateRunDataAudit
<1> HIDE DEF x
<1>6. y.hold = x.hold /\ y.run[r].status = "running"
  <2>1. x \in Database BY <1>4 DEF Good
  <2>2. "running" \in RunStatus BY DEF RunStatus, NonTerminal
  <2>3. x.run[r].status = "needs_input" BY <1>2, <1>4
  <2> QED BY <2>1, <2>2, <2>3, MoveRunsFields DEF clearNeedsInput
<1>7. Audit(y, Idle, ran) BY <1>5, ClearNeedsInputAudit
<1> HIDE DEF y
<1>8. d.hold[h] \in Row BY <1>1, Fields DEF Good
<1>9. u \in Turn /\ u.run = r /\ u.pc = "llm" /\ u.op = "provide"
  BY DEF LoopTurn, Idle, Turn
<1> HIDE DEF u
<1>10. /\ t \in Turn /\ t.run = r /\ t.pc = "llm" /\ t.op = "provide"
       /\ t.hold = h /\ t.entry = d.hold[h].entry
  BY <1>8, <1>9 DEF Turn, Row
<1> HIDE DEF t
<1>11. ran \in [Entries -> Nat] /\ ran[h] = 0
  BY <1>1, <1>3 DEF Audit, Store, Sends
<1>12. y.hold[h] = d.hold[h] BY <1>4, <1>6
<1>13. Audit(z, t, ran)
  BY <1>2, <1>3, <1>6, <1>7, <1>10, <1>11, <1>12, DispatchAudit
<1>14. d.hold[h].tool \in Tools BY <1>1, <1>2 DEF Good, RowsGood, Present
<1> HIDE DEF z
<1> QED BY <1>2, <1>10, <1>13, <1>14, ExecuteToolAudit DEF Undisturbed

-----------------------------------------------------------------------------
(* Task operations, the handlers outside the gate and the environment: all *)
(* of them keep Audit for the turn in flight, whatever it is.              *)

LEMMA CancelTaskAudit ==
    ASSUME AuditInv, NEW r \in Runs, CancelTask(r) PROVE Audit(db', turn', ran')
<1> DEFINE d == Reaped(db)
           H == selectHeldCallsForRun(d, r)
           w == SweepHolds(d, H)
<1>1. db' = cancelRun(w, r) /\ turn' = turn /\ ran' = ran BY DEF CancelTask
<1>2. Audit(d, turn, ran) BY ReapedAudit DEF AuditInv
<1> HIDE DEF d
<1>3. H \in SUBSET selectHeldCalls(d) BY DEF selectHeldCallsForRun
<1> HIDE DEF H
<1>4. Audit(w, turn, ran) BY <1>2, <1>3, SweepAudit
<1> HIDE DEF w
<1>5. "cancelled" \in RunStatus \ {"unborn", "needs_input"} BY DEF RunStatus, Terminal
<1>6. Audit(cancelRun(w, r), turn, ran) BY <1>4, <1>5, MoveRunsAudit DEF cancelRun
<1> QED BY <1>1, <1>6

LEMMA AmendTaskAudit ==
    ASSUME AuditInv, NEW r \in Runs, NEW b \in BOOLEAN, AmendTask(r, b)
    PROVE  Audit(db', turn', ran')
<1> DEFINE d == Reaped(db)
<1>1. db' = updateRunData(d, r, b) /\ turn' = turn /\ ran' = ran BY DEF AmendTask
<1>2. Good(d) /\ Audit(d, turn, ran)
  BY ReapedGood, ReapedAudit DEF AuditInv, IInv, CoreInv
<1> HIDE DEF d
<1>3. Audit(updateRunData(d, r, b), turn, ran) BY <1>2, UpdateRunDataAudit
<1> QED BY <1>1, <1>3

LEMMA ReadCommissionRunAudit ==
    ASSUME AuditInv, NEW r \in Runs, ReadCommissionRun(r) PROVE Audit(db', turn', ran')
<1> DEFINE d1 == Reaped(db)
           d2 == IF turn.pc = "idle" THEN RepairRuns(d1, {r}) ELSE d1
<1>1. /\ db' = d2 \/ db' = expireRuns(d2, {r})
      /\ turn' = Sever(turn, db, d1) /\ ran' = ran
  BY DEF ReadCommissionRun
<1>2. Audit(d1, turn, ran) BY ReapedAudit DEF AuditInv
<1> HIDE DEF d1
<1>3. Audit(d2, turn, ran) BY <1>2, RepairRunsAudit
<1> HIDE DEF d2
<1>4. Audit(db', turn, ran) BY <1>1, <1>3, ExpireRunsAudit
<1> QED BY <1>1, <1>4, SeverAudit

LEMMA ReadReapsAudit == ASSUME AuditInv, ReadReaps PROVE Audit(db', turn', ran')
<1>1. Audit(db', turn, ran) BY ReapedAudit DEF AuditInv, ReadReaps
<1>2. turn' = Sever(turn, db, db') /\ ran' = ran BY DEF ReadReaps
<1> QED BY <1>1, <1>2, SeverAudit

LEMMA StartSessionAudit == ASSUME AuditInv, StartSession PROVE Audit(db', turn', ran')
<1> DEFINE d == Reaped(db)
<1>1. /\ db' = d \/ \E s \in ActiveCandidates(d) : db' = resolveActiveSession(d, s)
      /\ turn' = Sever(turn, db, d) /\ ran' = ran
  BY DEF StartSession
<1>2. Audit(d, turn, ran) BY ReapedAudit DEF AuditInv
<1> HIDE DEF d
<1>3. ActiveCandidates(d) \subseteq Sessions
  BY DEF ActiveCandidates, selectOpenSessions
<1>4. Audit(db', turn, ran) BY <1>1, <1>2, <1>3, ResolveSessionAudit
<1> QED BY <1>1, <1>4, SeverAudit

LEMMA EndSessionAudit == ASSUME AuditInv, EndSession PROVE Audit(db', turn', ran')
<1> DEFINE d == Reaped(db)
           S == selectOpenSessions(d) \cap ActiveCandidates(d)
<1>1. /\ db' = EndSessions(d, S) /\ turn' = Sever(turn, db, EndSessions(d, S))
      /\ ran' = ran
  BY DEF EndSession
<1>2. Audit(d, turn, ran) BY ReapedAudit DEF AuditInv
<1> HIDE DEF d, S
<1>3. Audit(db', turn, ran) BY <1>1, <1>2, EndSessionsAudit
<1> QED BY <1>1, <1>3, SeverAudit

LEMMA NoGrantsAudit ==
    ASSUME NEW d, NEW t, NEW rn, Audit(d, t, rn)
    PROVE  Audit([d EXCEPT !.grants = {}], t, rn)
<1> DEFINE d2 == [d EXCEPT !.grants = {}]
<1>1. d \in Database BY DEF Audit
<1>2. /\ d2 \in Database /\ d2.hold = d.hold /\ d2.opened = d.opened
      /\ d2.obs = d.obs /\ d2.inf = d.inf /\ d2.run = d.run
  BY <1>1 DEF Database
<1> HIDE DEF d2
<1>3. Audit(d2, t, rn) BY <1>2, AuditCopy
<1> QED BY <1>3 DEF d2

LEMMA KillSwitchAudit ==
    ASSUME AuditInv, NEW lost \in BOOLEAN, KillSwitch(lost) PROVE Audit(db', turn', ran')
<1> DEFINE H == selectHeldCalls(db)
           a == deleteHeldToolCalls(db, H)
           b == SweepHolds(db, H)
           c == EndSessions(b, selectOpenSessions(db))
<1>1. Audit(a, turn, ran) BY DeleteAudit DEF AuditInv
<1>2. Audit(b, turn, ran) BY SweepAudit DEF AuditInv
<1>3. /\ db' = [a EXCEPT !.grants = {}] \/ db' = [c EXCEPT !.grants = {}]
      /\ turn' = [turn EXCEPT !.severed = turn.pc # "idle"]
      /\ ran' = ran
  BY DEF KillSwitch
<1> HIDE DEF a, b
<1>4. Audit(c, turn, ran) BY <1>2, EndSessionsAudit
<1> HIDE DEF c
<1>5. Audit(db', turn, ran) BY <1>1, <1>3, <1>4, NoGrantsAudit
<1>6. /\ turn' \in Turn /\ turn'.pc = turn.pc /\ turn'.op = turn.op
      /\ turn'.run = turn.run /\ turn'.hold = turn.hold /\ turn'.entry = turn.entry
  <2>1. turn \in Turn BY DEF AuditInv, Audit
  <2>2. (turn.pc # "idle") \in BOOLEAN OBVIOUS
  <2> QED BY <1>3, <2>1, <2>2 DEF Turn
<1> QED BY <1>3, <1>5, <1>6, AuditTurn

LEMMA SessionAgesAudit ==
    ASSUME AuditInv, NEW s \in Sessions, SessionAges(s) PROVE Audit(db', turn', ran')
<1> DEFINE A == {u \in Sessions : u <= s}
           d2 == [db EXCEPT !.aged = @ \cup A]
<1>1. db \in Database BY DEF AuditInv, Audit
<1>2. A \subseteq Sessions OBVIOUS
<1>3. db' = d2 /\ turn' = turn /\ ran' = ran BY DEF SessionAges
<1> HIDE DEF A
<1>4. /\ d2 \in Database /\ d2.hold = db.hold /\ d2.opened = db.opened
      /\ d2.obs = db.obs /\ d2.inf = db.inf /\ d2.run = db.run
  BY <1>1, <1>2 DEF Database
<1> HIDE DEF d2
<1>5. Audit(d2, turn, ran) BY <1>4, AuditCopy DEF AuditInv
<1> QED BY <1>3, <1>5

-----------------------------------------------------------------------------
(* The theorems.                                                           *)

LEMMA InitAudit == Init => AuditInv
<1> SUFFICES ASSUME Init PROVE AuditInv OBVIOUS
<1>1. IInv BY InitIInv
<1>2. db \in Database BY <1>1 DEF IInv, CoreInv, Good
<1>3. ran \in [Entries -> Nat] /\ \A h \in Entries : ran[h] = 0 BY DEF Init
<1>4. \A h \in Entries : ~Present(db, h) /\ ~hasCloser(db, h)
                         /\ db.obs[h] + db.inf[h] = 0
  BY NoRowAbsent DEF Init, EmptyDatabase, Present, hasCloser
<1>5. RowsOpen(db) /\ RowsApart(db) /\ RowsOfRuns(db)
  BY <1>4 DEF RowsOpen, RowsApart, RowsOfRuns
<1>6. Closers(db) BY <1>4 DEF Closers
<1>7. Sends(db, ran) BY <1>3 DEF Sends
<1>8. Store(db, ran) BY <1>5, <1>6, <1>7 DEF Store
<1>9. Audit(db, turn, ran) BY <1>2, <1>3, <1>8, StoreIdle DEF Init
<1> QED BY <1>1, <1>9 DEF AuditInv

LEMMA NextAudit == ASSUME Undisturbed, AuditInv, Next PROVE Audit(db', turn', ran')
<1>1. CASE Chat BY <1>1, ChatAudit
<1>2. ASSUME NEW r \in Runs, NEW slot \in BOOLEAN, CommissionGoal(r, slot)
      PROVE  Audit(db', turn', ran')
  BY <1>2, CommissionAudit
<1>3. ASSUME NEW tool \in Tools, executeToolDirect(tool) PROVE Audit(db', turn', ran')
  BY <1>3, DirectAudit
<1>4. ASSUME NEW tool \in Tools, LoopCallsTool(tool) PROVE Audit(db', turn', ran')
  BY <1>4, LoopCallsToolAudit
<1>5. CASE LoopFinishes BY <1>5, LoopFinishesAudit
<1>6. CASE LoopThrows BY <1>6, LoopThrowsAudit
<1>7. CASE ScopesRead BY <1>7, ScopesReadAudit
<1>8. CASE ToolReturns BY <1>8, ToolReturnsAudit
<1>9. ASSUME NEW h \in Entries, ResolveAnswered(h) PROVE Audit(db', turn', ran')
  BY <1>9, ResolveAnsweredAudit
<1>10. ASSUME NEW h \in Entries, ResolveDispatched(h) PROVE Audit(db', turn', ran')
  BY <1>10, ResolveDispatchedAudit
<1>11. ASSUME NEW h \in Entries, ResolveDeny(h) PROVE Audit(db', turn', ran')
  BY <1>11, ResolveDenyAudit
<1>12. ASSUME NEW h \in Entries, NEW b \in BOOLEAN, ResolveApprove(h, b)
       PROVE  Audit(db', turn', ran')
  BY <1>12, ResolveApproveAudit
<1>13. CASE HeldCallReturns BY <1>13, HeldCallReturnsAudit
<1>14. CASE HeldOutcomeWriteFails
  BY <1>14, AuditIdle DEF HeldOutcomeWriteFails, AuditInv
<1>15. ASSUME NEW r \in Runs, NEW h \in Entries, NEW b \in BOOLEAN,
              ProvideTaskInput(r, h, b)
       PROVE  Audit(db', turn', ran')
  BY <1>15, ProvideAudit
<1>16. ASSUME NEW r \in Runs, CancelTask(r) PROVE Audit(db', turn', ran')
  BY <1>16, CancelTaskAudit
<1>17. ASSUME NEW r \in Runs, ReadCommissionRun(r) PROVE Audit(db', turn', ran')
  BY <1>17, ReadCommissionRunAudit
<1>18. ASSUME NEW r \in Runs, NEW b \in BOOLEAN, AmendTask(r, b)
       PROVE  Audit(db', turn', ran')
  BY <1>18, AmendTaskAudit
<1>19. CASE ReadReaps BY <1>19, ReadReapsAudit
<1>20. CASE StartSession BY <1>20, StartSessionAudit
<1>21. CASE EndSession BY <1>21, EndSessionAudit
<1>22. ASSUME NEW lost \in BOOLEAN, KillSwitch(lost) PROVE Audit(db', turn', ran')
  BY <1>22, KillSwitchAudit
<1>23. ASSUME NEW s \in Sessions, SessionAges(s) PROVE Audit(db', turn', ran')
  BY <1>23, SessionAgesAudit
<1>24. CASE Crash BY <1>24, AuditIdle DEF Crash, AuditInv
<1> QED
  BY <1>1, <1>2, <1>3, <1>4, <1>5, <1>6, <1>7, <1>8, <1>9, <1>10, <1>11, <1>12,
     <1>13, <1>14, <1>15, <1>16, <1>17, <1>18, <1>19, <1>20, <1>21, <1>22, <1>23,
     <1>24 DEF Next

LEMMA AuditStep == Undisturbed /\ AuditInv /\ [Next]_vars => AuditInv'
<1>1. ASSUME Undisturbed, AuditInv, Next PROVE AuditInv'
  <2>1. IInv' BY <1>1, NextIInv DEF AuditInv
  <2>2. Audit(db', turn', ran') BY <1>1, NextAudit
  <2> QED BY <2>1, <2>2 DEF AuditInv
<1>2. ASSUME AuditInv, UNCHANGED vars PROVE AuditInv'
  <2>1. IInv' BY <1>2, StutterIInv DEF AuditInv
  <2>2. Audit(db', turn', ran') BY <1>2 DEF AuditInv, vars
  <2> QED BY <2>1, <2>2 DEF AuditInv
<1> QED BY <1>1, <1>2

\* Rows, closers, the turn in flight and the history of sent calls stay in
\* step under every handler, sweep, kill and crash of the UserAgent.
THEOREM AuditInvariance == ASSUME Undisturbed PROVE Spec => []AuditInv
<1>1. Init => AuditInv BY InitAudit
<1>2. AuditInv /\ [Next]_vars => AuditInv' BY AuditStep
<1> QED BY <1>1, <1>2, PTL DEF Spec

\* closeDecisionEntryInTxn and the sweeps close each pending decision at most
\* once, in every order of resolve, provide, cancel, quit, kill, reap and crash.
THEOREM DecisionsClosedOnce == ASSUME Undisturbed PROVE Spec => []ClosedOnce
<1>1. AuditInv => ClosedOnce BY DEF AuditInv, Audit, Store, Closers, ClosedOnce
<1> QED BY <1>1, AuditInvariance, PTL

\* A row resolveConfirmation would still accept waits on an open decision.
THEOREM ParkedDecisionsOpen == ASSUME Undisturbed PROVE Spec => []ParkedIsOpen
<1>1. AuditInv => ParkedIsOpen
  BY DEF AuditInv, Audit, Store, RowsOpen, Present, ParkedIsOpen, selectHeldCalls
<1> QED BY <1>1, AuditInvariance, PTL

\* The call behind a held row reaches its tool at most once, through retried
\* resolves, crashes after the dispatch and re-provided input.
THEOREM HeldCallsSentOnce == ASSUME Undisturbed PROVE Spec => []SentOnce
<1>1. AuditInv => SentOnce BY DEF AuditInv, Audit, Store, Sends, SentOnce
<1> QED BY <1>1, AuditInvariance, PTL

\* The three together: the decision trail that resolveConfirmation,
\* provideTaskInput, the sweeps and the crash repair share.
THEOREM DecisionsAreSound == ASSUME Undisturbed PROVE Spec => []DecisionsSound
<1>1. ClosedOnce /\ ParkedIsOpen /\ SentOnce => DecisionsSound BY DEF DecisionsSound
<1> QED BY <1>1, DecisionsClosedOnce, ParkedDecisionsOpen, HeldCallsSentOnce, PTL
=============================================================================
