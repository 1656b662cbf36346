----------------------- MODULE GovernedLearningProofs -----------------------
(***************************************************************************)
(* Proofs about GovernedLearning, and so about the Refinements manager it  *)
(* drives, for every set of versions, attempts and builds and every bound. *)
(*                                                                         *)
(* Good(d) is what every store value has in common: its rows decode and    *)
(* rest on what they name, and the audit trail dates every mutation. A     *)
(* method is a quiet step (it proposes, admits or settles an attempt and   *)
(* writes no audit entry) or a mutation; one lemma covers what quiet steps *)
(* leave alone, and the three mutations are treated one by one.            *)
(***************************************************************************)
EXTENDS GovernedLearning, FiniteSetTheorems, SequenceTheorems, WellFoundedInduction, TLAPS

\* decodeVersion, and the rows and entries this row names.
RowGood(att, audit, v, row) ==
    /\ row \in Version
    /\ row.last.st = row.st
    /\ row.valid # None => row.latest = row.valid
    /\ row.appr # 0 => row.valid # None
    /\ row.st \in {"approved", "active"} => row.appr # 0
    /\ row.st = "validated" => row.valid # None /\ row.appr = 0
    /\ row.st = "proposed" => row.valid = None /\ row.appr = 0
    /\ row.latest # None => att[row.latest] # None /\ att[row.latest].ver = v
    /\ row.valid # None => att[row.valid].st = "passed"
    /\ row.appr # 0 => /\ row.appr \in 1..Len(audit)
                       /\ audit[row.appr].act = "approve" /\ audit[row.appr].ver = v
                       /\ audit[row.appr].att = row.valid

RowsGood(d) == \A v \in Stored(d) : RowGood(d.att, d.audit, v, d.ver[v])

\* An attempt belongs to a stored version, and runs only as its latest.
AttemptsGood(d) ==
    \A a \in Attempts : d.att[a] # None =>
        /\ d.att[a].ver \in Stored(d)
        /\ d.att[a].st = "running" => d.ver[d.att[a].ver].latest = a

ScopeGood(d) == \A v \in Versions : (v \in Stored(d) /\ d.ver[v].st = "active") <=> d.active = v

Bounded(d) == \E n \in Nat : \A v \in Stored(d) : d.ver[v].rev <= n

Own(e) == e.act = e.req.act

\* Every entry is dated: an own entry carries its request's generation, or
\* the one the request made. An approval of this generation still stands.
EntryGood(d, e) ==
    /\ e.req.ver \in Stored(d)
    /\ e.gen <= d.gen
    /\ Own(e) => e.gen = (IF e.act = "approve" THEN e.req.gen ELSE e.req.gen + 1)
    /\ Own(e) /\ e.act = "approve" /\ e.gen = d.gen => d.ver[e.req.ver].st = "approved"

EntriesGood(d) == \A i \in 1..Len(d.audit) : EntryGood(d, d.audit[i])

Once(d) ==
    \A i, j \in 1..Len(d.audit) :
        d.audit[i].req = d.audit[j].req /\ Own(d.audit[i]) /\ Own(d.audit[j]) => i = j

Answered(d) ==
    d.audit # <<>> =>
        LET q == d.audit[Len(d.audit)].req
        IN  d.ver[q.ver].last.act = "validate" \/ Repeated(d, q)

Good(d) ==
    /\ d \in Store /\ RowsGood(d) /\ AttemptsGood(d) /\ ScopeGood(d) /\ Bounded(d)
    /\ EntriesGood(d) /\ Once(d) /\ Answered(d)

\* What a method leaves behind: no row goes, a terminal receipt stands, the
\* generation only grows, and while it stands still so does what is active.
\* Unless `pass`, no running attempt passes.
Follows(d, e, pass) ==
    /\ Good(e)
    /\ Stored(d) \subseteq Stored(e)
    /\ \A a \in Attempts : d.att[a] # None =>
           /\ e.att[a] # None
           /\ d.att[a].st # "running" => e.att[a] = d.att[a]
           /\ ~pass /\ d.att[a].st = "running" => e.att[a].st # "passed"
    /\ d.gen <= e.gen
    /\ e.gen = d.gen => /\ e.active = d.active
                        /\ d.active # None => e.ver[d.active].valid = d.ver[d.active].valid

\* The pin is of this generation or of an older one, and while it is of this
\* one nothing it names has changed.
PinGood(d, r) ==
    /\ r.pc = "source" => r.pin = None
    /\ r.pin = None => ~r.stale
    /\ r.pin # None => /\ r.pin.gen <= d.gen
                       /\ r.pin.gen = d.gen => /\ ~r.stale
                                               /\ d.active = r.pin.ver
                                               /\ d.ver[r.pin.ver].valid = r.pin.att

LearnInv ==
    /\ ServiceTypeOK
    /\ Good(db)
    /\ \A a \in waiting : db.att[a] # None
    /\ job \in Attempts => db.att[job] # None
    /\ PinGood(db, run)

-----------------------------------------------------------------------------
(* Store values.                                                           *)

LEMMA StoreFields ==
    ASSUME NEW d \in Store
    PROVE  /\ d.ver \in [Versions -> Version \cup {None}]
           /\ d.att \in [Attempts -> Attempt \cup {None}]
           /\ d.active \in Versions \cup {None} /\ d.gen \in Nat /\ d.audit \in Seq(Entry)
           /\ d = [ver |-> d.ver, att |-> d.att, active |-> d.active, gen |-> d.gen,
                   audit |-> d.audit]
BY DEF Store

LEMMA StoreMake ==
    ASSUME NEW ver \in [Versions -> Version \cup {None}],
           NEW att \in [Attempts -> Attempt \cup {None}],
           NEW active \in Versions \cup {None}, NEW gen \in Nat, NEW audit \in Seq(Entry)
    PROVE  [ver |-> ver, att |-> att, active |-> active, gen |-> gen, audit |-> audit] \in Store
BY DEF Store

LEMMA StoredRow ==
    ASSUME NEW d \in Store, NEW v \in Stored(d)
    PROVE  v \in Versions /\ d.ver[v] \in Version /\ d.ver[v] # None
BY StoreFields DEF Stored

LEMMA RecordIs ==
    ASSUME NEW act \in Mutations \cup {"propose", "validate"}, NEW req \in Request \cup {None},
           NEW st \in States, NEW gen \in Nat
    PROVE  /\ Record(act, req, st, gen) \in Transition
           /\ Record(act, req, st, gen).act = act /\ Record(act, req, st, gen).req = req
           /\ Record(act, req, st, gen).st = st /\ Record(act, req, st, gen).gen = gen
BY DEF Record, Transition

IsSettled(new, row, a, status) ==
    /\ new \in Version /\ new.latest = row.latest /\ new.appr = 0 /\ new.rev = row.rev
    /\ new.valid = (IF status = "passed" THEN a ELSE None)
    /\ new.st = (IF status = "passed" THEN "validated"
                 ELSE IF row.st = "disabled" THEN "disabled" ELSE "proposed")
    /\ new.last.st = new.st /\ new.last.act = "validate"

LEMMA SettledIs ==
    ASSUME NEW row \in Version, NEW a \in Attempts, NEW status \in {"passed", "failed", "error"},
           NEW gen \in Nat
    PROVE  IsSettled(SettledRow(row, a, status, gen), row, a, status)
<1> DEFINE st == IF status = "passed" THEN "validated"
                 ELSE IF row.st = "disabled" THEN "disabled" ELSE "proposed"
           val == IF status = "passed" THEN a ELSE None
           last == Record("validate", None, st, gen)
<1>1. st \in States /\ val \in Attempts \cup {None}
  BY DEF States
<1>2. last \in Transition /\ last.st = st /\ last.act = "validate"
  BY <1>1, RecordIs
<1>3. SettledRow(row, a, status, gen) = [row EXCEPT !.st = st, !.valid = val, !.appr = 0, !.last = last]
  BY DEF SettledRow
<1> HIDE DEF val, st, last
<1>4. /\ [row EXCEPT !.st = st, !.valid = val, !.appr = 0, !.last = last] \in Version
      /\ [row EXCEPT !.st = st, !.valid = val, !.appr = 0, !.last = last].latest = row.latest
      /\ [row EXCEPT !.st = st, !.valid = val, !.appr = 0, !.last = last].appr = 0
      /\ [row EXCEPT !.st = st, !.valid = val, !.appr = 0, !.last = last].rev = row.rev
      /\ [row EXCEPT !.st = st, !.valid = val, !.appr = 0, !.last = last].valid = val
      /\ [row EXCEPT !.st = st, !.valid = val, !.appr = 0, !.last = last].st = st
      /\ [row EXCEPT !.st = st, !.valid = val, !.appr = 0, !.last = last].last = last
  BY <1>1, <1>2 DEF Version
<1> QED BY <1>2, <1>3, <1>4 DEF st, val, IsSettled

\* The store after one attempt and one version row are written.
Written(d, a, v, arow, row) == [d EXCEPT !.att[a] = arow, !.ver[v] = row]

\* e is d but for one attempt and one version row.
Writes(d, e, a, v, arow, row) ==
    /\ e \in Store /\ e.active = d.active /\ e.gen = d.gen /\ e.audit = d.audit
    /\ e.att = [d.att EXCEPT ![a] = arow] /\ e.ver = [d.ver EXCEPT ![v] = row]

LEMMA RowsWritten ==
    ASSUME NEW d \in Store, NEW a \in Attempts, NEW v \in Versions, NEW arow \in Attempt,
           NEW row \in Version
    PROVE  Writes(d, Written(d, a, v, arow, row), a, v, arow, row)
<1> DEFINE e == [d EXCEPT !.att[a] = arow, !.ver[v] = row]
<1>1. e.att = [d.att EXCEPT ![a] = arow] /\ e.ver = [d.ver EXCEPT ![v] = row]
      /\ e.active = d.active /\ e.gen = d.gen /\ e.audit = d.audit
  BY DEF Store
<1>2. [d.att EXCEPT ![a] = arow] \in [Attempts -> Attempt \cup {None}]
  BY StoreFields
<1>3. [d.ver EXCEPT ![v] = row] \in [Versions -> Version \cup {None}]
  BY StoreFields
<1>4. e \in Store
  BY <1>1, <1>2, <1>3 DEF Store
<1> QED BY <1>1, <1>4 DEF Written, Writes

LEMMA ReceiptIs ==
    ASSUME NEW d \in Store, NEW a \in Attempts, d.att[a] # None, d.att[a].ver \in Stored(d),
           NEW status \in {"passed", "failed", "error"}
    PROVE  Writes(d, WithReceipt(d, a, status), a, d.att[a].ver, [d.att[a] EXCEPT !.st = status],
                  SettledRow(d.ver[d.att[a].ver], a, status, d.gen))
<1> DEFINE v == d.att[a].ver
           arow == [d.att[a] EXCEPT !.st = status]
           row == SettledRow(d.ver[v], a, status, d.gen)
<1>1. d.att[a] \in Attempt /\ v \in Versions /\ d.ver[v] \in Version /\ d.gen \in Nat
  BY StoreFields, StoredRow
<1>2. arow \in Attempt
  BY <1>1 DEF Attempt
<1>3. row \in Version
  BY <1>1, SettledIs DEF IsSettled
<1>4. WithReceipt(d, a, status) = Written(d, a, v, arow, row)
  <2>1. WithReceipt(d, a, status) = [d EXCEPT !.att[a].st = status, !.ver[v] = row]
    BY DEF WithReceipt
  <2> HIDE DEF v, row
  <2> QED BY <2>1, Zenon DEF Written
<1> HIDE DEF v, arow, row
<1> QED BY <1>1, <1>2, <1>3, <1>4, RowsWritten DEF v, arow, row

-----------------------------------------------------------------------------
(* Quiet steps: an attempt and its version's row are written, no entry is.  *)

LEMMA GoodParts ==
    ASSUME NEW d, Good(d)
    PROVE  /\ d \in Store /\ RowsGood(d) /\ AttemptsGood(d) /\ ScopeGood(d) /\ Bounded(d)
           /\ EntriesGood(d) /\ Once(d) /\ Answered(d)
BY DEF Good

\* What the audit trail says stays true while no entry is written, no approved
\* version changes its state, and a last transition changes only to "validate".
Quiet(d, e) ==
    /\ e.audit = d.audit /\ e.gen = d.gen
    /\ \A v \in Stored(d) :
           /\ v \in Stored(e)
           /\ d.ver[v].st = "approved" => e.ver[v].st = "approved"
           /\ e.ver[v].last = d.ver[v].last \/ e.ver[v].last.act = "validate"

LEMMA QuietTrail ==
    ASSUME NEW d, Good(d), NEW e \in Store, Quiet(d, e)
    PROVE  EntriesGood(e) /\ Once(e) /\ Answered(e)
<1>1. EntriesGood(e)
  <2> SUFFICES ASSUME NEW i \in 1..Len(d.audit) PROVE EntryGood(e, d.audit[i])
    BY DEF EntriesGood, Quiet
  <2>1. EntryGood(d, d.audit[i])
    BY GoodParts DEF EntriesGood, Quiet
  <2> QED BY <2>1 DEF EntryGood, Quiet
<1>2. Once(e)
  BY GoodParts DEF Once, Quiet
<1>3. Answered(e)
  <2> SUFFICES ASSUME d.audit # <<>>
               PROVE  LET q == d.audit[Len(d.audit)].req
                      IN  e.ver[q.ver].last.act = "validate" \/ Repeated(e, q)
    BY DEF Answered, Quiet
  <2> DEFINE q == d.audit[Len(d.audit)].req
  <2>1. d.audit \in Seq(Entry)
    BY GoodParts, StoreFields
  <2>2. Len(d.audit) \in 1..Len(d.audit)
    BY <2>1
  <2>3. EntryGood(d, d.audit[Len(d.audit)])
    BY <2>2, GoodParts DEF EntriesGood, Quiet
  <2>4. q.ver \in Stored(d)
    BY <2>3 DEF EntryGood, Quiet
  <2>5. d.ver[q.ver].last.act = "validate" \/ Repeated(d, q)
    BY GoodParts DEF Answered, Quiet
  <2> HIDE DEF q
  <2>6. e.ver[q.ver].last.act = "validate" \/ Repeated(e, q)
    BY <2>4, <2>5 DEF Repeated, Quiet
  <2> QED BY <2>6 DEF q
<1> QED BY <1>1, <1>2, <1>3

LEMMA QuietGood ==
    ASSUME NEW d, Good(d), NEW e, NEW v \in Stored(d), NEW a \in Attempts,
           NEW arow \in Attempt, NEW row \in Version, Writes(d, e, a, v, arow, row),
           arow.ver = v, arow.st = "running" => row.latest = a,
           d.att[a] = None \/ (d.att[a].ver = v /\ d.att[a].st = "running"),
           \A b \in Attempts \ {a} :
               d.att[b] # None /\ d.att[b].ver = v => d.att[b].st # "running",
           row.rev = d.ver[v].rev, row.last = d.ver[v].last \/ row.last.act = "validate",
           d.ver[v].st \notin {"approved", "active"}, row.st # "active",
           RowGood(e.att, e.audit, v, row),
           NEW pass, pass \/ d.att[a] = None \/ arow.st # "passed"
    PROVE  Follows(d, e, pass)
<1> USE DEF Writes
<1>0. /\ d \in Store /\ v \in Versions /\ row # None /\ arow # None
      /\ d.ver \in [Versions -> Version \cup {None}] /\ d.att \in [Attempts -> Attempt \cup {None}]
  BY GoodParts, StoreFields, StoredRow, RowAssumption
<1>1. Stored(e) = Stored(d) /\ e.ver[v] = row /\ \A u \in Versions \ {v} : e.ver[u] = d.ver[u]
  BY <1>0 DEF Stored
<1>2. e.att[a] = arow /\ \A b \in Attempts \ {a} : e.att[b] = d.att[b]
  BY <1>0
<1>3. RowsGood(e)
  <2> SUFFICES ASSUME NEW u \in Stored(d) PROVE RowGood(e.att, e.audit, u, e.ver[u])
    BY <1>1 DEF RowsGood
  <2>1. CASE u = v
    BY <1>1, <2>1
  <2>2. CASE u # v
    <3>1. RowGood(d.att, d.audit, u, d.ver[u]) /\ u \in Versions /\ d.ver[u] \in Version
      BY <1>0, GoodParts, StoredRow DEF RowsGood
    <3>2. d.ver[u].latest \in Attempts \cup {None} /\ d.ver[u].valid \in Attempts \cup {None}
      BY <3>1 DEF Version
    <3>3. /\ d.ver[u].latest # None => d.ver[u].latest # a
          /\ d.ver[u].valid # None => d.ver[u].valid # a
      BY <2>2, <3>1 DEF RowGood
    <3> QED BY <1>1, <1>2, <2>2, <3>1, <3>2, <3>3 DEF RowGood
  <2> QED BY <2>1, <2>2
<1>4. AttemptsGood(e)
  <2> SUFFICES ASSUME NEW b \in Attempts, e.att[b] # None
               PROVE  /\ e.att[b].ver \in Stored(d)
                      /\ e.att[b].st = "running" => e.ver[e.att[b].ver].latest = b
    BY <1>1 DEF AttemptsGood
  <2>1. CASE b = a
    BY <1>1, <1>2, <2>1
  <2>2. CASE b # a
    <3>1. /\ d.att[b] # None /\ d.att[b].ver \in Stored(d)
          /\ d.att[b].st = "running" => d.ver[d.att[b].ver].latest = b
      BY <1>2, <2>2, GoodParts DEF AttemptsGood
    <3>2. d.att[b].st = "running" => d.att[b].ver # v
      BY <2>2, <3>1
    <3>3. d.att[b].ver \in Versions
      BY <1>0, <3>1, StoredRow
    <3> QED BY <1>1, <1>2, <2>2, <3>1, <3>2, <3>3
  <2> QED BY <2>1, <2>2
<1>5. ScopeGood(e)
  BY <1>1, GoodParts DEF ScopeGood
<1>6. Bounded(e)
  <2>1. \A u \in Stored(d) : e.ver[u].rev = d.ver[u].rev
    BY <1>0, <1>1, StoredRow
  <2> QED BY <1>1, <2>1, GoodParts DEF Bounded
<1>7. EntriesGood(e) /\ Once(e) /\ Answered(e)
  <2>1. Quiet(d, e)
    BY <1>0, <1>1, StoredRow DEF Quiet
  <2> QED BY <2>1, QuietTrail
<1>8. Good(e)
  BY <1>3, <1>4, <1>5, <1>6, <1>7 DEF Good
<1>9. d.active # None => e.ver[d.active].valid = d.ver[d.active].valid
  <2>1. d.active # None => d.active \in Versions \ {v}
    BY GoodParts, StoreFields DEF ScopeGood
  <2> QED BY <1>1, <2>1
<1>10. ASSUME NEW b \in Attempts, d.att[b] # None
       PROVE  /\ e.att[b] # None
              /\ d.att[b].st # "running" => e.att[b] = d.att[b]
              /\ ~pass /\ d.att[b].st = "running" => e.att[b].st # "passed"
  <2>1. CASE b = a
    BY <1>0, <1>2, <1>10, <2>1
  <2>2. CASE b # a
    BY <1>2, <1>10, <2>2
  <2> QED BY <2>1, <2>2
<1>11. d.gen \in Nat /\ e.gen = d.gen /\ e.active = d.active
  BY <1>0, StoreFields
<1> QED BY <1>1, <1>8, <1>9, <1>10, <1>11 DEF Follows

\* A running attempt belongs to a version that is not, and cannot be, in use.
LEMMA RunningRow ==
    ASSUME NEW d, Good(d), NEW a \in Attempts, d.att[a] # None, d.att[a].st = "running"
    PROVE  LET v == d.att[a].ver IN
           /\ v \in Stored(d) /\ d.ver[v] \in Version /\ d.att[a] \in Attempt
           /\ d.ver[v].latest = a /\ d.ver[v].valid = None
           /\ d.ver[v].st \notin {"approved", "active"}
           /\ \A b \in Attempts \ {a} :
                  d.att[b] # None /\ d.att[b].ver = v => d.att[b].st # "running"
<1> DEFINE v == d.att[a].ver
<1>0. v \in Stored(d) /\ d.ver[v].latest = a
  BY GoodParts DEF AttemptsGood
<1>1. d \in Store /\ d.ver[v] \in Version /\ d.att[a] \in Attempt
  BY <1>0, GoodParts, StoredRow, StoreFields
<1>2. RowGood(d.att, d.audit, v, d.ver[v])
  BY <1>0, GoodParts DEF RowsGood
<1>3. d.ver[v].valid = None
  BY <1>0, <1>2 DEF RowGood
<1>4. d.ver[v].st \notin {"approved", "active"}
  BY <1>2, <1>3 DEF RowGood
<1>5. \A b \in Attempts \ {a} : d.att[b] # None /\ d.att[b].ver = v => d.att[b].st # "running"
  BY <1>0, GoodParts DEF AttemptsGood
<1> QED BY <1>0, <1>1, <1>3, <1>4, <1>5

LEMMA ReceiptGood ==
    ASSUME NEW d, Good(d), NEW a \in Attempts, d.att[a] # None, d.att[a].st = "running",
           NEW status \in {"passed", "failed", "error"}
    PROVE  Follows(d, WithReceipt(d, a, status), status = "passed")
<1> DEFINE v == d.att[a].ver
           e == WithReceipt(d, a, status)
           arow == [d.att[a] EXCEPT !.st = status]
           row == SettledRow(d.ver[v], a, status, d.gen)
<1>0. /\ v \in Stored(d) /\ d.ver[v] \in Version /\ d.att[a] \in Attempt
      /\ d.ver[v].latest = a /\ d.ver[v].valid = None
      /\ d.ver[v].st \notin {"approved", "active"}
      /\ \A b \in Attempts \ {a} :
             d.att[b] # None /\ d.att[b].ver = v => d.att[b].st # "running"
  BY RunningRow
<1>1. d \in Store /\ d.gen \in Nat /\ d.att \in [Attempts -> Attempt \cup {None}]
  BY GoodParts, StoreFields
<1>2. Writes(d, e, a, v, arow, row)
  BY <1>0, <1>1, ReceiptIs
<1>3. /\ row \in Version /\ row.latest = a /\ row.appr = 0 /\ row.rev = d.ver[v].rev
      /\ row.valid = (IF status = "passed" THEN a ELSE None)
      /\ row.st = (IF status = "passed" THEN "validated"
                   ELSE IF d.ver[v].st = "disabled" THEN "disabled" ELSE "proposed")
      /\ row.last.st = row.st /\ row.last.act = "validate"
  <2>1. IsSettled(row, d.ver[v], a, status)
    BY <1>0, <1>1, SettledIs
  <2> HIDE DEF v, row
  <2> QED BY <1>0, <2>1 DEF IsSettled
<1>4. arow \in Attempt /\ arow.ver = v /\ arow.st = status
  BY <1>0 DEF Attempt
<1> HIDE DEF e, row, arow
<1>5. RowGood(e.att, e.audit, v, row)
  <2>1. e.att[a] = arow /\ arow # None /\ a # None
    BY <1>1, <1>2, <1>4, RowAssumption, NoneAssumption DEF Writes
  <2> QED BY <1>3, <1>4, <2>1 DEF RowGood
<1> HIDE DEF v
<1>6. /\ v \in Stored(d) /\ arow.ver = v
      /\ arow.st = "running" => row.latest = a
      /\ d.att[a].ver = v /\ row.rev = d.ver[v].rev /\ row.last.act = "validate"
      /\ row.st # "active" /\ ((status = "passed") \/ arow.st # "passed")
  BY <1>0, <1>3, <1>4 DEF v
<1>7. Follows(d, e, status = "passed")
  <2> DEFINE pass == status = "passed"
  <2>1. pass \/ d.att[a] = None \/ arow.st # "passed"
    BY <1>6
  <2> HIDE DEF pass
  <2>2. Follows(d, e, pass)
    BY <1>0, <1>2, <1>3, <1>4, <1>5, <1>6, <2>1, QuietGood
  <2> QED BY <2>2 DEF pass
<1> QED BY <1>7 DEF e

LEMMA FollowsRefl ==
    ASSUME NEW d, Good(d), NEW pass
    PROVE  Follows(d, d, pass)
BY GoodParts, StoreFields DEF Follows

LEMMA FollowsTrans ==
    ASSUME NEW d, Good(d), NEW e, NEW f, NEW pass, Follows(d, e, pass), Follows(e, f, pass)
    PROVE  Follows(d, f, pass)
<1>1. d.gen \in Nat /\ e.gen \in Nat /\ f.gen \in Nat
  BY GoodParts, StoreFields DEF Follows
<1>2. d.gen <= f.gen /\ (f.gen = d.gen => e.gen = d.gen /\ f.gen = e.gen)
  BY <1>1 DEF Follows
<1> QED BY <1>2 DEF Follows

LEMMA FollowsMore ==
    ASSUME NEW d, NEW e, Follows(d, e, FALSE), NEW pass \in BOOLEAN
    PROVE  Follows(d, e, pass)
BY DEF Follows

LEMMA CompleteGood ==
    ASSUME NEW d, Good(d), NEW a \in Attempts, d.att[a] # None,
           NEW result \in {"passed", "failed", "error"}
    PROVE  Follows(d, Complete(d, a, result), result = "passed")
<1>1. CASE d.att[a].st # "running"
  BY <1>1, FollowsRefl DEF Complete
<1>2. CASE d.att[a].st = "running"
  <2>1. CASE d.att[a].due \/ d.att[a].build # build
    <3>1. Complete(d, a, result) = WithReceipt(d, a, "error")
      BY <1>2, <2>1 DEF Complete
    <3>2. Follows(d, WithReceipt(d, a, "error"), FALSE)
      BY <1>2, ReceiptGood
    <3> QED BY <3>1, <3>2, FollowsMore
  <2>2. CASE ~(d.att[a].due \/ d.att[a].build # build)
    <3>1. Complete(d, a, result) = WithReceipt(d, a, result)
      BY <1>2, <2>2 DEF Complete
    <3> QED BY <1>2, <3>1, ReceiptGood
  <2> QED BY <2>1, <2>2
<1> QED BY <1>1, <1>2

LEMMA RecoverGood ==
    ASSUME NEW d, Good(d), NEW v \in Stored(d)
    PROVE  /\ Follows(d, Recover(d, v), FALSE)
           /\ \A b \in Attempts : d.att[b] = None => Recover(d, v).att[b] = None
<1> DEFINE a == d.ver[v].latest
<1>0. d \in Store /\ d.ver[v] \in Version
  BY GoodParts, StoredRow
<1>1. CASE ~(a # None /\ d.att[a].st = "running" /\ d.att[a].due)
  BY <1>1, FollowsRefl DEF Recover
<1>2. CASE a # None /\ d.att[a].st = "running" /\ d.att[a].due
  <2>1. a \in Attempts /\ d.att[a] # None
    BY <1>0, <1>2, GoodParts DEF Version, RowsGood, RowGood
  <2>2. Recover(d, v) = WithReceipt(d, a, "error")
    BY <1>2 DEF Recover, Complete
  <2> HIDE DEF a
  <2>3. Follows(d, WithReceipt(d, a, "error"), FALSE)
    BY <1>2, <2>1, ReceiptGood
  <2> DEFINE w == d.att[a].ver
  <2>4. w \in Stored(d)
    BY <1>2, <2>1, RunningRow
  <2>5. Writes(d, WithReceipt(d, a, "error"), a, w, [d.att[a] EXCEPT !.st = "error"],
               SettledRow(d.ver[w], a, "error", d.gen))
    BY <1>0, <2>1, <2>4, ReceiptIs
  <2>6. \A b \in Attempts : d.att[b] = None => WithReceipt(d, a, "error").att[b] = None
    BY <1>0, <2>1, <2>5, StoreFields DEF Writes
  <2> QED BY <2>2, <2>3, <2>6
<1> QED BY <1>1, <1>2

LEMMA AdmittedIs ==
    ASSUME NEW row \in Version, NEW a \in Attempts, NEW gen \in Nat
    PROVE  LET new == AdmittedRow(row, a, gen) IN
           /\ new \in Version /\ new.latest = a /\ new.appr = 0 /\ new.rev = row.rev
           /\ new.valid = None
           /\ new.st = (IF row.st = "disabled" THEN "disabled" ELSE "proposed")
           /\ new.last.st = new.st /\ new.last.act = "validate"
<1> DEFINE st == IF row.st = "disabled" THEN "disabled" ELSE "proposed"
           last == Record("validate", None, st, gen)
<1>1. st \in States
  BY DEF States
<1>2. last \in Transition /\ last.st = st /\ last.act = "validate"
  BY <1>1 DEF Record, Transition
<1> DEFINE new == [row EXCEPT !.latest = a, !.valid = None, !.appr = 0, !.st = st, !.last = last]
<1>3. AdmittedRow(row, a, gen) = new
  BY DEF AdmittedRow
<1> HIDE DEF st, last
<1>4. /\ new \in Version /\ new.latest = a /\ new.appr = 0 /\ new.rev = row.rev
      /\ new.valid = None /\ new.st = st /\ new.last = last
  BY <1>1, <1>2 DEF Version
<1> QED BY <1>2, <1>3, <1>4 DEF st

\* validate() opens an attempt only where none runs and nothing is in use.
LEMMA AdmittedGood ==
    ASSUME NEW d, Good(d), NEW v \in Stored(d), NEW a \in Attempts, build \in Builds,
           d.att[a] = None, Validatable(d, v), ~HasAttempt(d, v)
    PROVE  Follows(d, Admitted(d, v, a), FALSE) /\ Admitted(d, v, a).att[a] # None
<1> DEFINE e == Admitted(d, v, a)
           arow == [st |-> "running", ver |-> v, build |-> build, due |-> FALSE]
           row == AdmittedRow(d.ver[v], a, d.gen)
<1>1. /\ d \in Store /\ d.gen \in Nat /\ d.att \in [Attempts -> Attempt \cup {None}]
      /\ v \in Versions /\ d.ver[v] \in Version
  BY GoodParts, StoreFields, StoredRow
<1>2. arow \in Attempt /\ arow.ver = v /\ arow.st = "running"
  BY <1>1 DEF Attempt
<1>3. /\ row \in Version /\ row.latest = a /\ row.appr = 0 /\ row.rev = d.ver[v].rev
      /\ row.valid = None
      /\ row.st = (IF d.ver[v].st = "disabled" THEN "disabled" ELSE "proposed")
      /\ row.last.st = row.st /\ row.last.act = "validate"
  BY <1>1, AdmittedIs
<1>4. e = Written(d, a, v, arow, row)
  <2> HIDE DEF arow
  <2>1. e = [d EXCEPT !.att[a] = arow, !.ver[v] = row]
    BY DEF Admitted, arow
  <2> HIDE DEF e, row
  <2> QED BY <2>1 DEF Written
<1> HIDE DEF e, arow, row
<1>5. Writes(d, e, a, v, arow, row)
  BY <1>1, <1>2, <1>3, <1>4, RowsWritten
<1>6. e.att[a] = arow /\ arow # None /\ a # None
  BY <1>1, <1>2, <1>5, RowAssumption, NoneAssumption DEF Writes
<1>7. RowGood(e.att, e.audit, v, row)
  BY <1>2, <1>3, <1>6 DEF RowGood
<1>8. ASSUME NEW b \in Attempts \ {a}, d.att[b] # None, d.att[b].ver = v, d.att[b].st = "running"
      PROVE  FALSE
  <2>1. d.ver[v].latest = b /\ b # None
    BY <1>8, GoodParts, NoneAssumption DEF AttemptsGood
  <2> QED BY <1>8, <2>1 DEF HasAttempt
<1>9. d.ver[v].st \notin {"approved", "active"}
  BY DEF Validatable
<1>10. Follows(d, e, FALSE)
  BY <1>2, <1>3, <1>5, <1>7, <1>8, <1>9, QuietGood
<1> QED BY <1>6, <1>10 DEF e

LEMMA ValidateFollows ==
    ASSUME Good(db), build \in Builds \cup {None}, NEW v \in Versions, NEW a \in Attempts,
           NEW refused \in BOOLEAN, Validate(v, a, refused)
    PROVE  Follows(db, db', FALSE) /\ db'.att[a] # None
<1> DEFINE d == Recover(db, v)
<1>1. v \in Stored(db) /\ build \in Builds /\ db.att[a] = None
  BY DEF Validate
<1>2. Follows(db, d, FALSE) /\ d.att[a] = None
  BY <1>1, RecoverGood
<1>3. Good(d) /\ v \in Stored(d)
  BY <1>1, <1>2 DEF Follows
<1>4. /\ Validatable(d, v) /\ ~HasAttempt(d, v)
      /\ db' = IF refused THEN Complete(Admitted(d, v, a), a, "error") ELSE Admitted(d, v, a)
  BY DEF Validate
<1> HIDE DEF d
<1> DEFINE f == Admitted(d, v, a)
<1>5. Follows(d, f, FALSE) /\ f.att[a] # None
  BY <1>1, <1>2, <1>3, <1>4, AdmittedGood
<1>6. Follows(db, f, FALSE) /\ Good(f)
  BY <1>2, <1>5, FollowsTrans DEF Follows
<1> HIDE DEF f
<1>7. CASE ~refused
  BY <1>4, <1>5, <1>6, <1>7 DEF f
<1>8. CASE refused
  <2>1. db' = Complete(f, a, "error")
    BY <1>4, <1>8 DEF f
  <2>2. Follows(f, Complete(f, a, "error"), FALSE)
    BY <1>5, <1>6, CompleteGood
  <2> QED BY <1>5, <1>6, <2>1, <2>2, FollowsTrans DEF Follows
<1> QED BY <1>7, <1>8

LEMMA GetFollows ==
    ASSUME Good(db), NEW v \in Versions, Get(v)
    PROVE  Follows(db, db', FALSE)
BY RecoverGood DEF Get

LEMMA SettleFollows ==
    ASSUME Good(db), NEW a \in Attempts, db.att[a] # None,
           NEW result \in {"passed", "failed", "error"}, Settle(a, result)
    PROVE  Follows(db, db', result = "passed")
BY CompleteGood, FollowsRefl DEF Settle

LEMMA DeadlineFollows ==
    ASSUME Good(db), NEW a \in Attempts, DeadlinePasses(a)
    PROVE  Follows(db, db', FALSE)
<1> DEFINE v == db.att[a].ver
           arow == [db.att[a] EXCEPT !.due = TRUE]
           e == [db EXCEPT !.att[a].due = TRUE]
<1>0. db.att[a] # None /\ db.att[a].st = "running" /\ db' = e
  BY DEF DeadlinePasses
<1>1. /\ v \in Stored(db) /\ db.ver[v] \in Version /\ db.att[a] \in Attempt
      /\ db.ver[v].latest = a /\ db.ver[v].valid = None
      /\ db.ver[v].st \notin {"approved", "active"}
      /\ \A b \in Attempts \ {a} :
             db.att[b] # None /\ db.att[b].ver = v => db.att[b].st # "running"
  BY <1>0, RunningRow
<1>2. arow \in Attempt /\ arow.ver = v /\ arow.st = "running"
  BY <1>0, <1>1 DEF Attempt
<1>3. /\ db \in Store /\ db.att \in [Attempts -> Attempt \cup {None}]
      /\ db.ver \in [Versions -> Version \cup {None}]
  BY GoodParts, StoreFields
<1>4. /\ e.ver = db.ver /\ e.active = db.active /\ e.gen = db.gen /\ e.audit = db.audit
      /\ e.att = [db.att EXCEPT ![a] = arow]
  BY <1>3 DEF Store
<1> HIDE DEF arow
<1>5. [db.att EXCEPT ![a] = arow] \in [Attempts -> Attempt \cup {None}]
  BY <1>2, <1>3
<1>6. e \in Store
  <2> DEFINE att == [db.att EXCEPT ![a] = arow]
  <2>1. e = [db EXCEPT !.att = att]
    BY Zenon DEF arow
  <2> HIDE DEF att, e
  <2> QED BY <1>3, <1>5, <2>1 DEF Store, att
<1> HIDE DEF e
<1>7. Writes(db, e, a, v, arow, db.ver[v])
  BY <1>3, <1>4, <1>6 DEF Writes
<1>8. e.att[a] = arow /\ arow # None
  BY <1>2, <1>3, <1>4, RowAssumption
<1>9. RowGood(e.att, e.audit, v, db.ver[v])
  <2>1. RowGood(db.att, db.audit, v, db.ver[v])
    BY <1>1, GoodParts DEF RowsGood
  <2> HIDE DEF v
  <2> QED BY <1>1, <1>2, <1>4, <1>8, <2>1 DEF RowGood
<1>10. Follows(db, e, FALSE)
  <2>1. db.att[a].ver = v /\ db.ver[v].rev = db.ver[v].rev /\ db.ver[v].st # "active"
    BY <1>1
  <2> HIDE DEF v
  <2> DEFINE pass == FALSE
             row == db.ver[v]
  <2>2. /\ pass \/ db.att[a] = None \/ arow.st # "passed"
        /\ row \in Version /\ row.rev = db.ver[v].rev /\ row.last = db.ver[v].last
        /\ row.st # "active" /\ RowGood(e.att, e.audit, v, row)
        /\ Writes(db, e, a, v, arow, row)
    BY <1>1, <1>2, <1>7, <1>9
  <2>3. /\ arow.st = "running" => row.latest = a
        /\ db.att[a] = None \/ (db.att[a].ver = v /\ db.att[a].st = "running")
    BY <1>0, <1>1, <2>1
  <2> HIDE DEF pass, row
  <2>4. Follows(db, e, pass)
    BY <1>1, <1>2, <2>2, <2>3, QuietGood
  <2> QED BY <2>4 DEF pass
<1> QED BY <1>0, <1>10

LEMMA MaxExists ==
    ASSUME NEW S \in SUBSET Nat, S # {}, NEW n \in Nat, \A s \in S : s <= n
    PROVE  \E m \in S : \A s \in S : s <= m
<1> DEFINE R == {ss \in Nat \X Nat : ss[1] < ss[2]}
           T == {n - s : s \in S}
<1>1. IsWellFoundedOn(R, Nat)
  BY NatLessThanWellFounded DEF OpToRel
<1>2. T \subseteq Nat /\ T # {}
  <2>1. \A s \in S : n - s \in Nat
    OBVIOUS
  <2> QED BY <2>1
<1>3. PICK x \in T : \A y \in T : ~(<<y, x>> \in R)
  <2> HIDE DEF R, T
  <2> QED BY <1>1, <1>2, WFMin
<1>4. \A y \in T : x <= y
  <2> HIDE DEF T
  <2> SUFFICES ASSUME NEW y \in T, ~(x <= y) PROVE FALSE
    OBVIOUS
  <2>1. x \in Nat /\ y \in Nat /\ y < x
    BY <1>2
  <2>2. <<y, x>> \in Nat \X Nat /\ <<y, x>>[1] = y /\ <<y, x>>[2] = x
    BY <2>1
  <2>3. <<y, x>> \in R
    BY <2>1, <2>2
  <2> QED BY <1>3, <2>3
<1>5. PICK m \in S : x = n - m
  BY <1>3
<1>6. ASSUME NEW s \in S PROVE s <= m
  <2>1. n - m <= n - s
    BY <1>4, <1>5
  <2>2. n \in Nat /\ m \in Nat /\ s \in Nat
    OBVIOUS
  <2> HIDE DEF T, R
  <2> QED BY <2>1, <2>2
<1> QED BY <1>6

LEMMA RevisionNat ==
    ASSUME NEW d, Good(d), NEW fam
    PROVE  NextRevision(d, fam) \in Nat
<1> DEFINE revs == {d.ver[u].rev : u \in {w \in Stored(d) : d.ver[w].fam = fam}}
<1>1. revs \in SUBSET Nat
  BY GoodParts, StoredRow DEF Version
<1>2. PICK n \in Nat : \A m \in revs : m <= n
  BY GoodParts DEF Bounded
<1>3. NextRevision(d, fam) = IF revs = {} THEN 1
                             ELSE 1 + CHOOSE k \in revs : \A m \in revs : m <= k
  BY DEF NextRevision
<1> HIDE DEF revs
<1> DEFINE c == CHOOSE k \in revs : \A m \in revs : m <= k
<1>4. revs # {} => c \in revs
  <2> SUFFICES ASSUME revs # {} PROVE c \in revs
    OBVIOUS
  <2>1. \E k \in revs : \A m \in revs : m <= k
    BY <1>1, <1>2, MaxExists
  <2> QED BY <2>1
<1>5. NextRevision(d, fam) = IF revs = {} THEN 1 ELSE 1 + c
  BY <1>3
<1> HIDE DEF c
<1>6. ASSUME revs # {} PROVE 1 + c \in Nat
  <2>1. c \in revs
    BY <1>4, <1>6
  <2>2. c \in Nat
    BY <1>1, <2>1, Zenon
  <2> QED BY <2>2
<1>7. CASE revs = {}
  BY <1>5, <1>7
<1>8. CASE revs # {}
  BY <1>5, <1>6, <1>8
<1> QED BY <1>7, <1>8

LEMMA ProposeFollows ==
    ASSUME Good(db), NEW v \in Versions, NEW parent \in Versions \cup {None}, Propose(v, parent)
    PROVE  Follows(db, db', FALSE)
<1> DEFINE fam == IF parent = None THEN v ELSE db.ver[parent].fam
           last == Record("propose", None, "proposed", db.gen)
           row == [st |-> "proposed", fam |-> fam, rev |-> NextRevision(db, fam),
                   latest |-> None, valid |-> None, appr |-> 0, last |-> last]
           e == [db EXCEPT !.ver[v] = row]
<1>0. /\ v \notin Stored(db) /\ db' = e
      /\ parent # None => parent \in Stored(db)
  BY DEF Propose
<1>1. /\ db \in Store /\ db.gen \in Nat /\ db.ver \in [Versions -> Version \cup {None}]
      /\ db.att \in [Attempts -> Attempt \cup {None}]
  BY GoodParts, StoreFields
<1>2. fam \in Versions
  BY <1>0, <1>1, StoredRow DEF Version
<1> HIDE DEF fam
<1>3. NextRevision(db, fam) \in Nat
  BY RevisionNat
<1>4. last \in Transition /\ last.st = "proposed"
  BY <1>1 DEF Record, Transition, States
<1> HIDE DEF last
<1>5. /\ row \in Version /\ row.st = "proposed" /\ row.latest = None /\ row.valid = None
      /\ row.appr = 0 /\ row.last = last /\ row.rev \in Nat
  BY <1>2, <1>3, <1>4 DEF Version, States
<1> HIDE DEF row
<1>6. row # None
  BY <1>5, RowAssumption
<1>7. /\ e.ver = [db.ver EXCEPT ![v] = row] /\ e.att = db.att /\ e.active = db.active
      /\ e.gen = db.gen /\ e.audit = db.audit /\ e \in Store
  <2>1. [db.ver EXCEPT ![v] = row] \in [Versions -> Version \cup {None}]
    BY <1>1, <1>5
  <2> DEFINE ver == [db.ver EXCEPT ![v] = row]
  <2>2. e = [db EXCEPT !.ver = ver]
    BY Zenon
  <2> HIDE DEF ver, e
  <2> QED BY <1>1, <2>1, <2>2 DEF Store, ver
<1> HIDE DEF e
<1>8. e.ver[v] = row /\ Stored(e) = Stored(db) \cup {v} /\ \A u \in Stored(db) : e.ver[u] = db.ver[u]
  BY <1>0, <1>1, <1>6, <1>7 DEF Stored
<1>9. RowsGood(e)
  <2> SUFFICES ASSUME NEW u \in Stored(db) \cup {v} PROVE RowGood(e.att, e.audit, u, e.ver[u])
    BY <1>8 DEF RowsGood
  <2>1. CASE u = v
    BY <1>4, <1>5, <1>8, <2>1 DEF RowGood
  <2>2. CASE u \in Stored(db)
    BY <1>7, <1>8, <2>2, GoodParts DEF RowsGood
  <2> QED BY <2>1, <2>2
<1>10. AttemptsGood(e)
  BY <1>7, <1>8, GoodParts DEF AttemptsGood
<1>11. ScopeGood(e)
  <2> SUFFICES ASSUME NEW u \in Versions
               PROVE  (u \in Stored(e) /\ e.ver[u].st = "active") <=> e.active = u
    BY DEF ScopeGood
  <2>1. (u \in Stored(db) /\ db.ver[u].st = "active") <=> db.active = u
    BY GoodParts DEF ScopeGood
  <2> QED BY <1>0, <1>5, <1>7, <1>8, <2>1
<1>12. Bounded(e)
  <2>1. PICK n \in Nat : \A u \in Stored(db) : db.ver[u].rev <= n
    BY GoodParts DEF Bounded
  <2>2. \A u \in Stored(db) : db.ver[u].rev \in Nat
    BY <1>1, StoredRow DEF Version
  <2>3. n + row.rev \in Nat /\ \A u \in Stored(e) : e.ver[u].rev <= n + row.rev
    BY <1>5, <1>8, <2>1, <2>2
  <2> QED BY <2>3 DEF Bounded
<1>13. EntriesGood(e) /\ Once(e) /\ Answered(e)
  <2>1. Quiet(db, e)
    BY <1>7, <1>8 DEF Quiet
  <2> QED BY <1>7, <2>1, QuietTrail
<1>14. Good(e)
  BY <1>7, <1>9, <1>10, <1>11, <1>12, <1>13 DEF Good
<1>15. db.active # None => e.ver[db.active].valid = db.ver[db.active].valid
  <2>1. db.active # None => db.active \in Stored(db)
    BY <1>1, GoodParts, StoreFields DEF ScopeGood
  <2> QED BY <1>8, <2>1
<1>16. Follows(db, e, FALSE)
  BY <1>1, <1>7, <1>8, <1>14, <1>15 DEF Follows
<1> QED BY <1>0, <1>16

-----------------------------------------------------------------------------
(* Mutations: a version row and an audit entry are written together.       *)

LEMMA RequestIs ==
    ASSUME db \in Store, NEW q \in Requests(db)
    PROVE  /\ q \in Request /\ q.ver \in Stored(db)
           /\ q.act # "disable" => q.att \in Attempts
<1>1. db.audit \in Seq(Entry) /\ Len(db.audit) \in Nat /\ MaxGen \in Nat
  BY StoreFields, BoundsAssumption
<1>2. Stored(db) \subseteq Versions
  BY DEF Stored
<1> QED BY <1>1, <1>2 DEF Requests, Request, Mutations

\* What the rows owe to each other, whoever is active.
Rows(d) == d \in Store /\ RowsGood(d) /\ AttemptsGood(d) /\ Bounded(d)

Logs(d, e, v, row, entry) ==
    /\ e.ver = [d.ver EXCEPT ![v] = row] /\ e.att = d.att /\ e.audit = Append(d.audit, entry)

\* The store after a row and an entry are written, and the same under another
\* scope row.
Logged(d, v, row, entry) == [d EXCEPT !.audit = Append(@, entry), !.ver[v] = row]

Rescoped(d, v, row, entry, active, gen) ==
    [d EXCEPT !.audit = Append(@, entry), !.ver[v] = row, !.active = active, !.gen = gen]

LEMMA LogTypes ==
    ASSUME NEW d \in Store, NEW v \in Versions, NEW row \in Version, NEW entry \in Entry
    PROVE  /\ [d.ver EXCEPT ![v] = row] \in [Versions -> Version \cup {None}]
           /\ Append(d.audit, entry) \in Seq(Entry)
<1>1. d.ver \in [Versions -> Version \cup {None}] /\ d.audit \in Seq(Entry)
  BY StoreFields
<1> QED BY <1>1

LEMMA LoggedIs ==
    ASSUME NEW d \in Store, NEW v \in Versions, NEW row \in Version, NEW entry \in Entry
    PROVE  LET e == Logged(d, v, row, entry) IN
           e \in Store /\ Logs(d, e, v, row, entry) /\ e.active = d.active /\ e.gen = d.gen
<1> DEFINE ver == [d.ver EXCEPT ![v] = row]
           audit == Append(d.audit, entry)
           e == [d EXCEPT !.audit = audit, !.ver = ver]
<1>1. ver \in [Versions -> Version \cup {None}] /\ audit \in Seq(Entry)
  BY LogTypes
<1>2. Logged(d, v, row, entry) = e
  BY Zenon DEF Logged
<1> HIDE DEF ver, audit
<1>3. e \in Store /\ e.ver = ver /\ e.att = d.att /\ e.audit = audit /\ e.active = d.active /\ e.gen = d.gen
  BY <1>1 DEF Store
<1> QED BY <1>2, <1>3 DEF Logs, ver, audit

LEMMA RescopedIs ==
    ASSUME NEW d \in Store, NEW v \in Versions, NEW row \in Version, NEW entry \in Entry,
           NEW active \in Versions \cup {None}, NEW gen \in Nat
    PROVE  LET e == Rescoped(d, v, row, entry, active, gen) IN
           e \in Store /\ Logs(d, e, v, row, entry) /\ e.active = active /\ e.gen = gen
<1> DEFINE ver == [d.ver EXCEPT ![v] = row]
           audit == Append(d.audit, entry)
           e == [d EXCEPT !.audit = audit, !.ver = ver, !.active = active, !.gen = gen]
<1>1. ver \in [Versions -> Version \cup {None}] /\ audit \in Seq(Entry)
  BY LogTypes
<1>2. Rescoped(d, v, row, entry, active, gen) = e
  BY Zenon DEF Rescoped
<1> HIDE DEF ver, audit
<1>3. e \in Store /\ e.ver = ver /\ e.att = d.att /\ e.audit = audit /\ e.active = active /\ e.gen = gen
  BY <1>1 DEF Store
<1> QED BY <1>2, <1>3 DEF Logs, ver, audit

\* A row may be relabelled, and rest on the entry written with it.
Relabels(old, row, v, entry, n) ==
    /\ row \in Version /\ row.latest = old.latest /\ row.valid = old.valid /\ row.rev = old.rev
    /\ row.last.st = row.st /\ row.st \notin {"proposed", "validated"}
    /\ row.st \in {"approved", "active"} => row.appr # 0
    /\ row.appr # 0 => row.valid # None
    /\ \/ row.appr = old.appr
       \/ row.appr = n /\ entry.act = "approve" /\ entry.ver = v /\ entry.att = row.valid

LEMMA LoggedRows ==
    ASSUME NEW d, Rows(d), NEW e \in Store, NEW v \in Stored(d), NEW row, NEW entry \in Entry,
           Logs(d, e, v, row, entry), Relabels(d.ver[v], row, v, entry, Len(d.audit) + 1)
    PROVE  /\ Rows(e) /\ Stored(e) = Stored(d) /\ e.ver[v] = row
           /\ \A u \in Versions \ {v} : e.ver[u] = d.ver[u]
           /\ Len(e.audit) = Len(d.audit) + 1 /\ e.audit[Len(d.audit) + 1] = entry
           /\ \A i \in 1..Len(d.audit) : e.audit[i] = d.audit[i]
<1>0. /\ d \in Store /\ v \in Versions /\ row \in Version /\ row # None
      /\ d.ver \in [Versions -> Version \cup {None}] /\ d.audit \in Seq(Entry)
  BY StoreFields, StoredRow, RowAssumption DEF Rows, Relabels
<1>1. Stored(e) = Stored(d) /\ e.ver[v] = row /\ \A u \in Versions \ {v} : e.ver[u] = d.ver[u]
  <2>1. e.ver = [d.ver EXCEPT ![v] = row]
    BY DEF Logs
  <2> QED BY <1>0, <2>1, StoredRow DEF Stored
<1>2. /\ Len(e.audit) = Len(d.audit) + 1 /\ e.audit[Len(d.audit) + 1] = entry
      /\ \A i \in 1..Len(d.audit) : e.audit[i] = d.audit[i]
  BY <1>0 DEF Logs
<1>3. Len(d.audit) \in Nat /\ e.att = d.att
  BY <1>0 DEF Logs
<1>4. RowsGood(e)
  <2> SUFFICES ASSUME NEW u \in Stored(d) PROVE RowGood(e.att, e.audit, u, e.ver[u])
    BY <1>1 DEF RowsGood
  <2>1. RowGood(d.att, d.audit, u, d.ver[u]) /\ u \in Versions /\ d.ver[u] \in Version
    BY <1>0, StoredRow DEF Rows, RowsGood
  <2>2. CASE u # v
    <3>1. e.ver[u] = d.ver[u]
      BY <1>1, <2>1, <2>2
    <3>2. d.ver[u].appr # 0 => /\ d.ver[u].appr \in 1..Len(e.audit)
                               /\ e.audit[d.ver[u].appr] = d.audit[d.ver[u].appr]
      BY <1>2, <1>3, <2>1 DEF RowGood
    <3> QED BY <1>3, <2>1, <3>1, <3>2 DEF RowGood
  <2>3. CASE u = v
    <3>1. /\ row.latest = d.ver[v].latest /\ row.valid = d.ver[v].valid
          /\ row.last.st = row.st /\ row.st \notin {"proposed", "validated"}
          /\ row.st \in {"approved", "active"} => row.appr # 0
          /\ row.appr # 0 => row.valid # None
      BY DEF Relabels
    <3>2. row.appr # 0 => /\ row.appr \in 1..Len(e.audit)
                          /\ e.audit[row.appr].act = "approve" /\ e.audit[row.appr].ver = v
                          /\ e.audit[row.appr].att = row.valid
      <4>1. CASE row.appr = d.ver[v].appr
        <5>1. row.appr # 0 => /\ row.appr \in 1..Len(d.audit)
                              /\ d.audit[row.appr].act = "approve" /\ d.audit[row.appr].ver = v
                              /\ d.audit[row.appr].att = row.valid
          BY <2>1, <2>3, <3>1, <4>1 DEF RowGood
        <5> QED BY <1>2, <1>3, <5>1
      <4>2. CASE row.appr = Len(d.audit) + 1 /\ entry.act = "approve" /\ entry.ver = v
                 /\ entry.att = row.valid
        BY <1>2, <1>3, <4>2
      <4> QED BY <4>1, <4>2 DEF Relabels
    <3> QED BY <1>0, <1>1, <1>3, <2>1, <2>3, <3>1, <3>2 DEF RowGood
  <2> QED BY <2>2, <2>3
<1>5. \A u \in Stored(d) : e.ver[u].rev = d.ver[u].rev /\ e.ver[u].latest = d.ver[u].latest
  BY <1>0, <1>1, StoredRow DEF Relabels
<1>6. AttemptsGood(e)
  BY <1>1, <1>3, <1>5 DEF Rows, AttemptsGood
<1>7. Bounded(e)
  BY <1>1, <1>5 DEF Rows, Bounded
<1> QED BY <1>1, <1>2, <1>4, <1>6, <1>7 DEF Rows

\* The trail after a mutation: its own entry comes last, and answers it.
Tells(d, e, q) ==
    /\ q \in Request /\ q.gen = d.gen /\ q.ver \in Stored(d) /\ Stored(e) = Stored(d)
    /\ Len(e.audit) > Len(d.audit)
    /\ \A i \in 1..Len(d.audit) : e.audit[i] = d.audit[i]
    /\ e.audit[Len(e.audit)] = LogEntry(q.act, q.ver, q, e.gen)
    /\ \A i \in Len(d.audit) + 1 .. Len(e.audit) - 1 :
           ~Own(e.audit[i]) /\ e.audit[i].req = q /\ e.audit[i].gen <= e.gen
    /\ e.ver[q.ver].last.act = q.act /\ e.ver[q.ver].last.req = q
    /\ e.ver[q.ver].last.gen = e.gen
    /\ \/ q.act # "approve" /\ e.gen = d.gen + 1
       \/ /\ q.act = "approve" /\ e.gen = d.gen /\ d.ver[q.ver].st = "validated"
          /\ e.ver[q.ver].st = "approved"
          /\ \A u \in Stored(d) \ {q.ver} : e.ver[u].st = d.ver[u].st

LEMMA MutationTrail ==
    ASSUME NEW d, Good(d), NEW e \in Store, NEW q, Tells(d, e, q)
    PROVE  EntriesGood(e) /\ Once(e) /\ Answered(e)
<1> USE DEF Tells
<1> DEFINE n == Len(e.audit)
<1>0. /\ d \in Store /\ d.gen \in Nat /\ e.gen \in Nat /\ e.audit \in Seq(Entry)
      /\ d.audit \in Seq(Entry) /\ Len(d.audit) \in Nat /\ n \in Nat /\ n \in 1..n
  <2>1. /\ d \in Store /\ d.gen \in Nat /\ e.gen \in Nat /\ e.audit \in Seq(Entry)
        /\ d.audit \in Seq(Entry)
    BY GoodParts, StoreFields
  <2> QED BY <2>1
<1>1. /\ e.audit[n].act = q.act /\ e.audit[n].ver = q.ver /\ e.audit[n].req = q
      /\ e.audit[n].gen = e.gen
  BY DEF LogEntry
<1>2. \A i \in 1..n : \/ i \in 1..Len(d.audit)
                      \/ i \in Len(d.audit) + 1 .. n - 1
                      \/ i = n
  BY <1>0
<1>3. ASSUME NEW i \in 1..Len(d.audit)
      PROVE  EntryGood(d, d.audit[i])
  BY GoodParts DEF EntriesGood
<1>4. EntriesGood(e)
  <2> SUFFICES ASSUME NEW i \in 1..n PROVE EntryGood(e, e.audit[i])
    BY DEF EntriesGood
  <2>1. CASE i \in 1..Len(d.audit)
    <3> DEFINE x == d.audit[i]
    <3>1. /\ x.req.ver \in Stored(d) /\ x.gen <= d.gen
          /\ Own(x) => x.gen = (IF x.act = "approve" THEN x.req.gen ELSE x.req.gen + 1)
          /\ Own(x) /\ x.act = "approve" /\ x.gen = d.gen => d.ver[x.req.ver].st = "approved"
      BY <1>3, <2>1 DEF EntryGood
    <3>2. x = e.audit[i] /\ x.gen \in Nat
      <4>1. x \in Entry
        BY <1>0, <2>1
      <4> HIDE DEF x
      <4>2. x.gen \in Nat
        BY <4>1 DEF Entry
      <4> QED BY <2>1, <4>2 DEF x
    <3> HIDE DEF x
    <3>3. EntryGood(e, x)
      <4>1. x.gen <= e.gen
        BY <1>0, <3>1, <3>2
      <4>2. Own(x) /\ x.act = "approve" /\ x.gen = e.gen => e.ver[x.req.ver].st = "approved"
        BY <1>0, <3>1, <3>2
      <4> QED BY <3>1, <4>1, <4>2 DEF EntryGood
    <3> QED BY <3>2, <3>3
  <2>2. CASE i \in Len(d.audit) + 1 .. n - 1
    BY <2>2 DEF EntryGood
  <2>3. CASE i = n
    BY <1>0, <1>1, <2>3 DEF EntryGood, Own
  <2> QED BY <1>2, <2>1, <2>2, <2>3
<1>5. ASSUME NEW i \in 1..Len(d.audit), d.audit[i].req = q, Own(d.audit[i])
      PROVE  FALSE
  <2>1. /\ d.audit[i].gen <= d.gen /\ d.audit[i].act = q.act
        /\ d.audit[i].gen = (IF q.act = "approve" THEN d.gen ELSE d.gen + 1)
        /\ q.act = "approve" /\ d.audit[i].gen = d.gen => d.ver[q.ver].st = "approved"
    BY <1>3, <1>5 DEF EntryGood, Own
  <2> QED BY <1>0, <2>1
<1>6. Once(e)
  <2> SUFFICES ASSUME NEW i \in 1..n, NEW j \in 1..n, e.audit[i].req = e.audit[j].req,
                      Own(e.audit[i]), Own(e.audit[j])
               PROVE  i = j
    BY DEF Once
  <2>1. (i \in 1..Len(d.audit) \/ i = n) /\ (j \in 1..Len(d.audit) \/ j = n)
    BY <1>2
  <2>2. CASE i \in 1..Len(d.audit) /\ j \in 1..Len(d.audit)
    BY <2>2, GoodParts DEF Once
  <2>3. CASE i = n /\ j \in 1..Len(d.audit)
    BY <1>1, <1>5, <2>3
  <2>4. CASE j = n /\ i \in 1..Len(d.audit)
    BY <1>1, <1>5, <2>4
  <2> QED BY <2>1, <2>2, <2>3, <2>4
<1>7. Answered(e)
  <2>1. e.audit[Len(e.audit)].req = q
    BY <1>1
  <2>2. Repeated(e, q)
    BY DEF Repeated
  <2> QED BY <2>1, <2>2 DEF Answered
<1> QED BY <1>4, <1>6, <1>7

LEMMA EntryIs ==
    ASSUME NEW act \in Mutations, NEW v \in Versions, NEW q \in Request, NEW gen \in Nat
    PROVE  LET x == LogEntry(act, v, q, gen) IN
           /\ x \in Entry /\ x.act = act /\ x.ver = v /\ x.att = q.att /\ x.req = q /\ x.gen = gen
BY DEF LogEntry, Entry, Request

LEMMA MarkIs ==
    ASSUME NEW q \in Request, NEW act \in Mutations, NEW st \in States, NEW gen \in Nat
    PROVE  LET last == Record(act, q, st, gen) IN
           last \in Transition /\ last.st = st /\ last.act = act /\ last.req = q /\ last.gen = gen
BY DEF Record, Transition

LEMMA GoodRows ==
    ASSUME NEW d, Good(d)
    PROVE  Rows(d)
BY DEF Good, Rows

LEMMA ApproveFollows ==
    ASSUME Good(db), NEW q \in Requests(db), Approve(q)
    PROVE  Follows(db, db', FALSE)
<1> DEFINE v == q.ver
           old == db.ver[v]
           entry == LogEntry("approve", v, q, db.gen)
           last == Record("approve", q, "approved", db.gen)
           n == Len(db.audit) + 1
           row == [old EXCEPT !.st = "approved", !.appr = n, !.last = last]
           e == Logged(db, v, row, entry)
<1>0. /\ q.act = "approve" /\ q.gen = db.gen /\ old.st = "validated"
      /\ q.att # None /\ old.valid = q.att
  BY DEF Approve, Fresh, Passed
<1>1. db' = e
  <2>1. db' = [db EXCEPT !.audit = Append(@, entry),
                         !.ver[v] = [@ EXCEPT !.st = "approved", !.appr = Len(db.audit) + 1, !.last = last]]
    BY DEF Approve
  <2> HIDE DEF entry, last, v
  <2> QED BY <2>1, Zenon DEF Logged
<1>2. /\ db \in Store /\ db.gen \in Nat /\ q \in Request /\ v \in Stored(db) /\ v \in Versions
      /\ old \in Version /\ db.audit \in Seq(Entry)
  BY GoodParts, StoreFields, RequestIs, StoredRow
<1>3. n \in Nat /\ n # 0
  BY <1>2
<1>4. entry \in Entry /\ entry.act = "approve" /\ entry.ver = v /\ entry.att = q.att
  BY <1>2, EntryIs DEF Mutations
<1>5. /\ last \in Transition /\ last.st = "approved"
      /\ last.act = "approve" /\ last.req = q /\ last.gen = db.gen
  BY <1>2, MarkIs DEF Mutations, States
<1> HIDE DEF entry, last, old, n
<1>6. /\ row \in Version /\ row.latest = old.latest /\ row.valid = old.valid
      /\ row.rev = old.rev /\ row.st = "approved" /\ row.last = last /\ row.appr = n
  BY <1>2, <1>3, <1>5 DEF States, Version
<1> HIDE DEF row
<1>7. Relabels(old, row, v, entry, n)
  BY <1>0, <1>3, <1>4, <1>5, <1>6 DEF Relabels
<1>8. e \in Store /\ Logs(db, e, v, row, entry) /\ e.active = db.active /\ e.gen = db.gen
  BY <1>2, <1>4, <1>6, LoggedIs
<1> HIDE DEF e, v
<1>9. /\ Rows(e) /\ Stored(e) = Stored(db) /\ e.ver[v] = row
      /\ \A u \in Versions \ {v} : e.ver[u] = db.ver[u]
      /\ Len(e.audit) = Len(db.audit) + 1 /\ e.audit[Len(db.audit) + 1] = entry
      /\ \A i \in 1..Len(db.audit) : e.audit[i] = db.audit[i]
  BY <1>2, <1>4, <1>7, <1>8, GoodRows, LoggedRows DEF old, n
<1>10. EntriesGood(e) /\ Once(e) /\ Answered(e)
  <2>1. /\ q.ver \in Stored(db) /\ Len(e.audit) > Len(db.audit)
        /\ e.audit[Len(e.audit)] = LogEntry(q.act, q.ver, q, e.gen)
        /\ e.ver[q.ver].last = last
        /\ db.ver[q.ver].st = "validated" /\ e.ver[q.ver].st = "approved"
    BY <1>0, <1>2, <1>3, <1>6, <1>8, <1>9 DEF v, old, entry
  <2>2. Len(db.audit) + 1 .. Len(e.audit) - 1 = {}
    BY <1>2, <1>9
  <2>3. \A u \in Stored(db) \ {q.ver} : e.ver[u].st = db.ver[u].st
    BY <1>2, <1>9, StoredRow DEF v
  <2>4. Tells(db, e, q)
    BY <1>0, <1>2, <1>5, <1>8, <1>9, <2>1, <2>2, <2>3 DEF Tells
  <2> QED BY <1>8, <2>4, MutationTrail
<1>11. ScopeGood(e)
  <2> SUFFICES ASSUME NEW u \in Versions
               PROVE  (u \in Stored(e) /\ e.ver[u].st = "active") <=> e.active = u
    BY DEF ScopeGood
  <2>1. (u \in Stored(db) /\ db.ver[u].st = "active") <=> db.active = u
    BY GoodParts DEF ScopeGood
  <2> QED BY <1>0, <1>6, <1>8, <1>9, <2>1 DEF old
<1>12. Good(e)
  BY <1>9, <1>10, <1>11 DEF Good, Rows
<1>13. db.active # None => e.ver[db.active].valid = db.ver[db.active].valid
  <2>1. db.active # None => db.active \in Versions
    BY <1>2, StoreFields
  <2> QED BY <1>6, <1>9, <2>1 DEF old
<1>14. \A a \in Attempts : e.att[a] = db.att[a]
  BY <1>8 DEF Logs
<1> QED BY <1>1, <1>2, <1>8, <1>9, <1>12, <1>13, <1>14 DEF Follows

LEMMA DisableFollows ==
    ASSUME Good(db), NEW q \in Requests(db), Disable(q)
    PROVE  Follows(db, db', FALSE)
<1> DEFINE v == q.ver
           old == db.ver[v]
           gen == db.gen + 1
           entry == LogEntry("disable", v, q, gen)
           last == Record("disable", q, "disabled", gen)
           row == [old EXCEPT !.st = "disabled", !.last = last]
           active == IF db.active = v THEN None ELSE db.active
           e == Rescoped(db, v, row, entry, active, gen)
<1>0. q.act = "disable" /\ q.gen = db.gen /\ old.st \in {"active", "approved"}
  BY DEF Disable, Fresh
<1>1. db' = e
  <2>1. db' = [db EXCEPT !.audit = Append(@, entry),
                         !.ver[v] = [@ EXCEPT !.st = "disabled", !.last = last],
                         !.active = IF @ = v THEN None ELSE @,
                         !.gen = gen]
    BY DEF Disable
  <2> HIDE DEF entry, last, v, gen
  <2> QED BY <2>1, Zenon DEF Rescoped
<1>2. /\ db \in Store /\ db.gen \in Nat /\ gen \in Nat /\ q \in Request /\ v \in Stored(db)
      /\ v \in Versions /\ old \in Version /\ db.audit \in Seq(Entry) /\ db.active \in Versions \cup {None}
  BY GoodParts, StoreFields, RequestIs, StoredRow
<1>3. entry \in Entry
  <2> HIDE DEF gen
  <2> QED BY <1>2, EntryIs DEF Mutations
<1>4. last \in Transition /\ last.st = "disabled" /\ last.act = "disable" /\ last.req = q /\ last.gen = gen
  <2> HIDE DEF gen
  <2> QED BY <1>2, MarkIs DEF Mutations, States
<1>5. active \in Versions \cup {None}
  BY <1>2
<1> HIDE DEF entry, last, old, active
<1>6. /\ row \in Version /\ row.latest = old.latest /\ row.valid = old.valid
      /\ row.rev = old.rev /\ row.st = "disabled" /\ row.last = last /\ row.appr = old.appr
  BY <1>2, <1>4 DEF States, Version
<1> HIDE DEF row
<1>7. Relabels(old, row, v, entry, Len(db.audit) + 1)
  <2>1. RowGood(db.att, db.audit, v, old)
    BY <1>2, GoodParts DEF RowsGood, old
  <2>2. old.appr # 0 => old.valid # None
    BY <2>1 DEF RowGood
  <2> QED BY <1>4, <1>6, <2>2 DEF Relabels
<1>8. e \in Store /\ Logs(db, e, v, row, entry) /\ e.active = active /\ e.gen = gen
  <2> HIDE DEF gen
  <2> QED BY <1>2, <1>3, <1>5, <1>6, RescopedIs
<1> HIDE DEF e, v
<1>9. /\ Rows(e) /\ Stored(e) = Stored(db) /\ e.ver[v] = row
      /\ \A u \in Versions \ {v} : e.ver[u] = db.ver[u]
      /\ Len(e.audit) = Len(db.audit) + 1 /\ e.audit[Len(db.audit) + 1] = entry
      /\ \A i \in 1..Len(db.audit) : e.audit[i] = db.audit[i]
  BY <1>2, <1>3, <1>7, <1>8, GoodRows, LoggedRows DEF old
<1>10. EntriesGood(e) /\ Once(e) /\ Answered(e)
  <2>1. /\ q.ver \in Stored(db) /\ Len(e.audit) > Len(db.audit)
        /\ e.audit[Len(e.audit)] = LogEntry(q.act, q.ver, q, e.gen)
        /\ e.ver[q.ver].last = last
    BY <1>0, <1>2, <1>6, <1>8, <1>9 DEF v, entry
  <2>2. Len(db.audit) + 1 .. Len(e.audit) - 1 = {}
    BY <1>2, <1>9
  <2>3. Tells(db, e, q)
    BY <1>0, <1>2, <1>4, <1>8, <1>9, <2>1, <2>2 DEF Tells
  <2> QED BY <1>8, <2>3, MutationTrail
<1>11. ScopeGood(e)
  <2> SUFFICES ASSUME NEW u \in Versions
               PROVE  (u \in Stored(e) /\ e.ver[u].st = "active") <=> e.active = u
    BY DEF ScopeGood
  <2>1. (u \in Stored(db) /\ db.ver[u].st = "active") <=> db.active = u
    BY GoodParts DEF ScopeGood
  <2>2. u # None
    BY NoneAssumption
  <2> QED BY <1>6, <1>8, <1>9, <2>1, <2>2 DEF active
<1>12. Good(e)
  BY <1>9, <1>10, <1>11 DEF Good, Rows
<1>13. \A a \in Attempts : e.att[a] = db.att[a]
  BY <1>8 DEF Logs
<1>14. db.gen <= e.gen /\ e.gen # db.gen
  BY <1>2, <1>8
<1> QED BY <1>1, <1>9, <1>12, <1>13, <1>14 DEF Follows

\* Between the writes of switchVersion: d is db with rows relabelled and
\* entries of the request q appended, none of them its own.
Midway(d, q) ==
    /\ Rows(d) /\ Stored(d) = Stored(db) /\ d.att = db.att
    /\ d.active = db.active /\ d.gen = db.gen
    /\ Len(d.audit) >= Len(db.audit)
    /\ \A i \in 1..Len(db.audit) : d.audit[i] = db.audit[i]
    /\ \A i \in Len(db.audit) + 1 .. Len(d.audit) :
           ~Own(d.audit[i]) /\ d.audit[i].req = q /\ d.audit[i].gen <= db.gen + 1

\* One more of those writes.
LEMMA MidwayOn ==
    ASSUME Good(db), NEW d, NEW q \in Request, Midway(d, q),
           NEW v \in Stored(d), NEW row, NEW entry \in Entry,
           ~Own(entry), entry.req = q, entry.gen <= db.gen + 1,
           Relabels(d.ver[v], row, v, entry, Len(d.audit) + 1)
    PROVE  LET e == Logged(d, v, row, entry) IN
           /\ Midway(e, q) /\ e.ver[v] = row /\ \A u \in Versions \ {v} : e.ver[u] = d.ver[u]
<1> USE DEF Midway
<1> DEFINE e == Logged(d, v, row, entry)
<1>1. d \in Store /\ v \in Versions /\ row \in Version /\ d.audit \in Seq(Entry) /\ Len(d.audit) \in Nat
  <2>1. d \in Store /\ v \in Versions /\ row \in Version
    BY StoredRow DEF Rows, Relabels
  <2> QED BY <2>1, StoreFields
<1>2. e \in Store /\ Logs(d, e, v, row, entry) /\ e.active = d.active /\ e.gen = d.gen
  BY <1>1, LoggedIs
<1> HIDE DEF e
<1>3. /\ Rows(e) /\ Stored(e) = Stored(d) /\ e.ver[v] = row
      /\ \A u \in Versions \ {v} : e.ver[u] = d.ver[u]
      /\ Len(e.audit) = Len(d.audit) + 1 /\ e.audit[Len(d.audit) + 1] = entry
      /\ \A i \in 1..Len(d.audit) : e.audit[i] = d.audit[i]
  BY <1>1, <1>2, LoggedRows
<1>4. db.audit \in Seq(Entry) /\ Len(db.audit) \in Nat
  BY GoodParts, StoreFields
<1>5. \A i \in 1..Len(db.audit) : e.audit[i] = db.audit[i]
  BY <1>1, <1>3, <1>4
<1>6. ASSUME NEW i \in Len(db.audit) + 1 .. Len(e.audit)
      PROVE  ~Own(e.audit[i]) /\ e.audit[i].req = q /\ e.audit[i].gen <= db.gen + 1
  <2>1. CASE i = Len(d.audit) + 1
    BY <1>3, <2>1
  <2>2. CASE i # Len(d.audit) + 1
    <3>1. i \in Len(db.audit) + 1 .. Len(d.audit) /\ i \in 1..Len(d.audit)
      BY <1>1, <1>3, <1>4, <2>2
    <3> QED BY <1>3, <3>1
  <2> QED BY <2>1, <2>2
<1>7. Len(e.audit) >= Len(db.audit) /\ e.att = db.att
  BY <1>1, <1>2, <1>3, <1>4 DEF Logs
<1>8. Midway(e, q)
  BY <1>2, <1>3, <1>5, <1>6, <1>7
<1> QED BY <1>3, <1>8 DEF e

LEMMA ReapprovedIs ==
    ASSUME Good(db), NEW q \in Requests(db), SwitchVersion(q)
    PROVE  LET d == Reapproved(db, q) IN
           /\ Midway(d, q)
           /\ d.ver[q.ver].valid = q.att /\ d.ver[q.ver].appr # 0
           /\ \A u \in Versions \ {q.ver} : d.ver[u] = db.ver[u]
<1> DEFINE v == q.ver
           old == db.ver[v]
<1>0. /\ q.act \in {"activate", "rollback"} /\ q.att # None /\ old.valid = q.att
      /\ q.act = "activate" => old.st = "approved"
      /\ q.act = "rollback" => old.st = "disabled"
  BY DEF SwitchVersion, Passed, Eligible
<1>1. /\ db \in Store /\ db.gen \in Nat /\ q \in Request /\ v \in Stored(db) /\ v \in Versions
      /\ old \in Version /\ db.audit \in Seq(Entry)
  BY GoodParts, StoreFields, RequestIs, StoredRow
<1>2. RowGood(db.att, db.audit, v, old) /\ Rows(db)
  BY <1>1, GoodParts, GoodRows DEF RowsGood
<1>3. Midway(db, q)
  <2>1. Len(db.audit) \in Nat /\ Len(db.audit) + 1 .. Len(db.audit) = {}
    BY <1>1
  <2> QED BY <1>2, <2>1 DEF Midway
<1>4. CASE q.act = "activate"
  BY <1>0, <1>2, <1>3, <1>4 DEF Reapproved, RowGood
<1>5. CASE q.act = "rollback"
  <2> DEFINE n == Len(db.audit) + 1
             entry == LogEntry("approve", v, q, db.gen)
             row == [old EXCEPT !.appr = n]
             e == Logged(db, v, row, entry)
  <2>1. Reapproved(db, q) = e
    <3>1. Reapproved(db, q) = [db EXCEPT !.audit = Append(@, entry), !.ver[v].appr = n]
      BY <1>5 DEF Reapproved
    <3> HIDE DEF entry, v, n
    <3> QED BY <3>1, Zenon DEF Logged
  <2>2. n \in Nat /\ n # 0
    BY <1>1
  <2>3. /\ entry \in Entry /\ entry.act = "approve" /\ entry.ver = v /\ entry.att = q.att
        /\ entry.req = q /\ entry.gen = db.gen
    BY <1>1, EntryIs DEF Mutations
  <2> HIDE DEF n, entry, old
  <2>4. /\ row \in Version /\ row.latest = old.latest /\ row.valid = old.valid
        /\ row.rev = old.rev /\ row.st = old.st /\ row.last = old.last /\ row.appr = n
    BY <1>1, <2>2 DEF Version
  <2> HIDE DEF row
  <2>5. Relabels(old, row, v, entry, n)
    BY <1>0, <1>2, <1>5, <2>2, <2>3, <2>4 DEF Relabels, RowGood
  <2>6. ~Own(entry) /\ entry.gen <= db.gen + 1
    BY <1>1, <1>5, <2>3 DEF Own
  <2>7. Relabels(db.ver[v], row, v, entry, Len(db.audit) + 1)
    BY <2>5 DEF old, n
  <2> HIDE DEF v
  <2>8. Midway(e, q) /\ e.ver[v] = row /\ \A u \in Versions \ {v} : e.ver[u] = db.ver[u]
    BY <1>1, <1>3, <2>3, <2>6, <2>7, MidwayOn
  <2> HIDE DEF e
  <2> QED BY <1>0, <2>1, <2>2, <2>4, <2>8 DEF v
<1> QED BY <1>0, <1>4, <1>5

LEMMA SupersededIs ==
    ASSUME Good(db), NEW q \in Requests(db), SwitchVersion(q)
    PROVE  LET d == Superseded(Reapproved(db, q), q, db.gen + 1) IN
           /\ Midway(d, q)
           /\ d.ver[q.ver].valid = q.att /\ d.ver[q.ver].appr # 0
           /\ \A u \in Versions \ {q.ver, db.active} : d.ver[u] = db.ver[u]
           /\ db.active # None => d.ver[db.active].st = "disabled" /\ db.active # q.ver
<1> DEFINE d == Reapproved(db, q)
           gen == db.gen + 1
           w == db.active
           old == d.ver[w]
<1>0. q.act \in {"activate", "rollback"} /\ db.ver[q.ver].st # "active"
  BY DEF SwitchVersion, Eligible
<1>1. /\ db \in Store /\ db.gen \in Nat /\ gen \in Nat /\ q \in Request
      /\ q.ver \in Stored(db) /\ q.ver \in Versions /\ w \in Versions \cup {None}
  BY GoodParts, StoreFields, RequestIs, StoredRow
<1>2. w # None => w # q.ver /\ w \in Stored(db)
  BY <1>0, <1>1, GoodParts DEF ScopeGood
<1>3. /\ Midway(d, q) /\ d.ver[q.ver].valid = q.att /\ d.ver[q.ver].appr # 0
      /\ \A u \in Versions \ {q.ver} : d.ver[u] = db.ver[u]
  BY ReapprovedIs
<1> HIDE DEF d
<1>4. d.active = w
  BY <1>3 DEF Midway
<1>5. CASE w = None
  BY <1>3, <1>4, <1>5 DEF Superseded, d
<1>6. CASE w # None
  <2> DEFINE entry == LogEntry("disable", w, q, gen)
             last == Record("disable", q, "disabled", gen)
             row == [old EXCEPT !.st = "disabled", !.last = last]
             e == Logged(d, w, row, entry)
  <2>1. Superseded(d, q, gen) = e
    <3>1. Superseded(d, q, gen) =
              [d EXCEPT !.audit = Append(@, entry),
                        !.ver[w] = [@ EXCEPT !.st = "disabled", !.last = last]]
      BY <1>4, <1>6 DEF Superseded
    <3> HIDE DEF entry, last, w, gen
    <3> QED BY <3>1, Zenon DEF Logged
  <2>2. w \in Versions /\ w \in Stored(d) /\ d \in Store /\ old \in Version
        /\ RowGood(d.att, d.audit, w, old)
    BY <1>1, <1>2, <1>3, <1>6, StoredRow DEF Midway, Rows, RowsGood
  <2> HIDE DEF gen, w
  <2>3. entry \in Entry /\ entry.act = "disable" /\ entry.req = q /\ entry.gen = gen
    BY <1>1, <2>2, EntryIs DEF Mutations
  <2>4. last \in Transition /\ last.st = "disabled"
    BY <1>1, MarkIs DEF Mutations, States
  <2> HIDE DEF entry, last, old
  <2>5. /\ row \in Version /\ row.latest = old.latest /\ row.valid = old.valid
        /\ row.rev = old.rev /\ row.st = "disabled" /\ row.last = last /\ row.appr = old.appr
    BY <2>2, <2>4 DEF Version, States
  <2> HIDE DEF row
  <2>6. Relabels(old, row, w, entry, Len(d.audit) + 1)
    BY <2>2, <2>4, <2>5 DEF Relabels, RowGood
  <2>7. ~Own(entry) /\ entry.gen <= db.gen + 1
    BY <1>0, <1>1, <2>3 DEF Own, gen
  <2>8. Midway(e, q) /\ e.ver[w] = row /\ \A u \in Versions \ {w} : e.ver[u] = d.ver[u]
    BY <1>1, <1>3, <2>2, <2>3, <2>6, <2>7, MidwayOn DEF old
  <2> HIDE DEF e
  <2>9. /\ e.ver[q.ver] = d.ver[q.ver] /\ \A u \in Versions \ {q.ver, w} : e.ver[u] = db.ver[u]
    BY <1>1, <1>2, <1>3, <1>6, <2>8
  <2> QED BY <1>2, <1>3, <1>6, <2>1, <2>5, <2>8, <2>9 DEF d, w, gen
<1> QED BY <1>5, <1>6

LEMMA SwitchFollows ==
    ASSUME Good(db), NEW q \in Requests(db), SwitchVersion(q)
    PROVE  Follows(db, db', FALSE)
<1> DEFINE v == q.ver
           gen == db.gen + 1
           d == Superseded(Reapproved(db, q), q, gen)
           old == d.ver[v]
           entry == LogEntry(q.act, v, q, gen)
           last == Record(q.act, q, "active", gen)
           row == [old EXCEPT !.st = "active", !.last = last]
           e == Rescoped(d, v, row, entry, v, gen)
<1>0. /\ q.act \in {"activate", "rollback"} /\ q.gen = db.gen /\ q.att # None
      /\ db.ver[v].st # "active"
  BY DEF SwitchVersion, Fresh, Passed, Eligible
<1>1. db' = e
  <2>1. db' = [d EXCEPT !.audit = Append(@, entry),
                        !.ver[v] = [@ EXCEPT !.st = "active", !.last = last],
                        !.active = v, !.gen = gen]
    BY DEF SwitchVersion
  <2> HIDE DEF entry, last, v, gen, d
  <2> QED BY <2>1, Zenon DEF Rescoped
<1>2. /\ db \in Store /\ db.gen \in Nat /\ gen \in Nat /\ q \in Request /\ v \in Stored(db)
      /\ v \in Versions /\ db.audit \in Seq(Entry) /\ db.active \in Versions \cup {None}
  BY GoodParts, StoreFields, RequestIs, StoredRow
<1>3. /\ Midway(d, q) /\ old.valid = q.att /\ old.appr # 0
      /\ \A u \in Versions \ {v, db.active} : d.ver[u] = db.ver[u]
      /\ db.active # None => d.ver[db.active].st = "disabled" /\ db.active # v
  BY SupersededIs
<1> HIDE DEF d
<1>4. /\ Rows(d) /\ d \in Store /\ Stored(d) = Stored(db) /\ old \in Version
      /\ d.audit \in Seq(Entry) /\ Len(d.audit) \in Nat
  <2>1. Rows(d) /\ d \in Store /\ Stored(d) = Stored(db)
    BY <1>3 DEF Midway, Rows
  <2> QED BY <1>2, <2>1, StoredRow, StoreFields
<1>5. entry \in Entry
  <2> HIDE DEF gen
  <2> QED BY <1>0, <1>2, EntryIs DEF Mutations
<1>6. last \in Transition /\ last.st = "active" /\ last.act = q.act /\ last.req = q /\ last.gen = gen
  <2> HIDE DEF gen
  <2> QED BY <1>0, <1>2, MarkIs DEF Mutations, States
<1> HIDE DEF entry, last, old
<1>7. /\ row \in Version /\ row.latest = old.latest /\ row.valid = old.valid
      /\ row.rev = old.rev /\ row.st = "active" /\ row.last = last /\ row.appr = old.appr
  BY <1>4, <1>6 DEF States, Version
<1> HIDE DEF row
<1>8. Relabels(old, row, v, entry, Len(d.audit) + 1)
  BY <1>0, <1>3, <1>6, <1>7 DEF Relabels
<1>9. e \in Store /\ Logs(d, e, v, row, entry) /\ e.active = v /\ e.gen = gen
  <2> HIDE DEF gen, v
  <2> QED BY <1>2, <1>4, <1>5, <1>7, RescopedIs
<1> HIDE DEF e, v
<1>10. /\ Rows(e) /\ Stored(e) = Stored(d) /\ e.ver[v] = row
       /\ \A u \in Versions \ {v} : e.ver[u] = d.ver[u]
       /\ Len(e.audit) = Len(d.audit) + 1 /\ e.audit[Len(d.audit) + 1] = entry
       /\ \A i \in 1..Len(d.audit) : e.audit[i] = d.audit[i]
  BY <1>2, <1>4, <1>5, <1>8, <1>9, LoggedRows DEF old
<1>11. EntriesGood(e) /\ Once(e) /\ Answered(e)
  <2>1. /\ q.ver \in Stored(db) /\ Len(e.audit) > Len(db.audit)
        /\ e.audit[Len(e.audit)] = LogEntry(q.act, q.ver, q, e.gen)
        /\ e.ver[q.ver].last = last
    BY <1>2, <1>3, <1>4, <1>7, <1>9, <1>10 DEF v, entry, Midway
  <2>2. \A i \in 1..Len(db.audit) : e.audit[i] = db.audit[i]
    BY <1>2, <1>3, <1>4, <1>10 DEF Midway
  <2>3. ASSUME NEW i \in Len(db.audit) + 1 .. Len(e.audit) - 1
        PROVE  ~Own(e.audit[i]) /\ e.audit[i].req = q /\ e.audit[i].gen <= e.gen
    <3>1. i \in Len(db.audit) + 1 .. Len(d.audit) /\ i \in 1..Len(d.audit)
      BY <1>2, <1>4, <1>10
    <3> QED BY <1>3, <1>9, <1>10, <3>1 DEF Midway
  <2>4. Tells(db, e, q)
    BY <1>0, <1>2, <1>4, <1>6, <1>9, <1>10, <2>1, <2>2, <2>3 DEF Tells
  <2> QED BY <1>9, <2>4, MutationTrail
<1>12. ScopeGood(e)
  <2> SUFFICES ASSUME NEW u \in Versions
               PROVE  (u \in Stored(e) /\ e.ver[u].st = "active") <=> e.active = u
    BY DEF ScopeGood
  <2>1. (u \in Stored(db) /\ db.ver[u].st = "active") <=> db.active = u
    BY GoodParts DEF ScopeGood
  <2>2. CASE u = v
    BY <1>2, <1>4, <1>7, <1>9, <1>10, <2>2
  <2>3. CASE u # v /\ u = db.active
    <3>1. db.active # None
      BY <2>3, NoneAssumption
    <3> QED BY <1>3, <1>9, <1>10, <2>3, <3>1
  <2>4. CASE u # v /\ u # db.active
    BY <1>3, <1>4, <1>9, <1>10, <2>1, <2>4
  <2> QED BY <2>2, <2>3, <2>4
<1>13. Good(e)
  BY <1>10, <1>11, <1>12 DEF Good, Rows
<1>14. \A a \in Attempts : e.att[a] = db.att[a]
  BY <1>3, <1>9 DEF Logs, Midway
<1>15. db.gen <= e.gen /\ e.gen # db.gen
  BY <1>2, <1>9
<1> QED BY <1>1, <1>4, <1>10, <1>13, <1>14, <1>15 DEF Follows

-----------------------------------------------------------------------------
(* The service around the manager.                                         *)

LEMMA RunFields ==
    ASSUME NEW r \in Run
    PROVE  /\ r.pin \in Pin \cup {None} /\ r.stale \in BOOLEAN /\ r.repairs \in Nat
           /\ r.pin # None => /\ r.pin.ver \in Versions /\ r.pin.att \in Attempts
                              /\ r.pin.gen \in Nat
BY DEF Run, Pin

LEMMA NoRunIs ==
    /\ NoRun \in Run /\ NoRun.pin = None /\ NoRun.stale = FALSE
    /\ \A refined \in BOOLEAN :
           LET r == [NoRun EXCEPT !.pc = "source", !.refined = refined]
           IN  r \in Run /\ r.pin = None /\ r.stale = FALSE
BY DEF NoRun, Run

\* The manager moved under a run: the history bit and the generation agree.
LEMMA Watched ==
    ASSUME LearnInv, NEW pass, Follows(db, db', pass), Watch
    PROVE  run' \in Run /\ PinGood(db', run')
<1> DEFINE off == run.pin # None /\ \/ db'.active # run.pin.ver
                                    \/ db'.ver[run.pin.ver].valid # run.pin.att
           stale == run.stale \/ off
<1>1. run \in Run /\ PinGood(db, run) /\ Good(db) /\ Good(db')
  BY DEF LearnInv, ServiceTypeOK, Follows
<1>2. /\ run.pin \in Pin \cup {None} /\ run.stale \in BOOLEAN
      /\ run.pin # None => run.pin.ver \in Versions /\ run.pin.gen \in Nat
  BY <1>1, RunFields
<1>3. run' = [run EXCEPT !.stale = stale]
  BY DEF Watch
<1>4. stale \in BOOLEAN
  BY <1>2
<1>5. db.gen \in Nat /\ db'.gen \in Nat
  BY <1>1, GoodParts, StoreFields
<1>6. run.pin = None => ~stale
  BY <1>1 DEF PinGood
<1>7. run.pin # None => run.pin.gen <= db'.gen
  BY <1>1, <1>2, <1>5 DEF PinGood, Follows
<1>8. ASSUME run.pin # None, run.pin.gen = db'.gen
      PROVE  ~stale /\ db'.active = run.pin.ver /\ db'.ver[run.pin.ver].valid = run.pin.att
  <2>1. db'.gen = db.gen /\ run.pin.gen = db.gen
    BY <1>1, <1>2, <1>5, <1>8 DEF PinGood, Follows
  <2>2. ~run.stale /\ db.active = run.pin.ver /\ db.ver[run.pin.ver].valid = run.pin.att
    BY <1>1, <1>8, <2>1 DEF PinGood
  <2>3. run.pin.ver # None
    BY <1>2, <1>8, NoneAssumption
  <2>4. db'.active = db.active /\ db'.ver[db.active].valid = db.ver[db.active].valid
    BY <2>1, <2>2, <2>3 DEF Follows
  <2> QED BY <2>2, <2>4
<1> HIDE DEF stale
<1>9. run' \in Run /\ run'.pin = run.pin /\ run'.stale = stale /\ run'.pc = run.pc
  BY <1>1, <1>3, <1>4 DEF Run
<1> QED BY <1>1, <1>6, <1>7, <1>8, <1>9 DEF PinGood

LEMMA Managed ==
    ASSUME LearnInv, NEW pass, Follows(db, db', pass), Watch,
           build' = build, waiting' \subseteq Attempts, aborted' \in BOOLEAN,
           \A a \in waiting' : a \in waiting \/ db'.att[a] # None,
           job' \in Attempts \cup {None, "run"},
           job' \in {job, None} \/ (job' \in Attempts /\ db'.att[job'] # None)
    PROVE  LearnInv'
<1>1. run' \in Run /\ PinGood(db', run')
  BY Watched
<1>2. Good(db') /\ db' \in Store
  BY GoodParts DEF Follows
<1>3. /\ build \in Builds \cup {None} /\ waiting \subseteq Attempts
      /\ \A a \in waiting : db.att[a] # None
      /\ job \in Attempts => db.att[job] # None
  BY DEF LearnInv, ServiceTypeOK, TypeOK
<1>4. \A a \in waiting' : db'.att[a] # None
  BY <1>3 DEF Follows
<1>5. job' \in Attempts => db'.att[job'] # None
  BY <1>3, NoneAssumption DEF Follows
<1> QED BY <1>1, <1>2, <1>3, <1>4, <1>5 DEF LearnInv, ServiceTypeOK, TypeOK

\* A step of the job or of the kill switch that leaves the store alone.
LEMMA StoreStill ==
    ASSUME LearnInv, UNCHANGED db, build' \in Builds \cup {None}, waiting' \subseteq waiting,
           job' \in {job, None, "run"}, aborted' \in BOOLEAN, run' \in Run, PinGood(db, run')
    PROVE  LearnInv' /\ Follows(db, db', ~aborted)
<1>1. Follows(db, db', ~aborted)
  BY FollowsRefl DEF LearnInv
<1>2. "run" \notin Attempts
  BY RunAssumption
<1> QED BY <1>1, <1>2, NoneAssumption DEF LearnInv, ServiceTypeOK, TypeOK

LEMMA FollowsAny ==
    ASSUME NEW d, NEW e, Follows(d, e, FALSE), NEW pass
    PROVE  Follows(d, e, pass)
BY DEF Follows

\* What a step keeps, and what it may do to the store.
Kept == LearnInv' /\ Follows(db, db', ~aborted)

LEMMA ManageKeeps ==
    ASSUME LearnInv, Manage
    PROVE  Kept
<1>0. /\ Good(db) /\ job \in Attempts \cup {None, "run"} /\ aborted \in BOOLEAN
      /\ waiting \subseteq Attempts
  BY DEF LearnInv, ServiceTypeOK, TypeOK
<1>1. Follows(db, db', FALSE)
  <2>1. ASSUME NEW v \in Versions, Get(v) PROVE Follows(db, db', FALSE)
    BY <1>0, <2>1, GetFollows
  <2>2. ASSUME NEW v \in Versions, NEW p \in Versions \cup {None}, Propose(v, p)
        PROVE  Follows(db, db', FALSE)
    BY <1>0, <2>2, ProposeFollows
  <2>3. ASSUME NEW q \in Requests(db), Approve(q) \/ SwitchVersion(q) \/ Disable(q)
        PROVE  Follows(db, db', FALSE)
    BY <1>0, <2>3, ApproveFollows, SwitchFollows, DisableFollows
  <2>4. ASSUME NEW a \in Attempts, DeadlinePasses(a) PROVE Follows(db, db', FALSE)
    BY <1>0, <2>4, DeadlineFollows
  <2> QED BY <2>1, <2>2, <2>3, <2>4 DEF Manage, Outside
<1>2. UNCHANGED <<build, waiting, job, aborted>> /\ Watch
  BY DEF Manage, Outside, Get, Propose, Approve, SwitchVersion, Disable, DeadlinePasses
<1>3. LearnInv'
  BY <1>0, <1>1, <1>2, Managed
<1> QED BY <1>1, <1>3, FollowsAny DEF Kept

LEMMA ValidateKeeps ==
    ASSUME LearnInv, NEW v \in Versions, NEW a \in Attempts, NEW refused \in BOOLEAN,
           ServiceValidate(v, a, refused)
    PROVE  Kept
<1>0. /\ Good(db) /\ job \in Attempts \cup {None, "run"} /\ aborted \in BOOLEAN
      /\ waiting \subseteq Attempts /\ build \in Builds \cup {None}
  BY DEF LearnInv, ServiceTypeOK, TypeOK
<1>1. /\ Validate(v, a, refused) /\ Watch
      /\ job' = (IF refused THEN job ELSE a) /\ aborted' = (IF refused THEN aborted ELSE FALSE)
  BY DEF ServiceValidate
<1>2. Follows(db, db', FALSE) /\ db'.att[a] # None
  BY <1>0, <1>1, ValidateFollows
<1>3. build' = build /\ waiting' \subseteq waiting \cup {a}
  BY <1>1 DEF Validate
<1>4. LearnInv'
  BY <1>0, <1>1, <1>2, <1>3, Managed
<1> QED BY <1>2, <1>4, FollowsAny DEF Kept

LEMMA RunnerKeeps ==
    ASSUME LearnInv, NEW a \in Attempts, NEW result \in {"passed", "failed", "error"},
           RunnerEnds(a, result)
    PROVE  Kept
<1>0. /\ Good(db) /\ job \in Attempts \cup {None, "run"} /\ aborted \in BOOLEAN
      /\ waiting \subseteq Attempts /\ \A b \in waiting : db.att[b] # None
  BY DEF LearnInv, ServiceTypeOK, TypeOK
<1>1. /\ aborted => result = "error"
      /\ job' = None /\ aborted' = FALSE /\ Watch
      /\ IF a \in waiting THEN Settle(a, result) ELSE UNCHANGED vars
  BY DEF RunnerEnds
<1>2. Follows(db, db', ~aborted)
  <2>1. CASE a \in waiting
    <3>1. Follows(db, db', result = "passed")
      BY <1>0, <1>1, <2>1, SettleFollows
    <3>2. CASE aborted
      BY <1>1, <3>1, <3>2 DEF Follows
    <3>3. CASE ~aborted
      BY <3>1, <3>3 DEF Follows
    <3> QED BY <1>0, <3>2, <3>3
  <2>2. CASE a \notin waiting
    BY <1>0, <1>1, <2>2, FollowsRefl DEF vars
  <2> QED BY <2>1, <2>2
<1>3. build' = build /\ waiting' \subseteq waiting
  BY <1>1 DEF Settle, vars
<1>4. LearnInv'
  BY <1>0, <1>1, <1>2, <1>3, Managed
<1> QED BY <1>2, <1>4 DEF Kept

LEMMA TimerKeeps ==
    ASSUME LearnInv, NEW a \in Attempts, TimerFires(a)
    PROVE  Kept
<1>0. /\ Good(db) /\ job \in Attempts \cup {None, "run"} /\ aborted \in BOOLEAN
      /\ waiting \subseteq Attempts /\ \A b \in waiting : db.att[b] # None
  BY DEF LearnInv, ServiceTypeOK, TypeOK
<1>1. /\ Settle(a, "error") /\ Watch /\ job' = job /\ aborted' = (aborted \/ job = a)
  BY DEF TimerFires
<1>2. a \in waiting /\ build' = build /\ waiting' \subseteq waiting
  BY <1>1 DEF Settle
<1>3. Follows(db, db', FALSE)
  <2>1. Follows(db, db', "error" = "passed")
    BY <1>0, <1>1, <1>2, SettleFollows
  <2> QED BY <2>1 DEF Follows
<1>4. LearnInv'
  BY <1>0, <1>1, <1>2, <1>3, Managed
<1> QED BY <1>3, <1>4, FollowsAny DEF Kept

LEMMA EndRunKeeps ==
    ASSUME LearnInv, EndRun
    PROVE  Kept
<1>1. NoRun \in Run /\ PinGood(db, NoRun)
  BY NoRunIs DEF PinGood
<1> QED BY <1>1, StoreStill DEF EndRun, vars, Kept, LearnInv, ServiceTypeOK, TypeOK

LEMMA RunningKeeps ==
    ASSUME LearnInv, Running
    PROVE  Kept
<1>0. /\ Good(db) /\ db \in Store /\ run \in Run /\ PinGood(db, run) /\ aborted \in BOOLEAN
      /\ build \in Builds \cup {None}
  BY DEF LearnInv, ServiceTypeOK, TypeOK
<1> DEFINE Still == UNCHANGED <<vars, job, aborted>>
<1>1. ASSUME Still, run' \in Run, PinGood(db, run') PROVE Kept
  BY <1>0, <1>1, StoreStill DEF vars, Kept
<1>2. ASSUME NEW pc \in {"snapshot", "index", "model", "ledger"},
             NEW n \in Nat, run' = [run EXCEPT !.pc = pc, !.repairs = n]
      PROVE  run' \in Run /\ PinGood(db, run')
  <2>1. run' \in Run /\ run'.pin = run.pin /\ run'.stale = run.stale /\ run'.pc = pc
    BY <1>0, <1>2 DEF Run
  <2> QED BY <1>0, <2>1 DEF PinGood
<1>3. ASSUME NEW pc \in {"snapshot", "index", "model", "ledger"},
             run' = [run EXCEPT !.pc = pc]
      PROVE  run' \in Run /\ PinGood(db, run')
  <2>1. run' \in Run /\ run'.pin = run.pin /\ run'.stale = run.stale /\ run'.pc = pc
    BY <1>0, <1>3 DEF Run
  <2> QED BY <1>0, <2>1 DEF PinGood
<1>4. ASSUME SourceReady PROVE Kept
  <2>1. Still
    BY <1>4 DEF SourceReady
  <2>2. CASE run' = [run EXCEPT !.pc = "snapshot"]
    BY <1>1, <1>3, <2>1, <2>2
  <2>3. CASE Select
    <3> DEFINE v == db.active
               pin == [ver |-> v, att |-> db.ver[v].valid, gen |-> db.gen]
    <3>1. v # None /\ db.ver[v].valid # None /\ run' = [run EXCEPT !.pc = "snapshot", !.pin = pin]
      BY <2>3 DEF Select, Passed
    <3>2. v \in Stored(db) /\ db.gen \in Nat
      BY <1>0, <3>1, GoodParts, StoreFields DEF ScopeGood
    <3>3. v \in Versions /\ db.ver[v].valid \in Attempts
      BY <1>0, <3>1, <3>2, StoredRow DEF Version
    <3>4. pin \in Pin /\ pin.ver = v /\ pin.att = db.ver[v].valid /\ pin.gen = db.gen
      BY <3>2, <3>3 DEF Pin
    <3> HIDE DEF pin
    <3>5. run' \in Run /\ run'.pin = pin /\ run'.stale = run.stale /\ run'.pc = "snapshot"
      BY <1>0, <3>1, <3>4 DEF Run
    <3>6. ~run.stale
      BY <1>0, <1>4 DEF PinGood, SourceReady
    <3>7. PinGood(db, run')
      BY <3>2, <3>4, <3>5, <3>6 DEF PinGood
    <3> QED BY <1>1, <2>1, <3>5, <3>7
  <2> QED BY <1>4, <2>2, <2>3 DEF SourceReady
<1>5. ASSUME NEW from, NEW to \in {"index", "model", "ledger"}, Advance(from, to) PROVE Kept
  BY <1>1, <1>3, <1>5 DEF Advance
<1>6. ASSUME Repair PROVE Kept
  <2>1. run.repairs + 1 \in Nat
    BY <1>0, RunFields
  <2>2. run' = [run EXCEPT !.pc = "model", !.repairs = run.repairs + 1]
    BY <1>6 DEF Repair
  <2> QED BY <1>1, <1>2, <1>6, <2>1, <2>2 DEF Repair
<1>7. ASSUME Publish \/ RunFails PROVE Kept
  BY <1>7, EndRunKeeps DEF Publish, RunFails
<1> QED BY <1>4, <1>5, <1>6, <1>7 DEF Running, SnapshotChecked, IndexReady, ModelAnswers

LEMMA OthersKeep ==
    ASSUME LearnInv,
           \/ \E refined \in BOOLEAN : StartRun(refined)
           \/ CancelAll
           \/ \E b \in Builds \cup {None} : Restart(b)
    PROVE  Kept
<1>0. run \in Run /\ PinGood(db, run) /\ build \in Builds \cup {None}
  BY DEF LearnInv, ServiceTypeOK, TypeOK
<1>1. ASSUME NEW refined \in BOOLEAN, StartRun(refined) PROVE Kept
  <2>1. run' \in Run /\ run'.pin = None /\ run'.stale = FALSE
    BY <1>1, NoRunIs DEF StartRun
  <2>2. PinGood(db, run')
    BY <2>1 DEF PinGood
  <2> QED BY <1>0, <1>1, <2>1, <2>2, StoreStill DEF StartRun, vars, Kept
<1>2. ASSUME CancelAll PROVE Kept
  BY <1>0, <1>2, StoreStill DEF CancelAll, vars, Kept
<1>3. ASSUME NEW b \in Builds \cup {None}, Restart(b) PROVE Kept
  <2>1. run' \in Run /\ PinGood(db, run')
    BY <1>3, NoRunIs DEF Restart, PinGood
  <2> QED BY <1>3, <2>1, StoreStill DEF Restart, Kept
<1> QED BY <1>1, <1>2, <1>3

LEMMA NextKeeps ==
    ASSUME LearnInv, ServiceNext
    PROVE  Kept
<1>1. ASSUME Jobs PROVE Kept
  BY <1>1, ValidateKeeps, RunnerKeeps, TimerKeeps DEF Jobs
<1> QED BY <1>1, ManageKeeps, RunningKeeps, OthersKeep DEF ServiceNext

LEMMA LearnInit == ServiceInit => LearnInv
<1> SUFFICES ASSUME ServiceInit PROVE LearnInv
  OBVIOUS
<1>1. /\ db \in Store /\ db.audit = <<>> /\ db.active = None /\ db.gen = 0
      /\ \A v \in Versions : db.ver[v] = None
      /\ \A a \in Attempts : db.att[a] = None
  BY DEF ServiceInit, Init, Store
<1>2. Stored(db) = {}
  BY <1>1 DEF Stored
<1>3. RowsGood(db) /\ AttemptsGood(db) /\ Bounded(db)
  BY <1>1, <1>2 DEF RowsGood, AttemptsGood, Bounded
<1>4. ScopeGood(db)
  BY <1>1, <1>2, NoneAssumption DEF ScopeGood
<1>5. EntriesGood(db) /\ Once(db) /\ Answered(db)
  BY <1>1 DEF EntriesGood, Once, Answered
<1>6. Good(db)
  BY <1>1, <1>3, <1>4, <1>5 DEF Good
<1>7. run \in Run /\ PinGood(db, run)
  BY NoRunIs DEF ServiceInit, PinGood
<1> QED BY <1>1, <1>6, <1>7, NoneAssumption DEF ServiceInit, Init, LearnInv, ServiceTypeOK, TypeOK

LEMMA LearnStep == LearnInv /\ [ServiceNext]_allVars => LearnInv'
<1>1. ASSUME LearnInv, ServiceNext PROVE LearnInv'
  BY <1>1, NextKeeps DEF Kept
<1>2. ASSUME LearnInv, UNCHANGED allVars PROVE LearnInv'
  BY <1>2 DEF allVars, LearnInv, ServiceTypeOK, TypeOK
<1> QED BY <1>1, <1>2

LEMMA LearnAlways == ServiceSpec => []LearnInv
BY LearnInit, LearnStep, PTL DEF ServiceSpec

-----------------------------------------------------------------------------
(* What follows from it.                                                   *)

\* Good(d) says of every row what decodeVersion, scope() and complete() check.
LEMMA GoodTables == LearnInv => TablesAgree
<1> SUFFICES ASSUME LearnInv PROVE TablesAgree
  OBVIOUS
<1>0. Good(db) /\ db \in Store
  BY GoodParts DEF LearnInv
<1>1. ASSUME NEW v \in Stored(db) PROVE RowGood(db.att, db.audit, v, db.ver[v])
  BY <1>0, GoodParts DEF RowsGood
<1>2. \A v \in Stored(db) : DecodesVersion(db, v)
  BY <1>1 DEF RowGood, DecodesVersion
<1>3. DecodesScope(db)
  <2>1. db.active # None => db.active \in Stored(db) /\ db.ver[db.active].st = "active"
    BY <1>0, GoodParts, StoreFields DEF ScopeGood
  <2> QED BY <1>2, <2>1 DEF DecodesScope
<1>4. NeverCorrupt
  BY <1>0, <1>2, <1>3, GoodParts DEF NeverCorrupt, AttemptsGood
<1>5. OneActive
  BY <1>0, GoodParts DEF OneActive, ScopeGood
<1>6. ApprovalMatches
  <2> SUFFICES ASSUME NEW v \in Stored(db), db.ver[v].appr # 0
               PROVE  LET row == db.ver[v]  entry == db.audit[row.appr] IN
                      /\ row.appr \in 1..Len(db.audit)
                      /\ entry.act = "approve" /\ entry.ver = v /\ entry.att = row.valid
                      /\ row.valid # None /\ db.att[row.valid] # None
                      /\ db.att[row.valid].st = "passed" /\ db.att[row.valid].ver = v
    BY DEF ApprovalMatches
  <2> QED BY <1>1 DEF RowGood
<1> QED BY <1>4, <1>5, <1>6 DEF TablesAgree

\* The stored tables and the audit trail agree after every interleaving of
\* proposals, validations, switches, timeouts and restarts, and the generation
\* of a run's pin tells every change of what is active (manager.ts, readPin).
THEOREM TablesAlwaysAgree == ServiceSpec => []ServiceSound
<1>1. LearnInv => ServiceSound
  BY GoodTables DEF LearnInv, PinGood, PinTellsChange, ServiceSound
<1> QED BY <1>1, LearnAlways, PTL

\* A retried mutation is answered and never applied again: its own audit
\* entry occurs once, whatever happened between two deliveries (repeated()).
THEOREM RequestsApplyOnce == ServiceSpec => []RequestsSound
<1>1. LearnInv => RequestsSound
  <2> SUFFICES ASSUME LearnInv PROVE RequestsSound
    OBVIOUS
  <2>1. Once(db) /\ Answered(db)
    BY GoodParts DEF LearnInv
  <2>2. AppliedOnce
    BY <2>1 DEF Once, Own, AppliedOnce
  <2>3. RetryIsAnswered
    BY <2>1 DEF Answered, RetryIsAnswered
  <2> QED BY <2>2, <2>3 DEF RequestsSound
<1> QED BY <1>1, LearnAlways, PTL

\* A terminal receipt is never rewritten, not by a runner that answers late
\* nor by a second reader (complete()'s early return).
THEOREM ReceiptsAreFinal == ServiceSpec => ReceiptsFinal
<1> DEFINE Stands == \A a \in Attempts :
                        (db.att[a] # None /\ db.att[a].st # "running") => db'.att[a] = db.att[a]
<1>1. LearnInv /\ [ServiceNext]_allVars => [Stands]_vars
  <2>1. ASSUME LearnInv, ServiceNext PROVE Stands
    BY <2>1, NextKeeps DEF Kept, Follows
  <2>2. ASSUME UNCHANGED allVars PROVE UNCHANGED vars
    BY <2>2 DEF allVars, vars
  <2> QED BY <2>1, <2>2
<1>2. ServiceSpec => [][Stands]_vars
  <2> HIDE DEF Stands
  <2> QED BY <1>1, LearnAlways, PTL DEF ServiceSpec
<1> QED BY <1>2 DEF ReceiptsFinal

\* A result goes out only if its guidance was active and qualified without
\* interruption since the pin: a switch and a switch back in between raise the
\* generation that readPin compares.
THEOREM PublishIsFresh == ServiceSpec => NoStalePublish
<1>1. LearnInv /\ [ServiceNext]_allVars => [Publish => ~run.stale]_allVars
  <2>1. ASSUME LearnInv, Publish PROVE ~run.stale
    BY <2>1 DEF Publish, CheckLive, PinCurrent, LearnInv, PinGood
  <2> QED BY <2>1
<1> QED BY <1>1, LearnAlways, PTL DEF ServiceSpec, NoStalePublish

\* A job the kill switch aborted publishes nothing, and its validation does
\* not pass (checkLive, validateCandidate's signal, cancelAll).
THEOREM KilledJobsAreInert == ServiceSpec => KilledJobHasNoEffect
<1> DEFINE Inert == aborted => /\ ~(Publish /\ job = "run")
                               /\ \A a \in Attempts : job = a /\ db.att[a].st = "running"
                                                          => db'.att[a].st # "passed"
<1>1. LearnInv /\ [ServiceNext]_allVars => [Inert]_allVars
  <2>1. ASSUME LearnInv, ServiceNext, aborted
        PROVE  /\ ~Publish
               /\ \A a \in Attempts : job = a /\ db.att[a].st = "running"
                                          => db'.att[a].st # "passed"
    <3>1. ~Publish
      BY <2>1 DEF Publish, CheckLive
    <3>2. Follows(db, db', FALSE)
      <4>1. Follows(db, db', ~aborted)
        BY <2>1, NextKeeps DEF Kept
      <4> QED BY <2>1, <4>1 DEF Follows
    <3>3. job \in Attempts => db.att[job] # None
      BY <2>1 DEF LearnInv
    <3> QED BY <3>1, <3>2, <3>3 DEF Follows
  <2> QED BY <2>1
<1>2. ServiceSpec => [][Inert]_allVars
  <2> HIDE DEF Inert
  <2> QED BY <1>1, LearnAlways, PTL DEF ServiceSpec
<1> QED BY <1>2 DEF KilledJobHasNoEffect
=============================================================================
