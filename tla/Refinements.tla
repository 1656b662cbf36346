---------------------------- MODULE Refinements ----------------------------
(***************************************************************************)
(* The refinements manager (packages/engine/src/refinements/manager.ts and *)
(* data/helpers/refinement-store.ts): versions of workflow guidance are    *)
(* proposed, validated by a runner with a deadline, approved, activated,   *)
(* rolled back to and disabled.                                            *)
(*                                                                         *)
(* Every public method is one transaction, except validate, which awaits   *)
(* its runner between two. The store is a record db:                       *)
(*   db.ver     refinement_versions                                        *)
(*   db.att     refinement_validations                                     *)
(*   db.active, db.gen   the one row of refinement_scopes (an engine build *)
(*              registers one workflow, and so one scope)                  *)
(*   db.audit   the audit entries of approve, activate, rollback, disable  *)
(*                                                                         *)
(* A hash is the value it digests. A version id stands for the proposal    *)
(* request it came from, whose hash is unique in the table. A mutation     *)
(* request is a record of what its client had read; any request may arrive *)
(* at any time and any number of times (a delayed or retried call). One    *)
(* that is refused or repeated changes nothing and is not a step.          *)
(*                                                                         *)
(* Definitions marked "Wrong" are plausible mistakes in the definition     *)
(* that follows them; the specification never uses them.                   *)
(***************************************************************************)
EXTENDS Integers, Sequences, FiniteSets

CONSTANTS
    Versions,     \* version ids
    Attempts,     \* validation attempt ids
    Builds,       \* what a registration binds: build, suite and model hashes
    None,
    MaxVersions,  \* MAX_VERSIONS
    MaxAttempts,  \* MAX_ATTEMPTS of one version
    MaxGen        \* bound: scope generation (a safe integer in the code)

ASSUME NoneAssumption == None \notin Versions \cup Attempts \cup Builds
ASSUME BoundsAssumption ==
    MaxVersions \in Nat /\ MaxAttempts \in Nat /\ MaxGen \in Nat

VARIABLES
    db,       \* the store
    build,    \* the current registration, None when the workflow has none
    waiting   \* attempts whose validate call awaits its runner in this process

vars == <<db, build, waiting>>

Mutations == {"approve", "activate", "rollback", "disable"}

\* What a mutation request binds. `appr` is the position of an approval entry
\* in the audit log, 0 for none; only activate names one.
Request == [act: Mutations, ver: Versions, gen: Nat,
            att: Attempts \cup {None}, appr: Nat]

States == {"proposed", "validated", "approved", "active", "disabled"}

\* The versions refinement_versions has a row for.
Stored(d) == {v \in Versions : d.ver[v] # None}

\* The requests that can arrive: every combination of ids the store has issued,
\* with any generation, present, past or future.
Requests(d) ==
    LET gens == 0..MaxGen
    IN  [act: {"approve", "rollback"}, ver: Stored(d), gen: gens, att: Attempts, appr: {0}]
        \cup [act: {"activate"}, ver: Stored(d), gen: gens, att: Attempts,
              appr: 1..Len(d.audit)]
        \cup [act: {"disable"}, ver: Stored(d), gen: gens, att: {None}, appr: {0}]

\* last_transition_json, with the request it digested.
Transition == [act: Mutations \cup {"propose", "validate"},
               req: Request \cup {None}, st: States, gen: Nat]

Version == [st: States, fam: Versions, rev: Nat,
            latest: Attempts \cup {None},    \* latest_attempt_id
            valid: Attempts \cup {None},     \* validated_attempt_id
            appr: Nat,                       \* approval_audit_id
            last: Transition]

\* `due`: the deadline has passed.
Attempt == [st: {"running", "passed", "failed", "error"}, ver: Versions,
            build: Builds, due: BOOLEAN]

\* The absence of a row is not a row.
ASSUME RowAssumption == None \notin Version \cup Attempt

Entry == [act: Mutations, ver: Versions, att: Attempts \cup {None},
          req: Request, gen: Nat]

Store == [ver: [Versions -> Version \cup {None}],
          att: [Attempts -> Attempt \cup {None}],
          active: Versions \cup {None}, gen: Nat, audit: Seq(Entry)]

TypeOK == /\ db \in Store
          /\ build \in Builds \cup {None}
          /\ waiting \subseteq Attempts

Init == /\ db = [ver |-> [v \in Versions |-> None],
                 att |-> [a \in Attempts |-> None],
                 active |-> None, gen |-> 0, audit |-> <<>>]
        /\ build \in Builds
        /\ waiting = {}

-----------------------------------------------------------------------------
(* Reading rows, and the writes the methods share.                         *)

AttemptsOf(d, v) == {a \in Attempts : d.att[a] # None /\ d.att[a].ver = v}

\* decodeVersion: what a stored row must satisfy, or reading it throws
\* REFINEMENT_CORRUPT.
DecodesVersion(d, v) ==
    LET row == d.ver[v]
    IN  /\ row.last.st = row.st
        /\ row.valid # None => row.latest = row.valid
        /\ row.appr # 0 => row.valid # None
        /\ row.st \in {"approved", "active"} => row.appr # 0
        /\ row.st = "validated" => row.valid # None /\ row.appr = 0
        /\ row.st = "proposed" => row.valid = None /\ row.appr = 0

\* scope(): the active version it names is stored, decodes and says so too.
DecodesScope(d) ==
    d.active # None => /\ d.active \in Stored(d)
                       /\ DecodesVersion(d, d.active)
                       /\ d.ver[d.active].st = "active"

\* version() and scope() together, as every mutation starts.
Readable(d, v) == v \in Stored(d) /\ DecodesVersion(d, v) /\ DecodesScope(d)

Record(act, req, st, gen) == [act |-> act, req |-> req, st |-> st, gen |-> gen]

\* Wrong: any pass of the version will do.
PassedOnce(d, v, a) ==
    /\ a # None /\ d.att[a] # None /\ d.att[a].st = "passed" /\ d.att[a].ver = v
    /\ d.att[a].build = build

\* passed(): the attempt is the version's current pass, under this build.
Passed(d, v, a) ==
    /\ a # None /\ d.ver[v].valid = a /\ d.ver[v].latest = a
    /\ d.att[a] # None /\ d.att[a].st = "passed" /\ d.att[a].ver = v
    /\ d.att[a].build = build

\* repeated(): the version's last transition is this very request, and the
\* scope has not moved since; the recorded response is returned.
Repeated(d, q) == /\ d.ver[q.ver].last.act = q.act
                  /\ d.ver[q.ver].last.req = q
                  /\ d.ver[q.ver].last.gen = d.gen

\* The row complete() leaves: a pass validates, anything else takes back what
\* the version had, and the approval is void either way.
SettledRow(row, a, status, gen) ==
    LET st == IF status = "passed" THEN "validated"
              ELSE IF row.st = "disabled" THEN "disabled" ELSE "proposed"
    IN  [row EXCEPT !.st = st, !.valid = IF status = "passed" THEN a ELSE None,
                    !.appr = 0, !.last = Record("validate", None, st, gen)]

WithReceipt(d, a, status) ==
    [d EXCEPT !.att[a].st = status, !.ver[d.att[a].ver] = SettledRow(@, a, status, d.gen)]

\* Wrong: a late runner rewrites the receipt.
CompleteAlways(d, a, result) == WithReceipt(d, a, result)

\* complete(): a pass needs the deadline and the registration it ran under.
Complete(d, a, result) ==
    IF d.att[a].st # "running" THEN d
    ELSE WithReceipt(d, a, IF d.att[a].due \/ d.att[a].build # build THEN "error" ELSE result)

\* recover(): a reader settles an attempt nobody waits for any more.
Recover(d, v) ==
    LET a == d.ver[v].latest
    IN  IF a # None /\ d.att[a].st = "running" /\ d.att[a].due
        THEN Complete(d, a, "error") ELSE d

-----------------------------------------------------------------------------
(* Proposals and validation.                                               *)

\* nextRevision: one past the family's highest.
NextRevision(d, fam) ==
    LET revs == {d.ver[u].rev : u \in {w \in Stored(d) : d.ver[w].fam = fam}}
    IN  IF revs = {} THEN 1
        ELSE 1 + CHOOSE n \in revs : \A m \in revs : m <= n

\* propose(), after its sources resolved. Proposing a stored version again
\* reads it, which is Get.
Propose(v, parent) ==
    /\ v \notin Stored(db) /\ build # None /\ DecodesScope(db)
    /\ Cardinality(Stored(db)) < MaxVersions
    /\ parent # None => parent \in Stored(db) /\ DecodesVersion(db, parent)
    /\ LET fam == IF parent = None THEN v ELSE db.ver[parent].fam
           row == [st |-> "proposed", fam |-> fam, rev |-> NextRevision(db, fam),
                   latest |-> None, valid |-> None, appr |-> 0,
                   last |-> Record("propose", None, "proposed", db.gen)]
       IN  db' = [db EXCEPT !.ver[v] = row]
    /\ UNCHANGED <<build, waiting>>

\* get(), list() and a repeated propose() or validate(): reading settles an
\* attempt whose deadline passed.
Get(v) ==
    /\ v \in Stored(db) /\ DecodesVersion(db, v) /\ DecodesScope(db)
    /\ db' = Recover(db, v)
    /\ UNCHANGED <<build, waiting>>

\* validate() answers with the attempt the version already has.
HasAttempt(d, v) ==
    LET a == d.ver[v].latest
    IN  a # None /\ \/ d.att[a].st = "running"
                    \/ /\ d.att[a].build = build /\ d.ver[v].st # "disabled"
                       /\ d.att[a].st \in {"passed", "failed"}

Validatable(d, v) == d.ver[v].st \notin {"active", "approved"}

\* The attempt validate() opens, and the row that names it and nothing older.
AdmittedRow(row, a, gen) ==
    LET st == IF row.st = "disabled" THEN "disabled" ELSE "proposed"
    IN  [row EXCEPT !.latest = a, !.valid = None, !.appr = 0, !.st = st,
                    !.last = Record("validate", None, st, gen)]

Admitted(d, v, a) ==
    [d EXCEPT !.att[a] = [st |-> "running", ver |-> v, build |-> build, due |-> FALSE],
              !.ver[v] = AdmittedRow(@, a, d.gen)]

\* validate(), up to the await of the runner. `refused`: a source of the
\* version is unresolved or one of the suite's cases, and no runner starts.
Validate(v, a, refused) ==
    /\ v \in Stored(db) /\ DecodesVersion(db, v) /\ DecodesScope(db)
    /\ build # None /\ db.att[a] = None
    /\ LET d == Recover(db, v)
       IN  /\ Validatable(d, v) /\ ~HasAttempt(d, v)
           /\ Cardinality(AttemptsOf(d, v)) < MaxAttempts
           /\ db' = IF refused THEN Complete(Admitted(d, v, a), a, "error") ELSE Admitted(d, v, a)
    /\ waiting' = IF refused THEN waiting ELSE waiting \cup {a}
    /\ UNCHANGED build

\* The race of the runner against its timer ends: a report that passes or
\* fails, or an error (thrown, timed out or an invalid report). complete()
\* finds the attempt latest or throws, and then the call just fails.
Settle(a, result) ==
    /\ a \in waiting
    /\ waiting' = waiting \ {a}
    /\ db' = IF db.ver[db.att[a].ver].latest = a \/ db.att[a].st # "running"
             THEN Complete(db, a, result) ELSE db
    /\ UNCHANGED build

-----------------------------------------------------------------------------
(* Mutations. Each starts with the repeat test and the generation check.   *)

\* Wrong: no generation check.
FreshAnyGeneration(q) == Readable(db, q.ver) /\ ~Repeated(db, q)

Fresh(q) == Readable(db, q.ver) /\ ~Repeated(db, q) /\ q.gen = db.gen

LogEntry(act, v, q, gen) ==
    [act |-> act, ver |-> v, att |-> q.att, req |-> q, gen |-> gen]

\* approve()
Approve(q) ==
    /\ q.act = "approve" /\ Fresh(q)
    /\ db.ver[q.ver].st = "validated" /\ Passed(db, q.ver, q.att)
    /\ db' = [db EXCEPT
                !.audit = Append(@, LogEntry("approve", q.ver, q, db.gen)),
                !.ver[q.ver] = [@ EXCEPT !.st = "approved", !.appr = Len(db.audit) + 1,
                                         !.last = Record("approve", q, "approved", db.gen)]]
    /\ UNCHANGED <<build, waiting>>

\* Who may be switched to: an approved version whose approval the request
\* names, or a disabled one that was approved, older than the active one.
Eligible(d, q) ==
    LET row == d.ver[q.ver]
    IN  \/ /\ q.act = "activate" /\ row.st = "approved" /\ row.appr = q.appr
        \/ /\ q.act = "rollback" /\ row.st = "disabled" /\ row.appr # 0
           /\ d.active # None
           /\ d.ver[d.active].fam = row.fam /\ d.ver[d.active].rev > row.rev

\* The superseded version, if any, is disabled on the same generation.
Superseded(d, q, gen) ==
    IF d.active = None THEN d
    ELSE [d EXCEPT
            !.audit = Append(@, LogEntry("disable", d.active, q, gen)),
            !.ver[d.active] = [@ EXCEPT !.st = "disabled",
                                        !.last = Record("disable", q, "disabled", gen)]]

\* A rollback writes its own approval first.
Reapproved(d, q) ==
    IF q.act = "activate" THEN d
    ELSE [d EXCEPT !.audit = Append(@, LogEntry("approve", q.ver, q, d.gen)),
                   !.ver[q.ver].appr = Len(d.audit) + 1]

\* switchVersion()
SwitchVersion(q) ==
    /\ q.act \in {"activate", "rollback"} /\ Fresh(q)
    /\ Passed(db, q.ver, q.att) /\ Eligible(db, q)
    /\ db.gen < MaxGen
    /\ LET gen == db.gen + 1
           d == Superseded(Reapproved(db, q), q, gen)
       IN  db' = [d EXCEPT
                    !.audit = Append(@, LogEntry(q.act, q.ver, q, gen)),
                    !.ver[q.ver] = [@ EXCEPT !.st = "active",
                                             !.last = Record(q.act, q, "active", gen)],
                    !.active = q.ver,
                    !.gen = gen]
    /\ UNCHANGED <<build, waiting>>

\* disable(): of the active version or of an approved one.
Disable(q) ==
    /\ q.act = "disable" /\ Fresh(q)
    /\ db.ver[q.ver].st \in {"active", "approved"}
    /\ db.gen < MaxGen
    /\ LET gen == db.gen + 1
       IN  db' = [db EXCEPT
                    !.audit = Append(@, LogEntry("disable", q.ver, q, gen)),
                    !.ver[q.ver] = [@ EXCEPT !.st = "disabled",
                                             !.last = Record("disable", q, "disabled", gen)],
                    !.active = IF @ = q.ver THEN None ELSE @,
                    !.gen = gen]
    /\ UNCHANGED <<build, waiting>>

-----------------------------------------------------------------------------
(* The environment.                                                        *)

\* The clock passes a running attempt's deadline.
DeadlinePasses(a) ==
    /\ db.att[a] # None /\ db.att[a].st = "running" /\ ~db.att[a].due
    /\ db' = [db EXCEPT !.att[a].due = TRUE]
    /\ UNCHANGED <<build, waiting>>

\* Another build, suite or model is configured, or the workflow is withdrawn.
RegistryChanges(b) == b # build /\ build' = b /\ UNCHANGED <<db, waiting>>

\* The process dies: nobody awaits a runner any more.
Crash == waiting # {} /\ waiting' = {} /\ UNCHANGED <<db, build>>

Next ==
    \/ \E v \in Versions : \/ \E p \in Versions \cup {None} : Propose(v, p)
                           \/ Get(v)
                           \/ \E a \in Attempts, refused \in BOOLEAN : Validate(v, a, refused)
    \/ \E a \in Attempts : \/ \E result \in {"passed", "failed", "error"} : Settle(a, result)
                           \/ DeadlinePasses(a)
    \/ \E q \in Requests(db) : Approve(q) \/ SwitchVersion(q) \/ Disable(q)
    \/ \E b \in Builds \cup {None} : RegistryChanges(b)
    \/ Crash

Spec == Init /\ [][Next]_vars

-----------------------------------------------------------------------------
(* Properties.                                                             *)

\* No stored row is ever corrupt: reading never throws REFINEMENT_CORRUPT,
\* whatever was proposed, validated, switched or recovered before
\* (decodeVersion, scope, and complete's check that a running attempt is its
\* version's latest).
NeverCorrupt ==
    /\ \A v \in Stored(db) : DecodesVersion(db, v)
    /\ DecodesScope(db)
    /\ \A a \in Attempts : db.att[a] # None /\ db.att[a].st = "running"
                               => db.ver[db.att[a].ver].latest = a

\* A version is active exactly when the scope names it: the two tables agree
\* after every switch, supersession and disable.
OneActive ==
    \A v \in Versions : (v \in Stored(db) /\ db.ver[v].st = "active") <=> db.active = v

\* A version that may serve, or be rolled back to, rests on an audit entry
\* that approved this version for the very attempt it now names, and that
\* attempt passed.
ApprovalMatches ==
    \A v \in Stored(db) : db.ver[v].appr # 0 =>
        LET row == db.ver[v]  entry == db.audit[row.appr]
        IN  /\ row.appr \in 1..Len(db.audit)
            /\ entry.act = "approve" /\ entry.ver = v /\ entry.att = row.valid
            /\ row.valid # None /\ db.att[row.valid] # None
            /\ db.att[row.valid].st = "passed" /\ db.att[row.valid].ver = v

\* A mutation request takes effect once, however often it is delivered and
\* whatever happened in between: no two entries of its own action carry it.
AppliedOnce ==
    \A i, j \in 1..Len(db.audit) :
        (/\ db.audit[i].req = db.audit[j].req
         /\ db.audit[i].act = db.audit[i].req.act
         /\ db.audit[j].act = db.audit[j].req.act) => i = j

\* A client that lost the answer of the latest mutation gets it by asking
\* again, until its version is validated anew.
RetryIsAnswered ==
    db.audit # <<>> =>
        LET q == db.audit[Len(db.audit)].req
        IN  db.ver[q.ver].last.act = "validate" \/ Repeated(db, q)

\* The two tables and the audit trail tell one story after every interleaving
\* of proposals, validations, switches, timeouts and restarts: every row
\* decodes, one version is active, and it rests on its own approval.
TablesAgree == NeverCorrupt /\ OneActive /\ ApprovalMatches

\* A retried request is answered and never applied again.
RequestsSound == AppliedOnce /\ RetryIsAnswered

\* A terminal receipt is never rewritten, not by a runner that answers after
\* a reader timed it out, nor by a second reader.
ReceiptsFinal ==
    [][\A a \in Attempts :
         (db.att[a] # None /\ db.att[a].st # "running") => db'.att[a] = db.att[a]]_vars

\* An attempt does not run for ever, although its process may die: the next
\* reader after the deadline settles it.
AttemptSettles ==
    \A a \in Attempts : (db.att[a] # None /\ db.att[a].st = "running")
                            ~> (db.att[a] # None /\ db.att[a].st # "running")
=============================================================================
