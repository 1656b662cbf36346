-------------------------- MODULE GovernedLearning --------------------------
(***************************************************************************)
(* The governed learning service (packages/engine/src/workflows/service.ts *)
(* and run-workflow.ts) around the refinements manager: one job at a time, *)
(* a validation or a workflow run; a run pins the active version, awaits   *)
(* its source, the model and its checks, and publishes a ledger if nothing *)
(* changed; the kill switch aborts the job.                                *)
(*                                                                         *)
(* A workflow run in a mode without guidance has no pin. Prompts, fixtures *)
(* and budgets are left out: a model call answers or throws.               *)
(***************************************************************************)
EXTENDS Refinements

CONSTANT MaxRepairs   \* WORKFLOW_MAX_REPAIRS

ASSUME MaxRepairsAssumption == MaxRepairs \in Nat
ASSUME RunAssumption == "run" \notin Attempts \cup {None}

VARIABLES
    job,      \* the one member of `jobs`: None, "run", or the attempt validated
    aborted,  \* its controller's signal
    run       \* the workflow run behind job = "run", at its current await

serviceVars == <<job, aborted, run>>
allVars == <<db, build, waiting, job, aborted, run>>

Pin == [ver: Versions, att: Attempts, gen: Nat]

Run == [pc: {"idle", "source", "snapshot", "index", "model", "ledger"},
        refined: BOOLEAN,          \* the mode asks for guidance
        pin: Pin \cup {None},
        repairs: Nat,
        stale: BOOLEAN]            \* history: the pinned version was not the
                                   \* active one at some point since the pin

NoRun == [pc |-> "idle", refined |-> FALSE, pin |-> None, repairs |-> 0,
          stale |-> FALSE]

ServiceTypeOK == /\ TypeOK
                 /\ job \in Attempts \cup {None, "run"}
                 /\ aborted \in BOOLEAN
                 /\ run \in Run

ServiceInit == Init /\ job = None /\ aborted = FALSE /\ run = NoRun

-----------------------------------------------------------------------------
(* Validations as jobs.                                                    *)

\* A step of the manager under a run: the history bit sees what it did.
Watch == run' = [run EXCEPT !.stale =
            @ \/ (run.pin # None /\ \/ db'.active # run.pin.ver
                                    \/ db'.ver[run.pin.ver].valid # run.pin.att)]

\* validate(): the runner takes the job slot in the same turn of the event
\* loop; when it is taken, the runner throws and the attempt ends as an error
\* before anything else runs.
ServiceValidate(v, a, refused) ==
    /\ job # None => refused
    /\ Validate(v, a, refused)
    /\ job' = IF refused THEN job ELSE a
    /\ aborted' = IF refused THEN aborted ELSE FALSE
    /\ Watch

\* Wrong: the validator does not look at its signal.
RunnerEndsUnaware(a, result) ==
    /\ job = a
    /\ job' = None /\ aborted' = FALSE
    /\ IF a \in waiting THEN Settle(a, result) ELSE UNCHANGED vars
    /\ Watch

\* validateCandidate() returns or throws: an aborted one throws. Its result
\* counts only while the manager still waits for it.
RunnerEnds(a, result) ==
    /\ job = a
    /\ aborted => result = "error"
    /\ job' = None /\ aborted' = FALSE
    /\ IF a \in waiting THEN Settle(a, result) ELSE UNCHANGED vars
    /\ Watch

\* validate()'s timer: the manager gives up and aborts; the job's own code is
\* still unwinding and keeps the slot.
TimerFires(a) ==
    /\ Settle(a, "error")
    /\ aborted' = (aborted \/ job = a)
    /\ UNCHANGED job
    /\ Watch

-----------------------------------------------------------------------------
(* Workflow runs.                                                          *)

\* withJob(), then the await of the fixture or snapshot.
StartRun(refined) ==
    /\ job = None
    /\ job' = "run" /\ aborted' = FALSE
    /\ run' = [NoRun EXCEPT !.pc = "source", !.refined = refined]
    /\ UNCHANGED vars

\* Wrong: the slot is not given back.
EndRunKeepsJob == aborted' = FALSE /\ run' = NoRun /\ UNCHANGED <<vars, job>>

\* withJob()'s finally.
EndRun == job' = None /\ aborted' = FALSE /\ run' = NoRun /\ UNCHANGED vars

\* Wrong: the pin names the version and its attempt, not the generation.
PinCurrentByVersion(p) ==
    /\ DecodesScope(db) /\ db.active = p.ver
    /\ db.ver[p.ver].st = "active" /\ Passed(db, p.ver, p.att)

\* readPin()
PinCurrent(p) ==
    /\ DecodesScope(db) /\ db.gen = p.gen /\ db.active = p.ver
    /\ db.ver[p.ver].st = "active" /\ Passed(db, p.ver, p.att)

\* checkLive()
CheckLive == ~aborted /\ (run.pin # None => PinCurrent(run.pin))

\* select(): the active version, if it still has its pass under this build.
Select == LET v == db.active
          IN  /\ DecodesScope(db) /\ v # None /\ Passed(db, v, db.ver[v].valid)
              /\ run' = [run EXCEPT !.pc = "snapshot",
                            !.pin = [ver |-> v, att |-> db.ver[v].valid, gen |-> db.gen]]

\* The source was read. A run with guidance and nothing to select ends.
SourceReady ==
    /\ run.pc = "source"
    /\ ~aborted
    /\ \/ run.refined /\ Select
       \/ ~run.refined /\ run' = [run EXCEPT !.pc = "snapshot"]
    /\ UNCHANGED <<vars, job, aborted>>

Advance(from, to) ==
    /\ run.pc = from /\ CheckLive
    /\ run' = [run EXCEPT !.pc = to]
    /\ UNCHANGED <<vars, job, aborted>>

SnapshotChecked == Advance("snapshot", "index")

\* The index is built; recordUse() reads the pin once more and logs the use.
IndexReady == Advance("index", "model")

\* The model answered with text, whose contract check awaits.
ModelAnswers == Advance("model", "ledger")

\* The ledger is not valid and a repair is left: the loop asks again.
Repair ==
    /\ run.pc = "ledger" /\ run.repairs < MaxRepairs /\ CheckLive
    /\ run' = [run EXCEPT !.pc = "model", !.repairs = @ + 1]
    /\ UNCHANGED <<vars, job, aborted>>

\* The ledger is valid: status "complete", and the result goes out.
Publish == run.pc = "ledger" /\ CheckLive /\ EndRun

\* Every other end, from any await: a failed check, a tool request, a throw,
\* no repair left, or checkLive() refusing.
RunFails == run.pc # "idle" /\ EndRun

-----------------------------------------------------------------------------
(* Control and environment.                                                *)

\* killSwitch() calls cancelAll().
CancelAll == job # None /\ ~aborted /\ aborted' = TRUE /\ UNCHANGED <<vars, job, run>>

\* A step of the manager that is not the job's.
Outside(A) == A /\ UNCHANGED <<job, aborted>> /\ Watch

\* The manager's own methods, between the awaits of the job.
Manage ==
    \/ \E v \in Versions : \/ Outside(Get(v))
                           \/ \E p \in Versions \cup {None} : Outside(Propose(v, p))
    \/ \E q \in Requests(db) : Outside(Approve(q) \/ SwitchVersion(q) \/ Disable(q))
    \/ \E a \in Attempts : Outside(DeadlinePasses(a))

\* The process restarts, perhaps as another build.
Restart(b) == /\ build' = b /\ waiting' = {} /\ UNCHANGED db
              /\ job' = None /\ aborted' = FALSE /\ run' = NoRun

Jobs ==
    \/ \E v \in Versions, a \in Attempts, r \in BOOLEAN : ServiceValidate(v, a, r)
    \/ \E a \in Attempts : \/ \E result \in {"passed", "failed", "error"} : RunnerEnds(a, result)
                           \/ TimerFires(a)

Running == \/ SourceReady \/ SnapshotChecked \/ IndexReady \/ ModelAnswers
           \/ Repair \/ Publish \/ RunFails

ServiceNext ==
    \/ Manage \/ Jobs \/ Running
    \/ \E refined \in BOOLEAN : StartRun(refined)
    \/ CancelAll
    \/ \E b \in Builds \cup {None} : Restart(b)

ServiceSpec == ServiceInit /\ [][ServiceNext]_allVars

\* Awaits of a run complete or throw, validators end, deadlines pass and
\* clients read.
ServiceFairSpec ==
    /\ ServiceSpec
    /\ WF_allVars(Running)
    /\ \A a \in Attempts : /\ WF_allVars(RunnerEnds(a, "error"))
                           /\ WF_allVars(Outside(DeadlinePasses(a)))
    /\ \A v \in Versions : WF_allVars(Outside(Get(v)))

-----------------------------------------------------------------------------
(* Properties.                                                             *)

\* A result goes out only if the guidance it used was active and qualified,
\* without interruption, from the pin to the publication: a disable or a
\* switch and a switch back in between block it (checkLive, readPin).
NoStalePublish == [][Publish => ~run.stale]_allVars

\* A job the kill switch aborted has no effect: its run publishes nothing and
\* its validation does not pass.
KilledJobHasNoEffect ==
    [][aborted => /\ ~(Publish /\ job = "run")
                  /\ \A a \in Attempts : job = a /\ db.att[a].st = "running"
                                             => db'.att[a].st # "passed"]_allVars

\* A run whose pin still carries the scope's generation is not stale: the
\* generation alone tells every change of what is active.
PinTellsChange ==
    (run.pin # None /\ run.pin.gen = db.gen) => ~run.stale

\* Whoever holds the job slot gives it back.
JobEnds == job # None ~> job = None

\* Nothing waits for ever: the job slot is given back and a validation attempt
\* reaches a terminal receipt, although a process may die under either.
JobsSettle == JobEnds /\ AttemptSettles

\* The stored tables agree, and the generation of a run's pin tells every
\* change of what is active while the run awaits.
ServiceSound == ServiceTypeOK /\ TablesAgree /\ PinTellsChange
=============================================================================
