------------------------------- MODULE RlmRun -------------------------------
(* One recursive analysis: the coordinator in the Durable Object               *)
(* (rlm-runtime.ts), its backend client (rlm-backend-client.ts), the private   *)
(* binding (rlm-binding.ts), the Node backend that owns the Worker and the     *)
(* process-wide permit (node-backend.mjs), and the Worker (worker.mjs).        *)
(* A round trip is a request, the backend's handling and the answer; only the  *)
(* steps at which another actor can come between are steps of their own.       *)
EXTENDS Integers, FiniteSets, FiniteSetsExt

CONSTANTS
  Runs,       \* analysis runs; a retained run can overlap the next one
  MaxEvents,  \* RLM_TRACE_LIMITS.maxChildren, the guest calls of a run
  MaxRows,    \* rows of the packed context
  MaxSteps,   \* RLM_COORDINATOR_MAX_STEPS
  MaxFaults,  \* bound on transport failures and unprovoked Worker exits
  NoRun

ASSUME RlmAssumption ==
  /\ NoRun \notin Runs
  /\ {MaxEvents, MaxRows, MaxSteps} \subseteq Nat \ {0}
  /\ MaxFaults \in Nat

Events == 1 .. MaxEvents
Nodes == 0 .. MaxEvents   \* 0 is the root node n0, e the child of event e
NoEvent == 0

Ops == {"init", "evaluate", "resolve", "pump"}

VARIABLES
  permit,   \* globalState.active
  rec,      \* rec[r]: the backend's session record
  guest,    \* guest[r]: the Worker thread
  client,   \* client[r]: RlmBackendClient
  run,      \* run[r]: the coordinator
  native,   \* native[r]: the run's provider I/O, as the native scope sees it
  current,  \* current[r]: input.assertCurrent() still passes
  faults

rlmVars == <<permit, rec, guest, client, run, native, current, faults>>

NoReply == [ok |-> FALSE, done |-> FALSE, events |-> {}, rows |-> 0, ran |-> {}]

NoRecord == [state |-> "none", cancelled |-> FALSE, stopped |-> FALSE, pending |-> "none",
             event |-> NoEvent, complete |-> FALSE, published |-> FALSE, outstanding |-> {},
             rows |-> 0, ran |-> {}]

NoGuest == [alive |-> FALSE, cmd |-> "none", event |-> NoEvent, heard |-> TRUE, msg |-> NoReply,
            terminal |-> FALSE, pending |-> {}, calls |-> 0, rows |-> 0, ran |-> {}]

NewRun == [pc |-> "new", op |-> "none", event |-> NoEvent, steps |-> 0, reply |-> NoReply,
           events |-> {}, queue |-> {}, submitted |-> {}, rows |-> 0, ran |-> {},
           complete |-> FALSE, reason |-> "none", result |-> "none"]

(* The coordinator's locals do not outlive its run. *)
Returned(result) == [NewRun EXCEPT !.pc = "done", !.result = result]

RlmInit ==
  /\ permit = NoRun
  /\ rec = [r \in Runs |-> NoRecord]
  /\ guest = [r \in Runs |-> NoGuest]
  /\ client = [r \in Runs |-> [state |-> "idle", owed |-> {}, settled |-> {}]]
  /\ run = [r \in Runs |-> NewRun]
  /\ native = [r \in Runs |-> "settled"]
  /\ current = [r \in Runs |-> TRUE]
  /\ faults = 0

-----------------------------------------------------------------------------
(* The Node backend. *)

(* stop(): the first reason wins; everything but COMPLETE also cancels, and a  *)
(* pending command stays pending until the exit event answers it.              *)
Stopped(b, reason) ==
  IF b.stopped THEN b
  ELSE [b EXCEPT !.stopped = TRUE, !.cancelled = reason # "COMPLETE", !.state = "terminating"]

(* The task, startup and command timers all end in stop(). The task timer is   *)
(* armed for the whole life of the session, so it stands for the other two.    *)
DeadlineFires(r) ==
  /\ rec[r].state \in {"starting", "running"}
  /\ rec' = [rec EXCEPT ![r] = Stopped(@, "TASK_DEADLINE")]
  /\ UNCHANGED <<permit, guest, client, run, native, current, faults>>

(* openSession(): one session per process, whatever run asks. *)
Admits(r) ==
  permit = NoRun

(* The open request reaches the binding. *)
OpenSession(r) ==
  /\ run[r].pc = "opening"
  /\ Admits(r)
  /\ permit' = r
  /\ rec' = [rec EXCEPT ![r].state = "starting"]
  /\ guest' = [guest EXCEPT ![r].alive = TRUE]
  /\ run' = [run EXCEPT ![r].pc = "opened"]
  /\ UNCHANGED <<client, native, current, faults>>

(* ADMISSION_BUSY: the client goes back to idle and the run has no session. *)
OpenRefused(r) ==
  /\ run[r].pc = "opening"
  /\ ~Admits(r)
  /\ run' = [run EXCEPT ![r].pc = "throw"]
  /\ UNCHANGED <<permit, rec, guest, client, native, current, faults>>

WorkerReady(r) ==
  /\ guest[r].alive
  /\ rec[r].state = "starting"
  /\ rec' = [rec EXCEPT ![r].state = "running"]
  /\ UNCHANGED <<permit, guest, client, run, native, current, faults>>

(* command(): refused once the session is stopped or gone, also after the wait *)
(* for `ready`; the coordinator has one command at a time.                     *)
CommandRefused(r) ==
  \/ rec[r].stopped \/ rec[r].state = "exited"
  \/ rec[r].complete /\ run[r].op # "pump"
  \/ run[r].op = "resolve" /\ run[r].event \notin rec[r].outstanding

PostCommand(r) ==
  /\ run[r].pc = "command"
  /\ IF CommandRefused(r)
     THEN /\ run' = [run EXCEPT ![r].pc = "throw"]
          /\ UNCHANGED <<rec, guest>>
     ELSE /\ rec[r].state = "running"
          /\ rec' = [rec EXCEPT ![r].pending = run[r].op, ![r].event = run[r].event]
          /\ guest' = [guest EXCEPT ![r].cmd = run[r].op, ![r].event = run[r].event]
          /\ run' = [run EXCEPT ![r].pc = "awaiting"]
  /\ UNCHANGED <<permit, client, native, current, faults>>

(* Wrong: a stopped session still listens until its Worker has exited. *)
ListensUntilExit(r) ==
  rec[r].state # "exited"

(* The message handler hears a Worker only while it is neither cancelled nor gone. *)
Listens(r) ==
  ~rec[r].cancelled /\ rec[r].state # "exited"

(* A Worker's message reaches the backend. A reply the parser refuses, or one  *)
(* whose sequence number is not the pending command's, stops the session.      *)
BackendHears(r) ==
  LET m == guest[r].msg
      b == rec[r]
  IN
  /\ ~guest[r].heard
  /\ guest' = [guest EXCEPT ![r].heard = TRUE, ![r].msg = NoReply]
  /\ IF ~Listens(r)
     THEN UNCHANGED <<rec, run>>
     ELSE IF b.pending = "none"
     THEN rec' = [rec EXCEPT ![r] = Stopped(@, "CHANNEL_ERROR")] /\ UNCHANGED run
     ELSE /\ rec' = [rec EXCEPT ![r].pending = "none", ![r].rows = m.rows, ![r].ran = m.ran,
                       ![r].complete = m.ok /\ m.done,
                       ![r].outstanding =
                         IF m.ok /\ m.done THEN {}
                         ELSE (IF m.ok /\ b.pending = "resolve" THEN @ \ {b.event} ELSE @)
                              \cup m.events]
          /\ run' = IF run[r].pc = "awaiting"
                    THEN [run EXCEPT ![r].pc = "reply", ![r].reply = m]
                    ELSE run
  /\ UNCHANGED <<permit, client, native, current, faults>>

(* A reply that fails to encode is posted with sequence number 0. *)
GarbledReply(r) ==
  /\ ~guest[r].heard
  /\ Listens(r)
  /\ faults < MaxFaults
  /\ faults' = faults + 1
  /\ guest' = [guest EXCEPT ![r].heard = TRUE, ![r].msg = NoReply, ![r].terminal = TRUE]
  /\ rec' = [rec EXCEPT ![r] = Stopped(@, "CHANNEL_ERROR")]
  /\ UNCHANGED <<permit, client, run, native, current>>

(* Wrong: a session stopped on purpose leaves its command unanswered. *)
AnswersUnstopped(r) ==
  run[r].pc = "awaiting" /\ rec[r].pending # "none" /\ ~rec[r].stopped

(* The exit event answers a pending command, whatever the reason of the exit. *)
AnswersPending(r) ==
  run[r].pc = "awaiting" /\ rec[r].pending # "none"

(* The exit event, after terminate() or of the Worker's own accord: a pending  *)
(* command is answered with a failure.                                         *)
WorkerExits(r) ==
  /\ guest[r].alive
  /\ rec[r].stopped \/ faults < MaxFaults
  /\ faults' = IF rec[r].stopped THEN faults ELSE faults + 1
  /\ guest' = [guest EXCEPT ![r].alive = FALSE, ![r].cmd = "none", ![r].heard = TRUE,
                            ![r].msg = NoReply, ![r].pending = {}]
  /\ rec' = [rec EXCEPT ![r].state = "exited", ![r].pending = "none"]
  /\ run' = IF AnswersPending(r)
            THEN [run EXCEPT ![r].pc = "reply",
                    ![r].reply = [NoReply EXCEPT !.rows = rec[r].rows, !.ran = rec[r].ran]]
            ELSE run
  /\ UNCHANGED <<permit, client, native, current>>

-----------------------------------------------------------------------------
(* The Worker: it dispatches one command and posts one reply. *)

(* The guest runs: it may read rows, raise host calls within its budget, and   *)
(* finish once no call is pending. Evidence only grows.                        *)
GuestRuns(r, new, rows) ==
  LET g == guest[r]
      ran == CASE g.cmd = "evaluate" -> {0}
               [] g.cmd = "resolve" -> {g.event}
               [] OTHER -> {}
      left == (IF g.cmd = "resolve" THEN g.pending \ {g.event} ELSE g.pending) \cup new
  IN
  /\ g.alive /\ g.cmd # "none" /\ ~g.terminal
  /\ new \in {{}, {g.calls + 1}, {g.calls + 1, g.calls + 2}} /\ new \subseteq Events
  /\ g.cmd = "init" => new = {}
  /\ rows \in g.rows .. (IF g.cmd = "init" THEN g.rows ELSE MaxRows)
  /\ \E done \in BOOLEAN :
       /\ done => left = {} /\ g.cmd # "init"
       /\ guest' = [guest EXCEPT ![r].cmd = "none", ![r].heard = FALSE, ![r].pending = left,
                      ![r].calls = g.calls + Cardinality(new), ![r].rows = rows,
                      ![r].ran = @ \cup ran, ![r].terminal = done,
                      ![r].msg = [ok |-> TRUE, done |-> done, events |-> new,
                                  rows |-> rows, ran |-> g.ran \cup ran]]
  /\ UNCHANGED <<permit, rec, client, run, native, current, faults>>

(* Any error in the Worker closes it: the guest and its calls are dropped, the *)
(* thread itself stays up until the parent terminates it.                      *)
GuestFails(r) ==
  LET g == guest[r] IN
  /\ g.alive /\ g.cmd # "none"
  /\ guest' = [guest EXCEPT ![r].cmd = "none", ![r].heard = FALSE, ![r].pending = {},
                 ![r].terminal = TRUE,
                 ![r].msg = [NoReply EXCEPT !.rows = g.rows, !.ran = g.ran]]
  /\ UNCHANGED <<permit, rec, client, run, native, current, faults>>

-----------------------------------------------------------------------------
(* The coordinator. *)

(* run(): currency, native observation, context encoding, then open. *)
RunBegins(r) ==
  /\ run[r].pc = "new"
  /\ current[r]
  /\ run' = [run EXCEPT ![r].pc = "opening"]
  /\ UNCHANGED <<permit, rec, guest, client, native, current, faults>>

(* A stale job, an unobserved budget or an unencodable context never opens. *)
RunRefused(r) ==
  /\ run[r].pc = "new"
  /\ run' = [run EXCEPT ![r] = Returned("failed")]
  /\ UNCHANGED <<permit, rec, guest, client, native, current, faults>>

Opened(r) ==
  /\ run[r].pc = "opened"
  /\ client' = [client EXCEPT ![r].state = "live"]
  /\ run' = [run EXCEPT ![r].pc = "command", ![r].op = "init"]
  /\ UNCHANGED <<permit, rec, guest, native, current, faults>>

(* The client accepts a reply: new calls are owed until confirmed, a resolved  *)
(* one is settled, and a verified completion settles them all.                 *)
Accepted(c, op, event, m) ==
  LET owed == c.owed \cup m.events
      paid == CASE m.ok /\ m.done -> owed
                [] m.ok /\ op = "resolve" -> {event}
                [] OTHER -> {}
  IN [c EXCEPT !.owed = owed \ paid, !.settled = @ \cup (paid \cap owed)]

(* Wrong: rows alone prove the coverage; an unexecuted source is let through. *)
RowsProve(u) ==
  u.rows = MaxRows

(* Every row was delivered and every submitted source was executed. *)
Proven(u) ==
  u.rows = MaxRows /\ u.submitted \subseteq u.ran

(* Wrong: one command too many. *)
StepsLeftInclusive(u) ==
  u.steps <= MaxSteps

StepsLeft(u) ==
  u.steps < MaxSteps

(* The next thing to do after a usable reply: finish, serve the oldest queued  *)
(* call, or pump. The last permitted step consumes its reply and stops.        *)
AfterReply(u) ==
  CASE u.reply.done /\ u.queue # {} -> [u EXCEPT !.pc = "throw"]
    [] u.reply.done /\ u.queue = {} -> [u EXCEPT !.pc = "publish", !.complete = TRUE]
    [] ~u.reply.done /\ ~StepsLeft(u) -> [u EXCEPT !.pc = "publish"]
    [] ~u.reply.done /\ StepsLeft(u) /\ u.queue # {} ->
         [u EXCEPT !.pc = "child", !.steps = @ + 1, !.event = Min(u.queue),
                   !.queue = @ \ {Min(u.queue)}]
    [] OTHER -> [u EXCEPT !.pc = "command", !.op = "pump", !.event = NoEvent, !.steps = @ + 1]

(* A reply comes back: the client takes its events, then the coordinator asks  *)
(* whether the job is still current, and only then takes them too.             *)
ReplyArrives(r) ==
  LET m == run[r].reply
      seen == [run[r] EXCEPT !.rows = m.rows, !.ran = m.ran]
      took == [seen EXCEPT !.events = @ \cup m.events, !.queue = @ \cup m.events]
  IN
  /\ run[r].pc = "reply"
  /\ client' = [client EXCEPT ![r] = Accepted(@, run[r].op, run[r].event, m)]
  /\ run' = [run EXCEPT ![r] =
       CASE run[r].op = "init" -> [seen EXCEPT !.pc = IF m.ok THEN "codegen" ELSE "throw"]
         [] run[r].op # "init" /\ ~current[r] -> [seen EXCEPT !.pc = "throw"]
         [] run[r].op # "init" /\ current[r] /\ ~m.ok ->
              [seen EXCEPT !.pc = IF Proven(seen) THEN "publish" ELSE "throw"]
         [] OTHER -> AfterReply(took)]
  /\ UNCHANGED <<permit, rec, guest, native, current, faults>>

ModelPhases == {"codegen", "child", "ledger"}

(* A model call returns usable text: code for the root or a recursive child,   *)
(* findings for a plain child, a valid ledger (at once or after its repair).   *)
ModelAnswers(r) ==
  /\ run[r].pc \in ModelPhases
  /\ current[r]
  /\ run' = [run EXCEPT ![r] =
       CASE @.pc = "codegen" ->
              [@ EXCEPT !.pc = "command", !.op = "evaluate", !.submitted = {0}]
         [] @.pc = "child" ->
              [@ EXCEPT !.pc = "command", !.op = "resolve", !.submitted = @ \cup {run[r].event}]
         [] OTHER -> [@ EXCEPT !.pc = "finish"]]
  /\ UNCHANGED <<permit, rec, guest, client, native, current, faults>>

(* A plain child call submits no source. *)
SubtaskAnswers(r) ==
  /\ run[r].pc = "child"
  /\ current[r]
  /\ run' = [run EXCEPT ![r].pc = "command", ![r].op = "resolve"]
  /\ UNCHANGED <<permit, rec, guest, client, native, current, faults>>

(* The call is refused, aborted, times out or its text is unusable. Its I/O    *)
(* may still be open, or never have been observable.                           *)
ModelThrows(r) ==
  /\ run[r].pc \in ModelPhases
  /\ run' = [run EXCEPT ![r].pc = "throw"]
  /\ \E n \in {"settled", "pending", "unobserved"} : native' = [native EXCEPT ![r] = n]
  /\ UNCHANGED <<permit, rec, guest, client, current, faults>>

NativeSettles(r) ==
  /\ native[r] = "pending"
  /\ native' = [native EXCEPT ![r] = "settled"]
  /\ UNCHANGED <<permit, rec, guest, client, run, current, faults>>

(* publish() of the backend: live, complete, once, and nothing outstanding. *)
CanPublish(b) ==
  ~b.stopped /\ b.state # "exited" /\ ~b.published /\ b.complete /\ b.outstanding = {}

(* The loop is over: accepted findings are published to the backend, a host    *)
(* recovery is not, and either needs the whole evidence to go on to the ledger. *)
Publish(r) ==
  LET u == [run[r] EXCEPT !.rows = rec[r].rows, !.ran = rec[r].ran] IN
  /\ run[r].pc = "publish"
  /\ \/ /\ u.complete /\ CanPublish(rec[r])
        /\ rec' = [rec EXCEPT ![r].published = TRUE]
        /\ run' = [run EXCEPT ![r] = [u EXCEPT !.pc = IF Proven(u) THEN "ledger" ELSE "throw"]]
     \/ /\ ~u.complete /\ Proven(u)
        /\ run' = [run EXCEPT ![r] = [u EXCEPT !.pc = "ledger"]]
        /\ UNCHANGED rec
     \/ /\ u.complete \/ ~Proven(u)
        /\ run' = [run EXCEPT ![r] = [u EXCEPT !.pc = "throw"]]
        /\ UNCHANGED rec
  /\ UNCHANGED <<permit, guest, client, native, current, faults>>

-----------------------------------------------------------------------------
(* finalize(): once per run, in this order. *)

(* finalize() of a run without a usable session only fails the result. *)
NothingToClose(r) ==
  /\ run[r].pc \in {"throw", "finish"}
  /\ client[r].state \in {"idle", "quarantined"}
  /\ run' = [run EXCEPT ![r] = Returned("failed")]
  /\ UNCHANGED <<permit, rec, guest, client, native, current, faults>>

(* terminate(reason). *)
Finalize(r) ==
  LET reason == IF run[r].pc = "finish" /\ current[r] THEN "COMPLETE"
                ELSE IF current[r] THEN "ERROR" ELSE "CANCELLED"
  IN
  /\ run[r].pc \in {"throw", "finish"}
  /\ client[r].state = "live"
  /\ rec' = [rec EXCEPT ![r] = IF @.state = "exited" THEN [Stopped(@, reason) EXCEPT !.state = "exited"]
                               ELSE Stopped(@, reason)]
  /\ client' = [client EXCEPT ![r].state = "closing"]
  /\ run' = [run EXCEPT ![r].pc = "exiting", ![r].reason = reason]
  /\ UNCHANGED <<permit, guest, native, current, faults>>

(* Wrong: a prompt failure releases what it could join later. *)
ReleasesPending(r) ==
  native[r] # "unobserved"

(* nativeSettled(): sealed, and every provider operation observed to its end. *)
NativeSettled(r) ==
  native[r] = "settled"

(* waitExit and the exit proof. Unobservable I/O keeps the permit for good;    *)
(* pending I/O fails the result now and releases later.                        *)
ExitProved(r) ==
  /\ run[r].pc = "exiting"
  /\ rec[r].state = "exited"
  /\ run' = [run EXCEPT ![r] =
       CASE native[r] = "unobserved" -> Returned("failed")
         [] NativeSettled(r) -> [@ EXCEPT !.pc = "clearing"]
         [] OTHER -> [@ EXCEPT !.pc = "joining", !.result = "failed"]]
  /\ UNCHANGED <<permit, rec, guest, client, native, current, faults>>

(* joinNativeOperations() resolves for a result that was already returned. *)
Joined(r) ==
  /\ run[r].pc = "joining"
  /\ NativeSettled(r)
  /\ run' = [run EXCEPT ![r].pc = "clearing"]
  /\ UNCHANGED <<permit, rec, guest, client, native, current, faults>>

(* releaseAfterJoin(): each call the coordinator took is settled by name. *)
ClearSettledEvent(r) ==
  /\ run[r].pc = "clearing"
  /\ \E e \in run[r].events \ client[r].settled :
       /\ client' = [client EXCEPT ![r].owed = @ \ {e}, ![r].settled = @ \cup {e}]
       /\ rec' = [rec EXCEPT ![r].outstanding = @ \ {e}]
  /\ UNCHANGED <<permit, guest, run, native, current, faults>>

(* The fresh inspect, the client's own checks and the backend's: exit seen,    *)
(* nothing outstanding, nothing owed.                                          *)
Releasable(r) ==
  /\ rec[r].state = "exited" /\ rec[r].outstanding = {} /\ client[r].owed = {}
  /\ NativeSettled(r)

(* Only finalize("COMPLETE") that released returns the ledger. *)
ResultOf(u) ==
  IF u.result = "none" /\ u.reason = "COMPLETE" THEN "complete" ELSE "failed"

(* The backend frees the permit and the binding forgets the session. *)
Freed(r) ==
  /\ run[r].pc = "clearing"
  /\ run[r].events \subseteq client[r].settled
  /\ Releasable(r)
  /\ permit' = NoRun
  /\ rec' = [rec EXCEPT ![r] = NoRecord]
  /\ guest' = [guest EXCEPT ![r] = NoGuest]

Release(r) ==
  /\ Freed(r)
  /\ client' = [client EXCEPT ![r] = [state |-> "released", owed |-> {}, settled |-> {}]]
  /\ run' = [run EXCEPT ![r] = Returned(ResultOf(@))]
  /\ UNCHANGED <<native, current, faults>>

(* The permit is free but the answer is lost: the run does not know. *)
ReleaseUnanswered(r) ==
  /\ Freed(r)
  /\ faults < MaxFaults
  /\ faults' = faults + 1
  /\ client' = [client EXCEPT ![r] = [state |-> "quarantined", owed |-> {}, settled |-> {}]]
  /\ run' = [run EXCEPT ![r] = Returned("failed")]
  /\ UNCHANGED <<native, current>>

(* releaseAfterJoin() returns false: the permit stays where it is. *)
ReleaseDeclined(r) ==
  /\ run[r].pc = "clearing"
  /\ run[r].events \subseteq client[r].settled
  /\ ~Releasable(r)
  /\ run' = [run EXCEPT ![r] = Returned("failed")]
  /\ UNCHANGED <<permit, rec, guest, client, native, current, faults>>

-----------------------------------------------------------------------------
(* A round trip over the binding fails, before or after the backend handled    *)
(* it. With a run id the client is quarantined for good; an open that failed   *)
(* leaves no session behind on this side.                                      *)
RoundTripFails(r) ==
  /\ faults < MaxFaults
  /\ run[r].pc \in {"opening", "opened", "command", "awaiting", "reply", "exiting",
                    "clearing"}
  /\ faults' = faults + 1
  /\ client' = [client EXCEPT ![r].state =
                  IF run[r].pc \in {"opening", "opened"} THEN "idle" ELSE "quarantined"]
  /\ run' = [run EXCEPT ![r] =
       IF @.pc \in {"exiting", "clearing"}
       THEN Returned("failed") ELSE [@ EXCEPT !.pc = "throw"]]
  /\ UNCHANGED <<permit, rec, guest, native, current>>

(* The job is cancelled, its wall time ends, or its guidance changes. *)
JobEnds(r) ==
  /\ current[r] /\ run[r].pc # "new" /\ run[r].result = "none"
  /\ current' = [current EXCEPT ![r] = FALSE]
  /\ UNCHANGED <<permit, rec, guest, client, run, native, faults>>

-----------------------------------------------------------------------------
Coordinator(r) ==
  \/ RunBegins(r) \/ RunRefused(r) \/ OpenSession(r) \/ OpenRefused(r) \/ Opened(r)
  \/ PostCommand(r) \/ ReplyArrives(r) \/ Publish(r)
  \/ NothingToClose(r) \/ Finalize(r) \/ ExitProved(r) \/ Joined(r)
  \/ ClearSettledEvent(r) \/ Release(r) \/ ReleaseDeclined(r)

Model(r) == ModelAnswers(r) \/ SubtaskAnswers(r) \/ ModelThrows(r)

Worker(r) ==
  \/ WorkerReady(r) \/ BackendHears(r) \/ GuestFails(r)
  \/ \E new \in SUBSET Events, rows \in 0 .. MaxRows : GuestRuns(r, new, rows)

RlmNext ==
  \E r \in Runs :
    \/ Coordinator(r) \/ Model(r) \/ Worker(r)
    \/ DeadlineFires(r) \/ GarbledReply(r) \/ WorkerExits(r)
    \/ NativeSettles(r) \/ RoundTripFails(r) \/ ReleaseUnanswered(r) \/ JobEnds(r)

RlmSpec == RlmInit /\ [][RlmNext]_rlmVars

(* The coordinator's continuations run, timers fire, a terminated thread       *)
(* exits, and a model call ends (its own deadline ends it). Neither the guest  *)
(* nor pending I/O is assumed to get anywhere.                                 *)
RlmFairSpec ==
  /\ RlmSpec
  /\ \A r \in Runs :
       /\ WF_rlmVars(run[r].pc # "new" /\ Coordinator(r))
       /\ WF_rlmVars(Model(r))
       /\ WF_rlmVars(DeadlineFires(r))
       /\ WF_rlmVars(rec[r].stopped /\ WorkerExits(r))

-----------------------------------------------------------------------------
RlmTypeOK ==
  /\ permit \in Runs \cup {NoRun}
  /\ rec \in [Runs -> [state: {"none", "starting", "running", "terminating", "exited"},
                       cancelled: BOOLEAN, stopped: BOOLEAN, pending: Ops \cup {"none"},
                       event: Nodes, complete: BOOLEAN, published: BOOLEAN,
                       outstanding: SUBSET Events, rows: 0 .. MaxRows, ran: SUBSET Nodes]]
  /\ \A r \in Runs :
       /\ guest[r].pending \subseteq Events /\ guest[r].calls \in 0 .. MaxEvents
       /\ guest[r].rows \in 0 .. MaxRows /\ guest[r].cmd \in Ops \cup {"none"}
       /\ run[r].result \in {"none", "failed", "complete"}
       /\ run[r].steps \in 0 .. MaxSteps
       /\ run[r].queue \subseteq run[r].events
       /\ native[r] \in {"settled", "pending", "unobserved"}
  /\ client \in [Runs -> [state: {"idle", "live", "closing", "released", "quarantined"},
                          owed: SUBSET Events, settled: SUBSET Events]]
  /\ faults \in 0 .. MaxFaults

(* A run has work under way while its Worker lives, a guest call is not        *)
(* settled, or its provider I/O is not known to have ended.                    *)
Busy == {r \in Runs : guest[r].alive \/ rec[r].outstanding # {} \/ native[r] # "settled"}

ThePermit == INSTANCE Permit WITH holder <- permit, busy <- Busy

(* The four layers of checks (coordinator, client, binding, backend) together  *)
(* implement the permit: no Worker starts, and the permit is never handed on,  *)
(* while a Worker, a guest call or provider I/O of the last run may still be   *)
(* active. This is what finalize/releaseAfterJoin (rlm-runtime.ts) is for.     *)
ImplementsPermit == ThePermit!PermitSpec

(* A ledger is returned only by a run that was released after a proven exit,   *)
(* read every row and executed every source it submitted: a deadline, a failed *)
(* round trip or a stopped Worker in between turns the result into a failure.  *)
ResultIsProved ==
  [][\A r \in Runs : run'[r].result = "complete" /\ run[r].result # "complete" =>
       /\ client'[r].state = "released" /\ ~guest[r].alive
       /\ run[r].rows = MaxRows
       /\ 0 \in run[r].submitted /\ run[r].submitted \subseteq run[r].ran]_rlmVars

(* Once a session is cancelled, nothing its Worker still has in flight         *)
(* changes what the host believes: no evidence, completion or new host call.   *)
CancelledIsDeaf ==
  [][\A r \in Runs : rec[r].cancelled /\ rec'[r].state # "none" =>
       /\ rec'[r].complete = rec[r].complete
       /\ rec'[r].rows = rec[r].rows
       /\ rec'[r].outstanding \subseteq rec[r].outstanding]_rlmVars

(* Every run that begins returns a result, whatever the guest, the Worker, the *)
(* transport or the provider do.                                               *)
RunEnds ==
  \A r \in Runs : run[r].pc # "new" ~> run[r].result # "none"

(* "An unserved queued event is known never-dispatched, not unknown native     *)
(* I/O" (releaseAfterJoin): once a run is over, its Worker gone and its I/O     *)
(* settled, with every round trip answered, the permit has been returned.      *)
SettledReturnsPermit ==
  \A r \in Runs :
    (/\ run[r].pc = "done" /\ faults = 0
     /\ rec[r].state = "exited" /\ native[r] = "settled") => permit # r
=============================================================================
