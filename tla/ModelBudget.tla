---------------------------- MODULE ModelBudget ----------------------------
(***************************************************************************)
(* The model budget of one workflow run (workflows/model-budget.ts), the   *)
(* native-operation scope it carries in RLM mode (llm/native-operation-    *)
(* scope.ts), the transports its calls open there (llm/bounded-response.ts *)
(* and the two clients) and the run's finalization, which gives the RLM    *)
(* permit back only when all native work has settled                       *)
(* (workflows/rlm-runtime.ts).                                             *)
(*                                                                         *)
(* One process, so an action is what runs from one event to the next. The  *)
(* state of the host is one record m, and each method an operator m -> m:  *)
(*   the ledger m.call, one entry per attempt. pc: "race" the caller       *)
(*     awaits provider or abort, "answer" receive() accepted the response  *)
(*     and the caller has not yet resumed, "done";                         *)
(*   the counters of the budget and its close reason;                      *)
(*   m.net, the transport of each attempt: st is the native operation its  *)
(*     reader awaits ("fetch", "read"), "idle" before and "end" after;     *)
(*   the counters of the scope, its seal and its waiter.                   *)
(* Input sizes, token counts and limits are numbers; a request is          *)
(* otherwise valid, and one that is refused changes nothing. Every caller  *)
(* passes the budget's own signal, so no call is cancelled alone.          *)
(*                                                                         *)
(* Definitions marked "Wrong" are plausible mistakes in the definition     *)
(* that follows them; the specification never uses them.                   *)
(***************************************************************************)
EXTENDS Integers, FiniteSets, FiniteSetsExt

CONSTANTS
    MaxAttempts, MaxConcurrent,             \* ModelBudgetLimits
    MaxBytesPerCall, MaxTotalBytes,
    MaxObservedInput, MaxObservedOutput, MaxOutputPerCall,
    TransportCap, PendingCap,               \* TRANSPORT_CAP, PENDING_CAP
    MaxIn, MaxOut,  \* bounds: tokens a provider reports for one call
    Clients,    \* the clients an engine may be configured with
    None

ASSUME LimitsAssumption ==
    /\ {MaxAttempts, MaxConcurrent, MaxBytesPerCall, MaxTotalBytes, MaxObservedInput,
        MaxObservedOutput, MaxOutputPerCall, TransportCap, PendingCap} \subseteq Nat \ {0}
    /\ MaxIn \in Nat /\ MaxOut \in Nat /\ Clients \subseteq {"openai", "anthropic"}

\* The hard ceilings leave two transports and two operations to every
\* concurrent call (8 of them against TRANSPORT_CAP = 16, PENDING_CAP = 64).
ASSUME CapsAssumption == TransportCap >= 2 * MaxConcurrent /\ PendingCap >= 2 * MaxConcurrent

VARIABLES
    client, \* the configured client; Anthropic's holds a transport for its SDK's lifetime
    m,      \* the host's state
    past,   \* wallTimeMs has elapsed
    fin     \* the run's finalization

vars == <<client, m, past, fin>>

Ids == 1..MaxAttempts

\* The close reasons, by kind; a disposed budget counts as cancelled.
Codes == {"cancelled", "deadline", "limit", "error"}

Attempt == [want: Nat,                                    \* requestedOutputTokens
            settle: {"pending", "fulfilled", "rejected"}, \* providerSettlement
            usage: {"pending", "reported", "unknown"},
            outcome: {"pending", "succeeded", "rejected"},
            late: BOOLEAN, pc: {"race", "answer", "done"}]

Transport == [st: {"idle", "fetch", "read", "end"},
              cancel: {"no", "pending", "settled", "refused"},
              failed: BOOLEAN,                     \* `failure` is set
              sdk: BOOLEAN, producer: BOOLEAN,     \* the open producers
              recOpen: Nat, recOps: Nat,           \* NativeAttemptState
              instrumented: BOOLEAN]

Host == [call: [Ids -> Attempt \cup {None}], net: [Ids -> Transport],
         closed: Codes \cup {None},
         active: Nat, bytes: Nat, reserved: Nat, obsIn: Nat, obsOut: Nat,
         instrumented: BOOLEAN, sealed: BOOLEAN, transports: Nat, pending: Nat,
         waiting: BOOLEAN, woken: BOOLEAN]

TypeOK == /\ m \in Host
          /\ past \in BOOLEAN /\ client \in Clients
          /\ fin \in {"run", "exit", "join", "release", "released", "kept", "broken"}

Init ==
    /\ m = [call |-> [i \in Ids |-> None],
            net |-> [i \in Ids |-> [st |-> "idle", cancel |-> "no", failed |-> FALSE,
                                    sdk |-> FALSE, producer |-> FALSE,
                                    recOpen |-> 0, recOps |-> 0, instrumented |-> FALSE]],
            closed |-> None, active |-> 0, bytes |-> 0, reserved |-> 0,
            obsIn |-> 0, obsOut |-> 0, instrumented |-> FALSE, sealed |-> FALSE,
            transports |-> 0, pending |-> 0, waiting |-> FALSE, woken |-> FALSE]
    /\ client \in Clients /\ past = FALSE /\ fin = "run"

Ledger(h) == {i \in Ids : h.call[i] # None}

\* A reason and an attempt are never absent.
ASSUME NoneAssumption == None \notin Codes /\ None \notin Attempt

-----------------------------------------------------------------------------
(* The native-operation scope, seen through an attempt (bindAttempt).      *)

\* isSettled()
Settled(h) == h.instrumented /\ h.sealed /\ h.transports = 0 /\ h.pending = 0

\* notify(): resolves the join() that waits, if any.
Notify(h) == IF h.waiting /\ Settled(h)
             THEN [h EXCEPT !.waiting = FALSE, !.woken = TRUE] ELSE h

Opened(h, i) ==
    [h EXCEPT !.instrumented = TRUE, !.transports = @ + 1,
              !.net[i].instrumented = TRUE, !.net[i].recOpen = @ + 1]

\* openTransport() refuses: the caller's fetch throws.
Refuses(h) == h.sealed \/ h.transports >= TransportCap

\* closeProducer()
Closed(h, i) == Notify([h EXCEPT !.transports = @ - 1, !.net[i].recOpen = @ - 1])

Tracked(h, i) == [h EXCEPT !.pending = @ + 1, !.net[i].recOps = @ + 1]

\* Wrong: only closing a producer notifies.
OpSettledSilently(h, i) == [h EXCEPT !.pending = @ - 1, !.net[i].recOps = @ - 1]

\* settleOp()
OpSettled(h, i) == Notify([h EXCEPT !.pending = @ - 1, !.net[i].recOps = @ - 1])

Seal(h) == Notify([h EXCEPT !.sealed = TRUE])

\* attemptNativeObservation()
AttemptSettled(h, i) == h.net[i].instrumented /\ h.net[i].recOpen = 0 /\ h.net[i].recOps = 0

-----------------------------------------------------------------------------
(* fetchBoundedResponse.                                                   *)

\* Wrong: the cancellation is not tracked.
AdmitCancelUntracked(h, i) ==
    IF h.net[i].cancel # "no" THEN h ELSE [h EXCEPT !.net[i].cancel = "pending"]

\* admitCancel(), through fireTrackedCancel().
AdmitCancel(h, i) ==
    IF h.net[i].cancel # "no" THEN h
    ELSE IF h.net[i].producer /\ h.pending < PendingCap
         THEN Tracked([h EXCEPT !.net[i].cancel = "pending"], i)
         ELSE [h EXCEPT !.net[i].cancel = "refused"]

\* stop(): the first failure aborts the transport and cancels the reader.
Stop(h, i) ==
    IF h.net[i].failed THEN h
    ELSE LET f == [h EXCEPT !.net[i].failed = TRUE]
         IN  IF h.net[i].st = "read" THEN AdmitCancel(f, i) ELSE f

\* read() ends: its producer closes, unless a cancellation was refused.
EndRead(h, i) ==
    LET e == [h EXCEPT !.net[i].st = "end"]
    IN  IF h.net[i].cancel = "refused" \/ ~h.net[i].producer THEN e
        ELSE Closed([e EXCEPT !.net[i].producer = FALSE], i)

\* The start of fetchBoundedResponse: openTransport, then the tracked fetch;
\* a refusal of either leaves no producer open.
StartTransport(h, i) ==
    IF Refuses(h) \/ h.pending >= PendingCap
    THEN [h EXCEPT !.net[i].failed = TRUE, !.net[i].st = "end"]
    ELSE Tracked([Opened(h, i) EXCEPT !.net[i].producer = TRUE, !.net[i].st = "fetch"], i)

-----------------------------------------------------------------------------
(* The budget.                                                             *)

\* abortRun() of every call that still listens.
AbortRuns(h) ==
    [h EXCEPT !.call =
        [i \in Ids |->
            IF h.call[i] = None \/ h.call[i].pc = "done" THEN h.call[i]
            ELSE [h.call[i] EXCEPT
                    !.outcome = IF @ = "pending" THEN "rejected" ELSE @,
                    !.usage = IF h.call[i].settle = "pending" THEN "unknown" ELSE @,
                    !.pc = IF @ = "race" THEN "done" ELSE @]]]

\* The abort listeners of the transports, in the order of their attempts.
Stops(h) ==
    LET s[n \in 0..MaxAttempts] ==
            IF n = 0 THEN h
            ELSE IF h.net[n].st \in {"fetch", "read"} THEN Stop(s[n - 1], n) ELSE s[n - 1]
    IN  s

StopAll(h) == Stops(h)[MaxAttempts]

\* close(): the first reason wins; abort reaches callers and transports, then
\* the scope is sealed.
Close(h, code) ==
    IF h.closed # None THEN h
    ELSE Seal(StopAll(AbortRuns([h EXCEPT !.closed = code])))

\* reject()
Reject(h, i, code) ==
    Close([h EXCEPT !.call[i].outcome = IF @ = "pending" THEN "rejected" ELSE @,
                    !.call[i].pc = "done"], code)

\* Wrong: what other calls reserved is forgotten.
AvailableUnreserved(h) == MaxObservedOutput - h.obsOut

\* The output tokens neither observed nor reserved.
Available(h) == MaxObservedOutput - h.reserved - h.obsOut

\* boundedCopy(): the JSON bytes of the request, counted only as far as both what
\* one call may send and what is left of the run's total allow.
Fits(bytes) == bytes <= Min({MaxBytesPerCall, MaxTotalBytes - m.bytes})

\* createMessage(), to its await: checks, reservation, and the client's start.
Admit(max, bytes) ==
    LET i == Cardinality(Ledger(m)) + 1
        want == Min({max, MaxOutputPerCall, Available(m)})
        entry == [want |-> want, settle |-> "pending", usage |-> "pending",
                  outcome |-> "pending", late |-> FALSE, pc |-> "race"]
        booked == [m EXCEPT !.call[i] = entry, !.active = @ + 1,
                            !.bytes = @ + bytes, !.reserved = @ + want]
    IN  /\ m.closed = None /\ ~past /\ ~m.sealed
        /\ i <= MaxAttempts /\ m.active < MaxConcurrent
        /\ m.obsIn < MaxObservedInput /\ Available(m) > 0
        /\ Fits(bytes)
        /\ m' = IF client = "openai" THEN StartTransport(booked, i)
                ELSE [Opened(booked, i) EXCEPT !.net[i].sdk = TRUE]
        /\ UNCHANGED <<client, past, fin>>

\* receive(): book the usage, then accept the response or close the budget.
Receive(h, i, use, valid) ==
    LET r == [h EXCEPT !.active = @ - 1, !.obsIn = @ + use.inp, !.obsOut = @ + use.out,
                       !.reserved = IF use.reported THEN @ - h.call[i].want ELSE @,
                       !.call[i].settle = "fulfilled",
                       !.call[i].late = h.call[i].outcome = "rejected",
                       !.call[i].usage = IF use.reported THEN "reported" ELSE "unknown"]
    IN  IF r.closed # None THEN Reject(r, i, r.closed)
        ELSE IF ~use.reported THEN Reject(r, i, "error")
        ELSE IF \/ r.obsIn > MaxObservedInput \/ r.obsOut > MaxObservedOutput
                \/ use.out > h.call[i].want THEN Reject(r, i, "limit")
        ELSE IF ~valid THEN Reject(r, i, "error")
        ELSE IF past THEN Reject(Close(r, "deadline"), i, "deadline")
        ELSE [r EXCEPT !.call[i].pc = "answer"]

\* The client's own transport closes just before its promise settles.
SdkEnds(h, i) == IF ~h.net[i].sdk THEN h
                 ELSE Closed([h EXCEPT !.net[i].sdk = FALSE], i)

\* The client has what it needs to answer: the bytes were read, or the
\* transport failed.
ClientReady(h, i) ==
    /\ h.call[i] # None /\ h.call[i].settle = "pending"
    /\ h.net[i].failed \/ h.net[i].st = "end"

\* What readUsage() makes of a response: both counts, or nothing at all, as the
\* clients mark a response whose counts are not numbers as not reported.
Usage == [inp: 0..MaxIn, out: 0..MaxOut, reported: {TRUE}]
         \cup [inp: {0}, out: {0}, reported: {FALSE}]

\* The provider's promise fulfils, perhaps after the budget closed.
ProviderFulfils(i, use, valid) ==
    /\ ClientReady(m, i) /\ ~m.net[i].failed
    /\ m' = Receive(SdkEnds(m, i), i, use, valid)
    /\ UNCHANGED <<client, past, fin>>

\* It rejects: the transport failed, or the response is no answer.
ProviderRejects(i) ==
    /\ ClientReady(m, i)
    /\ LET h == SdkEnds(m, i)
       IN  m' = Reject([h EXCEPT !.active = @ - 1, !.call[i].settle = "rejected",
                                 !.call[i].usage = "unknown",
                                 !.call[i].late = h.call[i].outcome = "rejected"],
                       i, "error")
    /\ UNCHANGED <<client, past, fin>>

\* Wrong: the response is returned whatever happened meanwhile.
ContinueUnchecked(i) ==
    /\ m.call[i] # None /\ m.call[i].pc = "answer"
    /\ m' = [m EXCEPT !.call[i].outcome = "succeeded", !.call[i].pc = "done"]
    /\ UNCHANGED <<client, past, fin>>

\* The caller resumes with an accepted response; checkOpen() comes first.
Continue(i) ==
    /\ m.call[i] # None /\ m.call[i].pc = "answer"
    /\ LET h == IF past THEN Close(m, "deadline") ELSE m
       IN  m' = IF h.closed # None THEN [h EXCEPT !.call[i].pc = "done"]
                ELSE [h EXCEPT !.call[i].outcome = "succeeded", !.call[i].pc = "done"]
    /\ UNCHANGED <<client, past, fin>>

\* The job's signal aborts, cancel() or dispose().
Cancel == m.closed = None /\ m' = Close(m, "cancelled") /\ UNCHANGED <<client, past, fin>>

\* Wrong: a call in progress is left alone.
DeadlineClosesIdle ==
    /\ past /\ m.closed = None /\ m.active = 0 /\ m' = Close(m, "deadline")
    /\ UNCHANGED <<client, past, fin>>

\* The timer, or checkOpen() in a later createMessage.
DeadlineCloses ==
    past /\ m.closed = None /\ m' = Close(m, "deadline") /\ UNCHANGED <<client, past, fin>>

ClockPasses == ~past /\ past' = TRUE /\ UNCHANGED <<client, m, fin>>

-----------------------------------------------------------------------------
(* Native operations settle. A chunk that is not the last one leaves the   *)
(* reader awaiting the next, which is no change.                           *)

\* The SDK calls its fetch, after its own preparation.
SdkFetches(i) ==
    /\ m.net[i].sdk /\ m.net[i].st = "idle" /\ ~m.net[i].failed
    /\ m' = StartTransport(m, i)
    /\ UNCHANGED <<client, past, fin>>

\* The fetch settles. A body that comes after a failure is cancelled.
FetchSettles(i, ok) ==
    /\ m.net[i].st = "fetch"
    /\ LET h == OpSettled(m, i)
       IN  m' = IF ~ok THEN EndRead([h EXCEPT !.net[i].failed = TRUE], i)
                ELSE IF h.net[i].failed THEN EndRead(AdmitCancel(h, i), i)
                ELSE IF h.pending < PendingCap
                     THEN Tracked([h EXCEPT !.net[i].st = "read"], i)
                     ELSE EndRead(AdmitCancel([h EXCEPT !.net[i].failed = TRUE], i), i)
    /\ UNCHANGED <<client, past, fin>>

\* The read settles: the last chunk, a chunk over the limit, or an error.
ReadSettles(i, ok) ==
    /\ m.net[i].st = "read"
    /\ LET h == OpSettled(m, i)
       IN  m' = IF ok \/ h.net[i].failed THEN EndRead(h, i)
                ELSE EndRead(AdmitCancel([h EXCEPT !.net[i].failed = TRUE], i), i)
    /\ UNCHANGED <<client, past, fin>>

CancelSettles(i) ==
    /\ m.net[i].cancel = "pending"
    /\ m' = OpSettled([m EXCEPT !.net[i].cancel = "settled"], i)
    /\ UNCHANGED <<client, past, fin>>

-----------------------------------------------------------------------------
(* The run's finalization. The guest's process and its RPC are outside.    *)

\* Promise reactions run before the next event: a caller that can resume, or
\* a client that can answer, does so before a reply of the guest is read.
Drained(h) ==
    \A i \in Ids : ~ClientReady(h, i) /\ (h.call[i] # None => h.call[i].pc # "answer")

\* finalize(), to its first await: cancel what is active and seal.
Finalize ==
    /\ fin = "run"
    /\ m' = Seal(IF m.active > 0 THEN Close(m, "cancelled") ELSE m)
    /\ fin' = "exit" /\ UNCHANGED <<client, past>>

\* nativeSettled()
NativeSettled(h) ==
    /\ Settled(h) /\ h.active = 0
    /\ \A i \in Ledger(h) : h.call[i].settle # "pending" /\ AttemptSettled(h, i)

\* The guest has exited: join at once, join later, or keep the permit because
\* some attempt was never observed.
GuestExits ==
    /\ fin = "exit" /\ Drained(m)
    /\ \/ /\ ~m.instrumented \/ \E i \in Ledger(m) : ~m.net[i].instrumented
          /\ fin' = "kept" /\ UNCHANGED m
       \/ /\ m.instrumented /\ \A i \in Ledger(m) : m.net[i].instrumented
          /\ IF Settled(m) THEN fin' = "release" /\ UNCHANGED m
             ELSE fin' = "join" /\ m' = [m EXCEPT !.waiting = TRUE]
    /\ UNCHANGED <<client, past>>

\* The waiter of join() is resolved.
JoinReturns ==
    fin = "join" /\ m.woken /\ fin' = "release" /\ UNCHANGED <<client, m, past>>

\* releaseAfterJoin()
ReleaseAfterJoin ==
    /\ fin = "release" /\ Drained(m)
    /\ fin' = IF NativeSettled(m) THEN "released" ELSE "kept"
    /\ UNCHANGED <<client, m, past>>

\* A reply of the guest's host fails or is never seen: the permit is kept.
GuestFails ==
    fin \in {"exit", "release"} /\ fin' = "broken" /\ UNCHANGED <<client, m, past>>

NativeStep(i) ==
    \/ \E ok \in BOOLEAN : FetchSettles(i, ok) \/ ReadSettles(i, ok)
    \/ CancelSettles(i)

Reaction(i) ==
    \/ \E use \in Usage, valid \in BOOLEAN : ProviderFulfils(i, use, valid)
    \/ ProviderRejects(i)
    \/ Continue(i)

Next ==
    \/ \E max \in 1..MaxOutputPerCall, bytes \in 1..MaxBytesPerCall : Admit(max, bytes)
    \/ \E i \in Ids : NativeStep(i) \/ Reaction(i) \/ SdkFetches(i)
    \/ Cancel \/ DeadlineCloses \/ ClockPasses
    \/ Finalize \/ GuestExits \/ JoinReturns \/ ReleaseAfterJoin \/ GuestFails

Spec == Init /\ [][Next]_vars

\* Reactions run, the clock and its timer run, the guest's host answers. The
\* network need never answer.
FairSpec ==
    /\ Spec
    /\ \A i \in Ids : WF_vars(Reaction(i)) /\ WF_vars(SdkFetches(i))
    /\ WF_vars(ClockPasses) /\ WF_vars(DeadlineCloses)
    /\ WF_vars(GuestExits) /\ WF_vars(JoinReturns) /\ WF_vars(ReleaseAfterJoin)

-----------------------------------------------------------------------------
(* Properties.                                                             *)

\* The native operations of an attempt that really are in flight.
InFlight(h, i) == (IF h.net[i].st \in {"fetch", "read"} THEN 1 ELSE 0)
                  + (IF h.net[i].cancel = "pending" THEN 1 ELSE 0)

\* The sum of f over the attempts.
Sums(f) == LET s[n \in 0..MaxAttempts] == IF n = 0 THEN 0 ELSE s[n - 1] + f[n] IN s

Total(f) == Sums(f)[MaxAttempts]

\* While the budget is open, what was observed and what concurrent calls may
\* still produce stay within the output limit, and what was observed of the
\* input within its own (Available, Receive).
WithinLimits ==
    m.closed = None => /\ m.obsOut + m.reserved <= MaxObservedOutput
                       /\ m.obsIn <= MaxObservedInput

\* The counters are those of the ledger: a reservation is given back exactly
\* for the attempts whose usage is known, however late it came, and an active
\* call is one whose provider has not settled.
BooksBalance ==
    LET booked(i) == /\ m.call[i] # None
                     /\ ~(m.call[i].settle = "fulfilled" /\ m.call[i].usage = "reported")
    IN  /\ m.reserved = Total([i \in Ids |-> IF booked(i) THEN m.call[i].want ELSE 0])
        /\ m.active = Cardinality({i \in Ledger(m) : m.call[i].settle = "pending"})

\* "Unknown usage/settlement seals the budget": once any attempt's usage is
\* unknown no further call is admitted.
UnknownSeals == (\E i \in Ledger(m) : m.call[i].usage = "unknown") => m.closed # None /\ m.sealed

\* A caller that resumed knows its outcome, and a successful one got a
\* response that was on time and fully accounted for.
OutcomesAreFinal ==
    \A i \in Ledger(m) : m.call[i].pc = "done" =>
        \/ m.call[i].outcome = "rejected"
        \/ /\ m.call[i].outcome = "succeeded" /\ m.call[i].settle = "fulfilled"
           /\ m.call[i].usage = "reported" /\ ~m.call[i].late

\* A late answer is never returned: a call succeeds only while the budget is
\* open, also when the abort came between the response and its caller.
NoLateSuccess ==
    [][\A i \in Ids : (m'.call[i] # None /\ m'.call[i].outcome = "succeeded")
                          => m.call[i].outcome = "succeeded" \/ m.closed = None]_vars

\* The scope and the attempt records count exactly the operations and the
\* producers that exist; no cleanup is ever refused.
ScopeCountsNative ==
    /\ m.pending = Total([i \in Ids |-> InFlight(m, i)])
    /\ \A i \in Ids : m.net[i].recOps = InFlight(m, i) /\ m.net[i].cancel # "refused"

\* The permit is given back only when nothing native is in flight, no call is
\* active and none can start any more.
ReleasedIsQuiet ==
    fin = "released" => /\ \A i \in Ids : InFlight(m, i) = 0
                        /\ m.active = 0 /\ m.sealed /\ m.transports = 0

\* With a guest that exits and a host that answers, the permit is kept only
\* when the run never made a model call.
KeptForCause == fin = "kept" => Ledger(m) = {}

\* The budget's books, well typed: limits hold while it is open, the counters are the
\* ledger's, unknown usage seals it, a caller's outcome is final, and the
\* scope counts exactly what is in flight.
BudgetSound ==
    /\ TypeOK /\ WithinLimits /\ BooksBalance /\ UnknownSeals /\ OutcomesAreFinal
    /\ ScopeCountsNative

\* The permit is given back when, and with a guest that exits only when,
\* nothing native is left.
ReleaseSound == ReleasedIsQuiet /\ KeptForCause

\* Every admitted call ends, also when the provider ignores the abort and the
\* network never answers.
CallEnds ==
    \A i \in Ids : (m.call[i] # None) ~> (m.call[i] # None /\ m.call[i].pc = "done")

\* If the native operations settle, a finalization that had to wait releases
\* the permit or loses its guest's host.
JoinReleases ==
    []<>(\A i \in Ids : InFlight(m, i) = 0) => (fin = "join" ~> fin \in {"released", "broken"})
=============================================================================
