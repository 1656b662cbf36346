--------------------------- MODULE EngineLifecycle ---------------------------
(***************************************************************************)
(* `habenula up` and `habenula down` (packages/cli/src/commands/up.ts,     *)
(* down.ts, engine/run-record.ts, config-file.ts, secrets.ts, probe.ts)    *)
(* and the daemon they start and stop (packages/engine/src/daemon/start.ts)*)
(* over one persist root: the run record, the config file and the store.   *)
(*                                                                         *)
(* Commands are OS processes. A step is one system call on a shared file,  *)
(* one probe, one signal or one spawn; a program counter in Awaits is a    *)
(* place where the command waits. A start up to its next wait is plain     *)
(* synchronous code: with scene.atomic no other command runs inside such a *)
(* stretch, without it the commands interleave call by call.               *)
(* Names stand for what identifies a thing: an up for its claim's          *)
(* startedAt, its daemon's pid, and the secrets it generates. No pid is    *)
(* reused, and a claim is 120 s old only when its claimant is gone. The    *)
(* environment carries no secrets of its own.                              *)
(***************************************************************************)
EXTENDS Integers, FiniteSets

CONSTANTS Ups, Downs,    \* the commands that are run
          MaxPort,       \* bound: the scan walks 1..MaxPort
          Interleaved,   \* bound: the origins from which commands are also
                         \* interleaved call by call
          Absent

ASSUME CommandsAssumption == Ups \cap Downs = {} /\ "old" \notin Ups
ASSUME MaxPortAssumption == MaxPort \in Nat \ {0}

VARIABLES
    scene,    \* how the history began, whether synchronous code is atomic, and
              \* the one trouble that may strike
    rec,      \* engine.json
    conf,     \* the config file
    store,    \* the keys credentials under <root>/do were written with
    dmn,      \* the daemons, by pid
    ext,      \* what others run on the ports
    up, down, \* the commands
    struck    \* whether the trouble struck

lifeVars == <<scene, rec, conf, store, dmn, ext, up, down, struck>>

Ports == 1..MaxPort
Pids == Ups \cup {"old"}

\* A run record; a torn one does not parse. `old` says its 120 s have passed.
RunRecord == [at: Pids, port: Ports, pid: Pids \cup {Absent}, torn: BOOLEAN, old: BOOLEAN]

Config == [key: Pids \cup {Absent}, tok: Pids \cup {Absent}, port: Ports \cup {Absent}]
NoConfig == [key |-> Absent, tok |-> Absent, port |-> Absent]

Daemon == [st: {"none", "boot", "serving", "silent", "stopping", "stranded", "dead"},
           port: Ports, key: Pids \cup {Absent}, tok: Pids \cup {Absent}]

Awaits == {"idle", "scan", "classify", "found", "lost", "wait", "other", "drive",
           "proof", "term", "refuse", "refuse2", "exit0", "exit1", "exit2", "killed"}
Ended == {"exit0", "exit1", "exit2", "killed"}

UpState == [pc: Awaits \cup {"resolve", "claim", "fill", "check", "unlink", "guards",
                             "create", "merge", "rename", "reread", "spawn", "pid",
                             "giveup", "served"},
            env: Ports \cup {Absent}, port: Ports \cup {Absent}, free: Ports \cup {Absent},
            i: Ports,
            file: Config \cup {Absent},      \* the config as last read
            text: Config \cup {Absent},      \* what mergeAbsentKeys read
            add: Config,                   \* what is being written to it
            back: {"reread", "exit0"},     \* where the write returns to
            lost: RunRecord \cup {Absent},      \* the record a failed claim read
            tries: 1..2, code: {"exit1", "retry"}]

DownState == [pc: Awaits \cup {"check", "unlink", "signal", "escalate"},
              lost: RunRecord \cup {Absent}, alive: BOOLEAN, done: BOOLEAN]

IdleUp == [pc |-> "idle", env |-> Absent, port |-> Absent, free |-> Absent, i |-> 1,
           file |-> Absent, text |-> Absent, add |-> NoConfig, back |-> "reread",
           lost |-> Absent, tries |-> 1, code |-> "exit1"]

IdleDown == [pc |-> "idle", lost |-> Absent, alive |-> FALSE, done |-> FALSE]

\* Absent stands for a missing file, pid, secret or port.
ASSUME AbsentAssumption ==
    Absent \notin Pids /\ Absent \notin Ports /\ Absent \notin RunRecord /\ Absent \notin Config

LifeTypeOK ==
    /\ rec \in RunRecord \cup {Absent}
    /\ conf \in Config \cup {Absent}
    /\ store \subseteq Pids \cup {Absent}
    /\ dmn \in [Pids -> Daemon]
    /\ ext \in [Ports -> {"none", "engine", "listener"}]
    /\ up \in [Ups -> UpState] /\ down \in [Downs -> DownState]
    /\ struck \in BOOLEAN

Origins == {"fresh", "edited", "stale", "serving"}
ASSUME InterleavedAssumption == Interleaved \subseteq Origins

Troubles == {"none", "kill", "strand", "runtime", "engine", "listener"}

\* Fresh: nothing on disk. Edited: the user wrote a config with other keys.
\* Stale: an earlier daemon died. Serving: it still runs.
OldRun == [at |-> "old", port |-> 1, pid |-> "old", torn |-> FALSE, old |-> FALSE]
NoDaemon == [st |-> "none", port |-> 1, key |-> Absent, tok |-> Absent]

LifeInit ==
    /\ scene \in [atomic: {TRUE}, from: Origins, trouble: Troubles]
                  \cup [atomic: {FALSE}, from: Interleaved, trouble: {"none"}]
    /\ LET ran == scene.from \in {"stale", "serving"}
       IN  /\ rec = IF ran THEN OldRun ELSE Absent
           /\ conf = CASE ran -> [key |-> "old", tok |-> "old", port |-> 1]
                       [] scene.from = "edited" -> NoConfig
                       [] OTHER -> Absent
           /\ store = IF ran THEN {"old"} ELSE {}
           /\ dmn = [p \in Pids |-> IF ran /\ p = "old"
                        THEN [NoDaemon EXCEPT !.key = "old", !.tok = "old", !.st =
                                IF scene.from = "stale" THEN "dead" ELSE "serving"]
                        ELSE NoDaemon]
    /\ ext = [p \in Ports |-> "none"]
    /\ up = [u \in Ups |-> IdleUp] /\ down = [d \in Downs |-> IdleDown]
    /\ struck = FALSE

-----------------------------------------------------------------------------
(* Ports and processes.                                                    *)

HoldersOf(p) == {d \in Pids : dmn[d].port = p /\ dmn[d].st \in {"serving", "stopping", "stranded"}}

EngineAt(p) == HoldersOf(p) # {} \/ ext[p] = "engine"

Free(p) == HoldersOf(p) = {} /\ ext[p] = "none"

\* classifyPort: an engine that does not answer in time reads as a listener,
\* and only a refused connection as refused.
Classified(p, cls) ==
    CASE cls = "engine" -> EngineAt(p)
      [] cls = "listener" -> ~Free(p)
      [] cls = "refused" -> Free(p)

\* kill(pid, 0)
pidIsOurs(pid) == dmn[pid].st \in {"boot", "serving", "silent", "stopping"}

\* driveTokenAccepted: our own daemon compares its token, a foreign engine's
\* answer is open.
Accepts(p, file, yes) ==
    IF ext[p] = "engine" THEN yes \in BOOLEAN
    ELSE \E d \in HoldersOf(p) : yes = (file # Absent /\ dmn[d].tok = file.tok)

-----------------------------------------------------------------------------
(* Steps of commands.                                                      *)

\* No other command runs inside a command's synchronous stretch.
Undisturbed(c) ==
    scene.atomic => /\ \A u \in Ups \ {c} : up[u].pc \in Awaits
                    /\ \A d \in Downs \ {c} : down[d].pc \in Awaits

At(u, pc) == up[u].pc = pc /\ Undisturbed(u)

\* What a command that has ended had in memory is gone.
Go(u, pc) == up' = [up EXCEPT ![u] = IF pc \in Ended THEN [IdleUp EXCEPT !.pc = pc]
                                     ELSE [@ EXCEPT !.pc = pc]]

Strikes(trouble) == scene.trouble = trouble /\ ~struck /\ struck' = TRUE

OnlyUp == UNCHANGED <<scene, rec, conf, store, dmn, ext, down, struck>>

UpNoRec == UNCHANGED <<scene, conf, store, dmn, ext, down, struck>>

\* runUp: the config file is read once, before the port is resolved.
StartUp(u, env) ==
    /\ At(u, "idle")
    /\ up' = [up EXCEPT ![u] = [IdleUp EXCEPT !.pc = "resolve", !.env = env, !.file = conf]]
    /\ OnlyUp

\* resolvePort: the environment, else the recorded port, else the scan, which
\* is refused when there is a store; or an exported URL names another engine.
ResolvePort(u) ==
    /\ At(u, "resolve")
    /\ LET s == up[u]
           port == IF s.env # Absent THEN s.env
                   ELSE IF s.file # Absent THEN s.file.port ELSE Absent
       IN  \/ Go(u, "exit1")
           \/ port # Absent /\ up' = [up EXCEPT ![u].pc = "classify", ![u].port = port]
           \/ /\ port = Absent
              /\ Go(u, IF store # {} THEN "exit1" ELSE "scan")
    /\ OnlyUp

\* One candidate of the scan: an engine ends it, else the first free port of
\* the whole range is taken.
ScanPort(u, cls) ==
    /\ At(u, "scan") /\ Classified(up[u].i, cls)
    /\ LET s == up[u]
           free == IF cls = "refused" /\ s.free = Absent THEN s.i ELSE s.free
           chose(p) == [s EXCEPT !.pc = "classify", !.port = p, !.free = Absent, !.i = 1]
       IN  CASE cls = "engine" -> up' = [up EXCEPT ![u] = chose(s.i)]
             [] cls # "engine" /\ s.i < MaxPort ->
                  up' = [up EXCEPT ![u].i = @ + 1, ![u].free = free]
             [] cls # "engine" /\ s.i = MaxPort /\ free # Absent ->
                  up' = [up EXCEPT ![u] = chose(free)]
             [] OTHER -> Go(u, "exit1")
    /\ OnlyUp

\* What is on the port decides: report it, refuse, or go on to the claim.
ClassifyPort(u, cls) ==
    /\ At(u, "classify") /\ Classified(up[u].port, cls)
    /\ Go(u, CASE cls = "engine" -> "found" [] cls = "listener" -> "exit1"
               [] OTHER -> "claim")
    /\ OnlyUp

\* claimRunSlot: the exclusive create, and the write of the new file. A loser
\* reads what it collided with.
ClaimRunSlot(u) ==
    /\ At(u, "claim")
    /\ \/ /\ rec = Absent
          /\ rec' = [at |-> u, port |-> up[u].port, pid |-> Absent, torn |-> TRUE, old |-> FALSE]
          /\ Go(u, "fill")
       \/ /\ rec # Absent
          /\ up' = [up EXCEPT ![u].pc = "lost", ![u].lost = rec]
          /\ UNCHANGED rec
    /\ UpNoRec

FillClaim(u) ==
    /\ At(u, "fill")
    /\ rec' = IF rec # Absent /\ rec.at = u THEN [rec EXCEPT !.torn = FALSE] ELSE rec
    /\ Go(u, "guards")
    /\ UpNoRec

\* loseClaim: a live pid is reported or waited on, a young claim waited on,
\* anything else is stale.
LoseClaim(u, cls) ==
    /\ At(u, "lost")
    /\ LET r == up[u].lost
       IN  \/ /\ ~r.torn /\ r.pid # Absent /\ pidIsOurs(r.pid) /\ Classified(r.port, cls)
              /\ up' = [up EXCEPT ![u].pc = IF cls = "engine" THEN "found" ELSE "other",
                                  ![u].port = r.port]
           \/ /\ ~r.torn /\ r.pid = Absent /\ ~r.old
              /\ up' = [up EXCEPT ![u].pc = "other", ![u].port = r.port]
           \/ /\ \/ r.torn
                 \/ r.pid # Absent /\ ~pidIsOurs(r.pid)
                 \/ r.pid = Absent /\ r.old
              /\ up' = [up EXCEPT ![u].pc = "check", ![u].code = "retry"]
    /\ OnlyUp

\* Wrong: the record is not compared with the one that was read.
UnchangedAny(lost) == rec # Absent

\* removeRunRecordIfUnchanged and removeUnparseableRunRecord, the read: the
\* same claim, or still a file that does not parse.
Unchanged(lost) ==
    rec # Absent /\ IF lost.torn THEN rec.torn ELSE ~rec.torn /\ rec.at = lost.at

\* After the removal: the caller's exit, or one more attempt to claim.
AfterRemoval(u) ==
    IF up[u].code = "exit1" \/ up[u].tries = 2 THEN Go(u, "exit1")
    ELSE up' = [up EXCEPT ![u].pc = "claim", ![u].tries = 2, ![u].code = "exit1",
                          ![u].lost = Absent]

CheckRecord(u) ==
    /\ At(u, "check")
    /\ IF Unchanged(up[u].lost) THEN Go(u, "unlink") ELSE AfterRemoval(u)
    /\ OnlyUp

UnlinkRecord(u) ==
    /\ At(u, "unlink")
    /\ rec' = Absent
    /\ AfterRemoval(u)
    /\ UpNoRec

\* A refusal after the claim: the run's own record is removed the same way.
GiveUp(u) ==
    /\ At(u, "giveup")
    /\ up' = [up EXCEPT ![u].pc = "check", ![u].code = "exit1",
                ![u].lost = [at |-> u, port |-> up[u].port, pid |-> Absent,
                             torn |-> FALSE, old |-> FALSE]]
    /\ OnlyUp

-----------------------------------------------------------------------------
(* Secrets and the config file.                                            *)

\* resolveEngineCommand and checkGenerationGuards. A missing key is generated
\* unless a store exists; a refused command or a key in ./.env refuses too.
\* The guards look at the config as read when the command began.
CheckGuards(u) ==
    /\ At(u, "guards")
    /\ LET f == IF up[u].file = Absent THEN NoConfig ELSE up[u].file
           add == [NoConfig EXCEPT !.key = IF f.key = Absent THEN u ELSE Absent,
                                   !.tok = IF f.tok = Absent THEN u ELSE Absent]
       IN  \/ Go(u, "giveup")
           \/ /\ f.key = Absent => store = {}
              /\ up' = [up EXCEPT ![u].pc = IF add = NoConfig THEN "spawn" ELSE "create",
                                  ![u].add = add, ![u].back = "reread"]
    /\ OnlyUp

\* createConfigFile: the exclusive create.
CreateConfig(u) ==
    /\ At(u, "create")
    /\ IF conf = Absent THEN conf' = up[u].add /\ Go(u, up[u].back)
       ELSE UNCHANGED conf /\ Go(u, "merge")
    /\ UNCHANGED <<scene, rec, store, dmn, ext, down, struck>>

\* The keys of add the file does not hold yet, on top of what it holds.
WithAbsent(f, add) == [k \in DOMAIN f |-> IF f[k] = Absent THEN add[k] ELSE f[k]]

\* mergeAbsentKeys, the read: nothing to add, or the text to write is made.
MergeRead(u) ==
    /\ At(u, "merge")
    /\ LET text == WithAbsent(conf, up[u].add)
       IN  up' = [up EXCEPT ![u].pc = IF text = conf THEN up[u].back ELSE "rename",
                            ![u].text = text]
    /\ OnlyUp

\* The rename over the file.
MergeRename(u) ==
    /\ At(u, "rename")
    /\ conf' = up[u].text
    /\ Go(u, up[u].back)
    /\ UNCHANGED <<scene, rec, store, dmn, ext, down, struck>>

\* The config is read again, and the secrets must be there.
ReadBack(u) ==
    /\ At(u, "reread")
    /\ up' = [up EXCEPT ![u].file = conf,
                ![u].pc = IF conf.key # Absent /\ conf.tok # Absent THEN "spawn" ELSE "giveup"]
    /\ OnlyUp

-----------------------------------------------------------------------------
(* The daemon and the wait for it.                                         *)

\* The child gets the resolved secrets and the port; or the spawn throws.
SpawnEngine(u) ==
    /\ At(u, "spawn")
    /\ \/ Go(u, "giveup") /\ UNCHANGED dmn
       \/ /\ dmn' = [dmn EXCEPT ![u] = [st |-> "boot", port |-> up[u].port,
                                        key |-> up[u].file.key, tok |-> up[u].file.tok]]
          /\ up' = [up EXCEPT ![u].pc = "pid", ![u].file = Absent, ![u].add = NoConfig,
                              ![u].text = Absent]
    /\ UNCHANGED <<scene, rec, conf, store, ext, down, struck>>

\* writeRunRecord: whatever is there is replaced.
WriteRecord(u) ==
    rec' = [at |-> u, port |-> up[u].port, pid |-> u, torn |-> FALSE, old |-> FALSE]

WritePid(u) == At(u, "pid") /\ WriteRecord(u) /\ Go(u, "wait") /\ UpNoRec

\* Wrong: a run that gives up waiting removes its record, though the child lives.
WaitForReadyForgets(u) ==
    /\ At(u, "wait")
    /\ \/ dmn[u].st = "dead" /\ Go(u, "giveup")
       \/ dmn[u].st # "dead" /\ EngineAt(up[u].port) /\ Go(u, "served")
       \/ dmn[u].st # "dead" /\ Go(u, "giveup")
    /\ OnlyUp

\* waitForReady: the child's exit, an engine on the port, or the bound.
WaitForReady(u) ==
    /\ At(u, "wait")
    /\ \/ dmn[u].st = "dead" /\ Go(u, "giveup")
       \/ dmn[u].st # "dead" /\ EngineAt(up[u].port) /\ Go(u, "served")
       \/ dmn[u].st # "dead" /\ Go(u, "exit2")
    /\ OnlyUp

\* recordEstablished: the port is a fact now. The served record is written
\* first.
EngineServed(u) ==
    /\ At(u, "served")
    /\ WriteRecord(u)
    /\ up' = [up EXCEPT ![u].pc = IF conf = Absent THEN "create" ELSE "merge",
                ![u].add = [NoConfig EXCEPT !.port = up[u].port], ![u].back = "exit0"]
    /\ UpNoRec

\* waitOnOtherRun: the engine answers, or the widest bound passes.
WaitOnOtherRun(u) ==
    /\ At(u, "other")
    /\ \/ EngineAt(up[u].port) /\ Go(u, "found")
       \/ Go(u, "exit2")
    /\ OnlyUp

\* reportFoundEngine: config and record are read again, the drive token is
\* tried; a foreign engine that takes it has its port recorded.
FoundEngine(u, yes) ==
    /\ At(u, "found")
    /\ \/ /\ EngineAt(up[u].port) /\ Accepts(up[u].port, conf, yes)
          /\ LET owned == /\ rec # Absent /\ ~rec.torn /\ rec.port = up[u].port
                          /\ rec.pid # Absent /\ pidIsOurs(rec.pid)
             IN  IF yes /\ ~owned
                 THEN up' = [up EXCEPT ![u].pc = IF conf = Absent THEN "create" ELSE "merge",
                                ![u].add = [NoConfig EXCEPT !.port = up[u].port],
                                ![u].back = "exit0"]
                 ELSE Go(u, IF yes THEN "exit0" ELSE "exit1")
       \/ ~yes /\ Go(u, "exit1")          \* it stopped answering meanwhile
    /\ OnlyUp

\* An up is killed at any point.
UpKilled(u) ==
    /\ up[u].pc \notin Ended \cup {"idle"} /\ Strikes("kill")
    /\ Go(u, "killed")
    /\ UNCHANGED <<scene, rec, conf, store, dmn, ext, down>>

-----------------------------------------------------------------------------
(* down.                                                                   *)

DownAt(d, pc) == down[d].pc = pc /\ Undisturbed(d)

DownGo(d, pc) ==
    down' = [down EXCEPT ![d] = IF pc \in Ended /\ ~@.done THEN [IdleDown EXCEPT !.pc = pc]
                                ELSE [@ EXCEPT !.pc = pc]]

OnlyDown == UNCHANGED <<scene, rec, conf, store, dmn, ext, up, struck>>

\* proveOwnership up to its probe: the record and the pid are read.
StartDown(d) ==
    /\ DownAt(d, "idle")
    /\ LET s(pc, alive) == [IdleDown EXCEPT !.pc = pc, !.lost = rec, !.alive = alive]
       IN  down' = [down EXCEPT ![d] =
            CASE rec = Absent -> [IdleDown EXCEPT !.pc = "exit0"]
              [] rec # Absent /\ rec.torn -> s("check", FALSE)
              [] rec # Absent /\ ~rec.torn /\ rec.pid = Absent ->
                   s(IF rec.old THEN "check" ELSE "exit1", FALSE)
              [] OTHER -> s("proof", pidIsOurs(rec.pid))]
    /\ OnlyDown

\* The proof: ours, alive but silent, foreign, or stale.
ProveOwnership(d, cls) ==
    /\ DownAt(d, "proof") /\ Classified(down[d].lost.port, cls)
    /\ DownGo(d, CASE down[d].alive /\ cls = "engine" -> "signal"
                   [] ~down[d].alive /\ cls # "engine" -> "check"
                   [] OTHER -> "exit1")
    /\ OnlyDown

\* SIGTERM: Miniflare's exit hook kills workerd and exits. It may hang.
Signal(d) ==
    /\ DownAt(d, "signal")
    /\ dmn' = [dmn EXCEPT ![down[d].lost.pid].st =
                 CASE @ = "serving" -> "stopping"
                   [] @ \in {"boot", "silent"} -> "dead"
                   [] OTHER -> @]
    /\ DownGo(d, "refuse")
    /\ UNCHANGED <<scene, rec, conf, store, ext, up, struck>>

\* waitForPortToRefuse, before and after the escalation.
WaitForPortToRefuse(d) ==
    /\ down[d].pc \in {"refuse", "refuse2"} /\ Undisturbed(d)
    /\ \/ /\ Free(down[d].lost.port)
          /\ down' = [down EXCEPT ![d].pc = "check", ![d].done = TRUE]
       \/ ~Free(down[d].lost.port)
          /\ DownGo(d, IF down[d].pc = "refuse" THEN "escalate" ELSE "exit1")
    /\ OnlyDown

\* SIGKILL to the process group.
Escalate(d) ==
    /\ DownAt(d, "escalate")
    /\ dmn' = [dmn EXCEPT ![down[d].lost.pid].st = IF @ = "none" THEN @ ELSE "dead"]
    /\ DownGo(d, "refuse2")
    /\ UNCHANGED <<scene, rec, conf, store, ext, up, struck>>

DownChecks(d) ==
    /\ DownAt(d, "check")
    /\ DownGo(d, IF Unchanged(down[d].lost) THEN "unlink" ELSE "exit0")
    /\ OnlyDown

DownUnlinks(d) ==
    /\ DownAt(d, "unlink")
    /\ rec' = Absent /\ DownGo(d, "exit0")
    /\ UNCHANGED <<scene, conf, store, dmn, ext, up, struck>>

-----------------------------------------------------------------------------
(* The daemons and everybody else.                                         *)

OnlyDaemons == UNCHANGED <<scene, rec, conf, ext, up, down>>

\* startDaemon: bind and serve, or exit 1 (the port is taken, the key is
\* refused, the runtime fails).
DaemonBoots(d) ==
    /\ dmn[d].st = "boot"
    /\ \/ /\ Free(dmn[d].port)
          /\ dmn' = [dmn EXCEPT ![d].st = "serving"]
          /\ store' = store \cup {dmn[d].key}
       \/ dmn' = [dmn EXCEPT ![d].st = "dead"] /\ UNCHANGED store
    /\ UNCHANGED struck /\ OnlyDaemons

\* workerd dies; superviseRuntime sees three failed probes and exits 70.
RuntimeDies(d) ==
    /\ dmn[d].st = "serving" /\ Strikes("runtime")
    /\ dmn' = [dmn EXCEPT ![d].st = "silent"]
    /\ UNCHANGED store /\ OnlyDaemons

DaemonExits(d) ==
    /\ dmn[d].st \in {"silent", "stopping"}
    /\ dmn' = [dmn EXCEPT ![d].st = "dead"]
    /\ UNCHANGED <<store, struck>> /\ OnlyDaemons

\* The supervisor is killed alone and leaves workerd on the socket.
SupervisorDies(d) ==
    /\ dmn[d].st = "serving" /\ Strikes("strand")
    /\ dmn' = [dmn EXCEPT ![d].st = "stranded"]
    /\ UNCHANGED store /\ OnlyDaemons

\* Somebody else's engine or program takes a free port.
OthersListen(p, what) ==
    /\ Free(p) /\ Strikes(what)
    /\ ext' = [ext EXCEPT ![p] = what]
    /\ UNCHANGED <<scene, rec, conf, store, dmn, up, down>>

\* 120 s pass over a claim whose run is gone.
ClaimAges ==
    /\ rec # Absent /\ rec.pid = Absent /\ ~rec.old
    /\ rec.at \in Ups /\ up[rec.at].pc \in Ended
    /\ rec' = [rec EXCEPT !.old = TRUE]
    /\ UNCHANGED <<scene, conf, store, dmn, ext, up, down, struck>>

-----------------------------------------------------------------------------
Classes == {"engine", "listener", "refused"}

UpStep(u) ==
    \/ ResolvePort(u)
    \/ \E cls \in Classes : ScanPort(u, cls) \/ ClassifyPort(u, cls) \/ LoseClaim(u, cls)
    \/ ClaimRunSlot(u) \/ FillClaim(u) \/ CheckRecord(u) \/ UnlinkRecord(u) \/ GiveUp(u)
    \/ CheckGuards(u) \/ CreateConfig(u) \/ MergeRead(u) \/ MergeRename(u) \/ ReadBack(u)
    \/ SpawnEngine(u) \/ WritePid(u) \/ WaitForReady(u) \/ EngineServed(u)
    \/ WaitOnOtherRun(u)
    \/ \E yes \in BOOLEAN : FoundEngine(u, yes)

DownStep(d) ==
    \/ \E cls \in Classes : ProveOwnership(d, cls)
    \/ Signal(d) \/ WaitForPortToRefuse(d) \/ Escalate(d) \/ DownChecks(d) \/ DownUnlinks(d)

LifeNext ==
    \/ \E u \in Ups : \/ \E env \in Ports \cup {Absent} : StartUp(u, env)
                      \/ UpStep(u) \/ UpKilled(u)
    \/ \E d \in Downs : StartDown(d) \/ DownStep(d)
    \/ \E d \in Pids : DaemonBoots(d) \/ RuntimeDies(d) \/ DaemonExits(d) \/ SupervisorDies(d)
    \/ \E p \in Ports, what \in {"engine", "listener"} : OthersListen(p, what)
    \/ ClaimAges

LifeSpec == LifeInit /\ [][LifeNext]_lifeVars

-----------------------------------------------------------------------------
(* Properties.                                                             *)

Running == {d \in Pids : dmn[d].st \in {"boot", "serving", "silent", "stopping", "stranded"}}

\* Commands interleave at their waits only, nobody is killed.
Undisrupted == scene.atomic /\ ~(struck /\ scene.trouble \in {"kill", "strand"})

\* At most one daemon runs over the persist root, whichever ports two ups
\* resolve, while commands only interleave at their waits and nobody is
\* killed (claimRunSlot: the exclusive create "keeps two up runs seconds apart
\* from landing two daemons on one persist root").
OneDaemon == Undisrupted => Cardinality(Running) <= 1

\* A store is written under one key, and the config file still has it: a
\* second key is never generated over a store and the first is never lost,
\* kills included. On a fresh root the exclusive create protects it even when
\* two runs hold the slot.
StoreKey ==
    scene.atomic \/ scene.from # "edited" =>
        store = {} \/ (conf # Absent /\ store = {conf.key})

\* One engine per root, over one key.
OneEngine == LifeTypeOK /\ OneDaemon /\ StoreKey

\* When no command is running, a daemon this CLI started and that serves is
\* named by the run record, so down can stop it.
Stoppable ==
    (/\ Undisrupted
     /\ \A u \in Ups : up[u].pc \in Ended \cup {"idle"}
     /\ \A d \in Downs : down[d].pc \in Ended \cup {"idle"})
        => \A d \in Running : rec # Absent /\ rec.pid = d

\* down reports "Engine stopped" only of an engine that is gone.
StoppedIsGone ==
    \A d \in Downs : down[d].done => down[d].lost.pid \notin Running

\* What `up` left behind `down` can stop, and what it calls stopped is gone.
DownWorks == Stoppable /\ StoppedIsGone
=============================================================================
