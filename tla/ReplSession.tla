---------------------------- MODULE ReplSession ----------------------------
(***************************************************************************)
(* The interactive CLI session: the read loop of `habenula chat`, the      *)
(* background poll that surfaces parked calls, the confirmation prompt     *)
(* either of them may draw, the raw-mode line editor all of them share,    *)
(* and the tracker that takes the session offline and back.                *)
(*                                                                         *)
(* Everything runs on one JavaScript thread: a step below is what happens  *)
(* between two awaits, so a settled read, the unwinding of the prompt that *)
(* made it and the next idle read are one step.  Between the steps, keys,  *)
(* answers of the engine and timers interleave freely.                     *)
(***************************************************************************)
EXTENDS Integers, FiniteSets

CONSTANTS
    Holds,          \* ids of calls the engine may park
    CooldownTicks,  \* RENDER_FAILURE_COOLDOWN_TICKS
    MaxFaults,      \* bound: requests that fail
    NoHold          \* no held call

ASSUME ReplAssumption ==
    /\ NoHold \notin Holds
    /\ CooldownTicks \in Nat \ {0}
    /\ MaxFaults \in Nat

VARIABLES
    rpLoop,    \* where runChatRepl is, and the hold its turn is about
    rpPoll,    \* where startPoll is
    rpPrompt,  \* the renderPrompt each of the two may be inside
    rpLatch,   \* PromptLatch.activeId
    rpChoice,  \* whose choice read is outstanding (choiceWaiter)
    rpEd,      \* RawLineEditor
    rpShut,    \* ReplController.closed
    rpTrack,   \* EngineState: online, and where its probe loop is
    rpCool,    \* startPoll's cooldown map
    rpHeld,    \* the engine's held calls, as getStatus would list them
    rpFaults   \* requests that have failed

rpVars == <<rpLoop, rpPoll, rpPrompt, rpLatch, rpChoice, rpEd, rpShut, rpTrack,
            rpCool, rpHeld, rpFaults>>

Owners   == {"loop", "poll"}
NoOwner  == "nobody"
Kinds    == {"plain", "spend"}
Errors   == {"reject", "deadline", "other"}
NoPrompt == [at |-> "none", hold |-> NoHold, kind |-> "plain", pick |-> "deny"]

ReplTypeOK ==
    /\ rpLoop \in [at   : {"boot", "idle", "chat", "status", "prompt", "meta",
                           "connect", "kill", "killwait", "quit", "closing", "done"},
                   hold : Holds \cup {NoHold}, abort : BOOLEAN]
    /\ rpPoll \in {"off", "sleep", "status", "prompt", "done"}
    /\ rpPrompt \in [Owners -> [at   : {"none", "choice", "presence", "resolve",
                                        "recheck", "cascade"},
                                hold : Holds \cup {NoHold}, kind : Kinds,
                                pick : {"deny", "more", "grant"}]]
    /\ rpLatch \in Holds \cup {NoHold}
    /\ rpChoice \in Owners \cup {NoOwner}
    /\ rpEd \in [reading : BOOLEAN, chooser : BOOLEAN,
                 buf : {"", "text", "menu"}, prompt : {"idle", "choice"},
                 stash : {"none", "", "text"}]
    /\ rpShut \in BOOLEAN
    /\ rpTrack \in [online : BOOLEAN, probe : {"none", "sleep", "health", "handshake"}]
    /\ rpCool \in [Holds -> 0 .. CooldownTicks]
    /\ rpHeld \in [Holds -> Kinds \cup {"none", "gone"}]
    /\ rpFaults \in 0 .. MaxFaults

(***************************************************************************)
(* The loop's `active` flag, its outstanding idle read (idleWaiter), and   *)
(* dispatch.inFlight, which the loop's place determines.                   *)
(***************************************************************************)
Active   == rpLoop.at \notin {"closing", "done"}
IdleRead == rpLoop.at = "idle"
InFlight == rpLoop.at \in {"chat", "status", "prompt", "meta", "connect", "kill", "killwait"}
AtLoop(p, h) == [at |-> p, hold |-> h, abort |-> FALSE]

(***************************************************************************)
(* The editor.  A chooser blanks the line; a submission ends both.         *)
(* eraseInputLine sets a half-typed line aside for the poll's prompt and   *)
(* restoreInput puts it back.  showPrompt leaves the editing state alone.  *)
(***************************************************************************)
ShowIdle(e)  == [e EXCEPT !.reading = TRUE, !.prompt = "idle"]
Chooser(e)   == [e EXCEPT !.reading = TRUE, !.prompt = "choice", !.chooser = TRUE, !.buf = ""]
Submitted(e) == [e EXCEPT !.reading = FALSE, !.chooser = FALSE, !.buf = ""]
Erased(e)    == [e EXCEPT !.stash = IF e.buf = "" THEN "" ELSE "text",
                          !.chooser = FALSE, !.buf = ""]
RestingPrompt(e) == [e EXCEPT !.prompt = "idle"]
RestoreInput(e) ==
    IF e.stash = "none"
    THEN [e EXCEPT !.reading = TRUE]
    ELSE [e EXCEPT !.reading = TRUE, !.chooser = FALSE, !.buf = e.stash, !.stash = "none"]

(***************************************************************************)
(* EngineState.noteFailure: an availability failure takes an online        *)
(* session offline and starts the probe loop, but a deadline the           *)
(* background poll met does not flap it.  "ok" and "other" are not         *)
(* availability failures.                                                  *)
(***************************************************************************)
\* Wrong: going offline does not start the probe.
OfflineUnprobed(t) == [t EXCEPT !.online = FALSE]
Offline(t) == [online |-> FALSE, probe |-> IF t.probe = "none" THEN "sleep" ELSE t.probe]
NoteFailure(err, source) ==
    IF ~rpTrack.online \/ err \notin {"reject", "deadline"}
                       \/ (err = "deadline" /\ source = "background")
    THEN rpTrack
    ELSE Offline(rpTrack)

(***************************************************************************)
(* PromptLatch: taken only when free, even for the same hold; freed only   *)
(* by the hold it was taken for.                                           *)
(***************************************************************************)
\* Wrong: the path that raises a hold again is let in.
LatchFreeForSame(h) == rpLatch \in {NoHold, h}
LatchFree(h) == rpLatch = NoHold
Released(h) == IF rpLatch = h THEN NoHold ELSE rpLatch

(***************************************************************************)
(* Failing requests.  Each uses up one of the MaxFaults.                   *)
(***************************************************************************)
Fails(err) == rpFaults < MaxFaults /\ err \in Errors /\ rpFaults' = rpFaults + 1
Answers    == UNCHANGED rpFaults

(***************************************************************************)
(* Closing the input (EOF, Ctrl-C at rest, or the loop's own exit) rejects *)
(* both outstanding reads: the idle read ends the loop, a choice read ends *)
(* the prompt that made it, and the poll's prompt gives the latch back.    *)
(***************************************************************************)
\* Wrong: only the idle read is rejected; an open confirmation is left waiting.
OnCloseIdleOnly(lp) ==
    /\ rpShut' = TRUE
    /\ rpLoop' = lp
    /\ UNCHANGED <<rpChoice, rpPrompt, rpLatch, rpPoll, rpEd, rpCool>>

OnClose(lp) ==
    /\ rpShut' = TRUE
    /\ rpChoice' = NoOwner
    /\ rpLoop' = IF rpChoice = "loop" THEN AtLoop("closing", NoHold) ELSE lp
    /\ rpPrompt' = [o \in Owners |-> IF o = rpChoice THEN NoPrompt ELSE rpPrompt[o]]
    /\ rpLatch' = IF rpChoice = NoOwner THEN rpLatch ELSE NoHold
    /\ rpPoll' = IF rpChoice = "poll" THEN "sleep" ELSE rpPoll
    /\ rpEd' = IF rpChoice = "poll" THEN RestoreInput(RestingPrompt(rpEd)) ELSE rpEd
    /\ UNCHANGED rpCool

(***************************************************************************)
(* The loop's next iteration: an idle read, or the exit when the input is  *)
(* closed.  Every dispatch ends here, with the error it met.               *)
(***************************************************************************)
LoopBack(err) ==
    /\ rpLoop' = AtLoop(IF rpShut THEN "closing" ELSE "idle", NoHold)
    /\ rpEd' = IF rpShut THEN rpEd ELSE ShowIdle(rpEd)
    /\ rpTrack' = NoteFailure(err, "foreground")

LoopEnds == OnClose(AtLoop("closing", NoHold))

(***************************************************************************)
(* renderPrompt returns, or throws err, to the path that called it.        *)
(***************************************************************************)
PromptEnds(o, err) ==
    /\ rpPrompt' = [rpPrompt EXCEPT ![o] = NoPrompt]
    /\ rpChoice' = IF rpChoice = o THEN NoOwner ELSE rpChoice
    /\ UNCHANGED rpShut
    /\ \/ /\ o = "loop"
          /\ LoopBack(err)
          /\ rpLatch' = Released(rpLoop.hold)
          /\ UNCHANGED <<rpPoll, rpCool>>
       \/ /\ o = "poll"
          /\ rpPoll' = "sleep"
          /\ rpEd' = RestoreInput(RestingPrompt(rpEd))
          /\ rpLatch' = NoHold
          /\ rpCool' = IF err = "ok" \/ rpLatch = NoHold THEN rpCool
                       ELSE [rpCool EXCEPT ![rpLatch] = CooldownTicks]
          /\ rpTrack' = NoteFailure(err, "background")
          /\ UNCHANGED rpLoop

(***************************************************************************)
(* Drawing hold h and reading the choice.  A closed input rejects the read *)
(* at once and the prompt returns.                                         *)
(***************************************************************************)
ReadChoice(o, h, kind, ed) ==
    \/ /\ ~rpShut
       /\ rpPrompt' = [rpPrompt EXCEPT ![o] = [NoPrompt EXCEPT !.at = "choice", !.hold = h,
                                                               !.kind = kind]]
       /\ rpChoice' = o
       /\ rpEd' = Chooser(ed)
       /\ UNCHANGED <<rpLoop, rpPoll, rpLatch, rpShut, rpTrack, rpCool>>
    \/ rpShut /\ PromptEnds(o, "ok")

-----------------------------------------------------------------------------
(***************************************************************************)
(* Keys.  While nothing is being read only Ctrl-C is heard.                *)
(***************************************************************************)
Listening == ~rpShut /\ rpEd.reading
TypeText ==
    /\ Listening /\ ~rpEd.chooser
    /\ \E b \in {"", "text", "menu"} : b # rpEd.buf /\ rpEd' = [rpEd EXCEPT !.buf = b]
    /\ UNCHANGED <<rpLoop, rpPoll, rpPrompt, rpLatch, rpChoice, rpShut, rpTrack, rpCool,
                   rpHeld, rpFaults>>

(***************************************************************************)
(* A picked answer reaches renderPrompt: a grant goes through the presence *)
(* gate first, the others straight to the engine.                          *)
(***************************************************************************)
Picked(o, pick) ==
    /\ rpPrompt' = [rpPrompt EXCEPT ![o].at = IF pick = "grant" THEN "presence" ELSE "resolve",
                                    ![o].pick = pick]
    /\ rpChoice' = NoOwner
    /\ rpEd' = Submitted(rpEd)
    /\ UNCHANGED <<rpLoop, rpPoll, rpLatch, rpShut, rpTrack, rpCool>>

(***************************************************************************)
(* A line reaches the idle read.  Offline, only help, a usage error and    *)
(* kill are let through; those that answer without a request end at once.  *)
(***************************************************************************)
LineKinds == {"blank", "help", "exit", "quit", "chat", "meta", "connect", "kill"}
Dispatches(kind) ==
    CASE kind \in {"blank", "help"}           -> "idle"
      [] kind = "kill"                        -> "kill"
      [] kind = "exit"                        -> "closing"
      [] kind = "quit" /\ ~rpTrack.online     -> "closing"
      [] ~rpTrack.online                      -> "idle"
      [] OTHER                                -> kind

IdleLine(kind) ==
    LET to == Dispatches(kind) IN
    \/ /\ to = "closing"
       /\ LoopEnds
       /\ UNCHANGED rpTrack
    \/ /\ to = "idle"
       /\ rpEd' = ShowIdle(Submitted(rpEd))
       /\ UNCHANGED <<rpLoop, rpPoll, rpPrompt, rpLatch, rpChoice, rpShut, rpTrack, rpCool>>
    \/ /\ to \notin {"closing", "idle"}
       /\ rpLoop' = AtLoop(to, NoHold)
       /\ rpEd' = Submitted(rpEd)
       /\ UNCHANGED <<rpPoll, rpPrompt, rpLatch, rpChoice, rpShut, rpTrack, rpCool>>

(***************************************************************************)
(* Enter.  ReplController.route: an outstanding choice read gets the line, *)
(* else the idle read, else it is dropped.  A chooser submits its token;   *)
(* to the idle read a token is one more chat message.                      *)
(***************************************************************************)
Enter ==
    /\ Listening
    /\ \/ /\ rpChoice # NoOwner /\ rpEd.chooser
          /\ \E pick \in {"deny", "more", "grant"} : Picked(rpChoice, pick)
       \/ /\ rpChoice = NoOwner /\ IdleRead
          /\ \E kind \in LineKinds :
                /\ rpEd.chooser => kind = "chat"
                /\ (rpEd.buf = "" /\ ~rpEd.chooser) <=> kind = "blank"
                /\ IdleLine(kind)
       \/ /\ rpChoice = NoOwner /\ ~IdleRead
          /\ rpEd' = Submitted(rpEd)
          /\ UNCHANGED <<rpLoop, rpPoll, rpPrompt, rpLatch, rpChoice, rpShut, rpTrack, rpCool>>
    /\ UNCHANGED <<rpHeld, rpFaults>>

(***************************************************************************)
(* Ctrl-C, in the order of the handler: a cancelable dispatch (connect, a  *)
(* kill retry), an open confirmation, a running dispatch (which it leaves  *)
(* alone), and otherwise the session detaches.                             *)
(***************************************************************************)
CtrlC ==
    /\ ~rpShut /\ rpLoop.at # "boot"
    /\ \/ /\ rpLoop.at \in {"connect", "kill", "killwait"}
          /\ rpLoop' = [rpLoop EXCEPT !.abort = TRUE]
          /\ UNCHANGED <<rpPoll, rpPrompt, rpLatch, rpChoice, rpEd, rpShut, rpTrack, rpCool>>
       \/ /\ rpLoop.at \notin {"connect", "kill", "killwait"}
          /\ rpChoice # NoOwner
          /\ PromptEnds(rpChoice, "ok")
       \/ /\ rpChoice = NoOwner /\ ~InFlight
          /\ OnClose(IF IdleRead THEN AtLoop("closing", NoHold) ELSE rpLoop)
          /\ UNCHANGED rpTrack
    /\ UNCHANGED <<rpHeld, rpFaults>>

\* Ctrl-D closes the input from an empty line or from a chooser.
CtrlD ==
    /\ Listening /\ rpEd.buf = ""
    /\ OnClose(IF IdleRead THEN AtLoop("closing", NoHold) ELSE rpLoop)
    /\ UNCHANGED <<rpTrack, rpHeld, rpFaults>>

-----------------------------------------------------------------------------
(***************************************************************************)
(* The loop: the launch handshake, then what its dispatches wait for.      *)
(* The poll starts when the handshake is over.                             *)
(***************************************************************************)
BootEnds ==
    /\ rpLoop.at = "boot"
    /\ \E err \in Errors \cup {"ok"} :
          /\ IF err = "ok" THEN Answers ELSE Fails(err)
          /\ LoopBack(err)
    /\ rpPoll' = "sleep"
    /\ UNCHANGED <<rpPrompt, rpLatch, rpChoice, rpShut, rpCool, rpHeld>>

\* Requests whose answer ends the dispatch: a chat turn that parked nothing, a
\* meta-command, a connect, a kill that landed; and any of them failing (a
\* kill with an unavailable engine once its window is over or Ctrl-C came).
DispatchEnds ==
    /\ rpLoop.at \in {"chat", "meta", "connect", "kill"}
    /\ \/ Answers /\ LoopBack("ok")
       \/ \E err \in Errors :
             /\ Fails(err)
             /\ LoopBack(err)
    /\ UNCHANGED <<rpPoll, rpPrompt, rpLatch, rpChoice, rpShut, rpCool, rpHeld>>

\* A kill retries an unavailable engine until its window closes or Ctrl-C.
KillWaits ==
    /\ rpLoop.at = "kill" /\ ~rpLoop.abort
    /\ \E err \in {"reject", "deadline"} : Fails(err)
    /\ rpLoop' = AtLoop("killwait", NoHold)
    /\ UNCHANGED <<rpPoll, rpPrompt, rpLatch, rpChoice, rpEd, rpShut, rpTrack, rpCool, rpHeld>>

KillRetries ==
    /\ rpLoop.at = "killwait"
    /\ \/ ~rpLoop.abort /\ rpLoop' = AtLoop("kill", NoHold) /\ UNCHANGED <<rpEd, rpTrack>>
       \/ rpLoop.abort /\ \E err \in {"reject", "deadline"} : LoopBack(err)
    /\ UNCHANGED <<rpPoll, rpPrompt, rpLatch, rpChoice, rpShut, rpCool, rpHeld, rpFaults>>

\* A chat turn that parked a call, or met one already parked.
ChatHeld ==
    /\ rpLoop.at = "chat"
    /\ \E h \in Holds :
          /\ rpHeld[h] \notin {"gone"}
          /\ rpHeld' = [rpHeld EXCEPT ![h] = IF @ = "none" THEN "plain" ELSE @]
          /\ rpLoop' = AtLoop("status", h)
    /\ UNCHANGED <<rpPoll, rpPrompt, rpLatch, rpChoice, rpEd, rpShut, rpTrack, rpCool, rpFaults>>

\* handleChatTurn's status read: its own hold is drawn under the latch, else
\* the turn ends with the fallback line.
ChatStatus ==
    /\ rpLoop.at = "status"
    /\ LET h == rpLoop.hold IN
       \/ /\ Answers
          /\ rpHeld[h] \in Kinds /\ LatchFree(h)
          /\ \/ /\ ~rpShut
                /\ rpLatch' = h
                /\ rpLoop' = AtLoop("prompt", h)
                /\ rpPrompt' = [rpPrompt EXCEPT !["loop"] =
                       [NoPrompt EXCEPT !.at = "choice", !.hold = h, !.kind = rpHeld[h]]]
                /\ rpChoice' = "loop"
                /\ rpEd' = Chooser(rpEd)
                /\ UNCHANGED rpTrack
             \/ rpShut /\ LoopBack("ok") /\ UNCHANGED <<rpLatch, rpPrompt, rpChoice>>
       \/ /\ Answers
          /\ rpHeld[h] \notin Kinds \/ ~LatchFree(h)
          /\ LoopBack("ok")
          /\ UNCHANGED <<rpLatch, rpPrompt, rpChoice>>
       \/ /\ \E err \in Errors : Fails(err)
          /\ LoopBack("ok")
          /\ UNCHANGED <<rpLatch, rpPrompt, rpChoice>>
    /\ UNCHANGED <<rpPoll, rpShut, rpCool, rpHeld>>

\* :quit ends the session on the engine, then the loop, whatever the answer.
QuitEnds ==
    /\ rpLoop.at = "quit"
    /\ \E err \in Errors \cup {"ok"} :
          /\ IF err = "ok" THEN Answers ELSE Fails(err)
          /\ rpTrack' = NoteFailure(err, "foreground")
    /\ LoopEnds
    /\ UNCHANGED rpHeld

\* The loop's exit waits for the poll.
ReplReturns ==
    /\ rpLoop.at = "closing" /\ rpPoll = "done"
    /\ rpLoop' = AtLoop("done", NoHold)
    /\ UNCHANGED <<rpPoll, rpPrompt, rpLatch, rpChoice, rpEd, rpShut, rpTrack, rpCool,
                   rpHeld, rpFaults>>

-----------------------------------------------------------------------------
(***************************************************************************)
(* The poll.  A tick is skipped while offline (cooldowns do not age then)  *)
(* and while a prompt is open; a hold without a cooldown (the code takes   *)
(* the oldest) is drawn under the latch, unless a menu is open.            *)
(***************************************************************************)
Aged == [h \in Holds |-> IF rpCool[h] > 0 THEN rpCool[h] - 1 ELSE 0]
PollTick ==
    /\ rpPoll = "sleep"
    /\ \/ ~Active /\ rpPoll' = "done" /\ UNCHANGED rpCool
       \/ /\ Active /\ rpTrack.online
          /\ rpCool' = Aged
          /\ rpPoll' = IF rpLatch = NoHold THEN "status" ELSE "sleep"
    /\ UNCHANGED <<rpLoop, rpPrompt, rpLatch, rpChoice, rpEd, rpShut, rpTrack, rpHeld, rpFaults>>

Surfaces(h) == rpHeld[h] \in Kinds /\ rpCool[h] = 0
PollStatus ==
    /\ rpPoll = "status"
    /\ \/ /\ Answers
          /\ \E h \in Holds :
                /\ Surfaces(h) /\ LatchFree(h) /\ rpEd.buf # "menu"
                /\ IF rpShut
                   THEN rpPoll' = "sleep" /\ UNCHANGED <<rpPrompt, rpLatch, rpChoice, rpEd>>
                   ELSE /\ rpPoll' = "prompt"
                        /\ rpLatch' = h
                        /\ rpPrompt' = [rpPrompt EXCEPT !["poll"] =
                              [NoPrompt EXCEPT !.at = "choice", !.hold = h, !.kind = rpHeld[h]]]
                        /\ rpChoice' = "poll"
                        /\ rpEd' = Chooser(Erased(rpEd))
          /\ UNCHANGED rpTrack
       \/ /\ Answers
          /\ \A h \in Holds : ~Surfaces(h) \/ ~LatchFree(h) \/ rpEd.buf = "menu"
          /\ rpPoll' = "sleep"
          /\ UNCHANGED <<rpPrompt, rpLatch, rpChoice, rpEd, rpTrack>>
       \/ \E err \in Errors :
             /\ Fails(err)
             /\ rpPoll' = "sleep"
             /\ rpTrack' = NoteFailure(err, "background")
             /\ UNCHANGED <<rpPrompt, rpLatch, rpChoice, rpEd>>
    /\ UNCHANGED <<rpLoop, rpShut, rpCool, rpHeld>>

-----------------------------------------------------------------------------
(***************************************************************************)
(* renderPrompt after the pick.  The presence gate withholds a grant it    *)
(* could not confirm; the prompt is then drawn again.                      *)
(***************************************************************************)
PresenceAnswers(o) ==
    LET p == rpPrompt[o] IN
    /\ p.at = "presence"
    /\ \/ /\ rpPrompt' = [rpPrompt EXCEPT ![o].at = "resolve"]
          /\ UNCHANGED <<rpLoop, rpPoll, rpLatch, rpChoice, rpEd, rpShut, rpTrack, rpCool>>
       \/ ReadChoice(o, p.hold, p.kind, rpEd)
    /\ UNCHANGED <<rpHeld, rpFaults>>

(***************************************************************************)
(* The engine's answer to the resolve: 404 when the hold is gone, 400 when *)
(* it changed shape under the answer, 409 while another turn runs, the     *)
(* metadata for "tell me more", or the resumed turn, which may have parked *)
(* the next call (or this one again, over the spending limit).             *)
(***************************************************************************)
ResolveAnswers(o) ==
    LET p == rpPrompt[o] IN
    /\ p.at = "resolve"
    /\ \/ /\ Answers /\ rpHeld[p.hold] = "gone"
          /\ PromptEnds(o, "ok") /\ UNCHANGED rpHeld
       \/ /\ Answers /\ rpHeld[p.hold] \in Kinds \ {p.kind} /\ p.pick = "grant"
          /\ rpPrompt' = [rpPrompt EXCEPT ![o].at = "recheck"]
          /\ UNCHANGED <<rpLoop, rpPoll, rpLatch, rpChoice, rpEd, rpShut, rpTrack, rpCool, rpHeld>>
       \/ /\ Answers /\ rpHeld[p.hold] \in Kinds   \* 409, or "tell me more"
          /\ ReadChoice(o, p.hold, p.kind, rpEd) /\ UNCHANGED rpHeld
       \/ /\ Answers /\ p.pick # "more"
          /\ rpHeld[p.hold] \in Kinds /\ (p.pick = "grant" => rpHeld[p.hold] = p.kind)
          /\ \/ /\ rpHeld' = [rpHeld EXCEPT ![p.hold] = "gone"]
                /\ PromptEnds(o, "ok")
             \/ /\ \/ \E h \in Holds :
                         /\ rpHeld[h] = "none"
                         /\ rpHeld' = [rpHeld EXCEPT ![p.hold] = "gone", ![h] = "plain"]
                         /\ rpPrompt' = [rpPrompt EXCEPT ![o].at = "cascade", ![o].hold = h]
                   \/ /\ p.pick = "grant" /\ p.kind = "plain"
                      /\ rpHeld' = [rpHeld EXCEPT ![p.hold] = "spend"]
                      /\ rpPrompt' = [rpPrompt EXCEPT ![o].at = "cascade"]
                /\ UNCHANGED <<rpLoop, rpPoll, rpLatch, rpChoice, rpEd, rpShut, rpTrack, rpCool>>
       \/ \E err \in Errors : Fails(err) /\ PromptEnds(o, err) /\ UNCHANGED rpHeld

\* The status read after a 400 (the record kept when it cannot be read) and
\* after a cascade (the prompt ends when the next record cannot be read).
RecordAnswers(o) ==
    LET p == rpPrompt[o] IN
    /\ p.at \in {"recheck", "cascade"}
    /\ \/ /\ Answers /\ rpHeld[p.hold] \in Kinds
          /\ ReadChoice(o, p.hold, rpHeld[p.hold], rpEd)
       \/ /\ p.at = "recheck"
          /\ (Answers /\ rpHeld[p.hold] \notin Kinds) \/ \E err \in Errors : Fails(err)
          /\ ReadChoice(o, p.hold, p.kind, rpEd)
       \/ /\ p.at = "cascade"
          /\ (Answers /\ rpHeld[p.hold] \notin Kinds) \/ \E err \in Errors : Fails(err)
          /\ PromptEnds(o, "ok")
    /\ UNCHANGED rpHeld

-----------------------------------------------------------------------------
(***************************************************************************)
(* The probe loop: while offline and active, sleep, probe the health       *)
(* route, redo the launch handshake; a handshake that reached the engine,  *)
(* even with an error, brings the session back online.                     *)
(***************************************************************************)
Probe ==
    /\ rpTrack.probe # "none"
    /\ \/ /\ rpTrack.probe = "sleep"
          /\ rpTrack' = [rpTrack EXCEPT !.probe = IF Active THEN "health" ELSE "none"]
          /\ Answers
       \/ /\ rpTrack.probe = "health"
          /\ \/ Answers /\ rpTrack' = [rpTrack EXCEPT !.probe = "handshake"]
             \/ \E err \in Errors :
                   Fails(err) /\ rpTrack' = [rpTrack EXCEPT !.probe = IF Active THEN "sleep" ELSE "none"]
       \/ /\ rpTrack.probe = "handshake"
          /\ \/ \E err \in {"reject", "deadline"} :
                   Fails(err) /\ rpTrack' = [rpTrack EXCEPT !.probe = IF Active THEN "sleep" ELSE "none"]
             \/ /\ Answers \/ Fails("other")
                /\ rpTrack' = [online |-> Active, probe |-> "none"]
    /\ UNCHANGED <<rpLoop, rpPoll, rpPrompt, rpLatch, rpChoice, rpEd, rpShut, rpCool, rpHeld>>

(***************************************************************************)
(* The engine, as its other clients move it: a commission parks a call,    *)
(* another surface re-parks it over the spending limit, or it expires or   *)
(* is resolved elsewhere.                                                  *)
(***************************************************************************)
EngineMoves ==
    /\ \E h \in Holds :
          \/ rpHeld[h] = "none"  /\ rpHeld' = [rpHeld EXCEPT ![h] = "plain"]
          \/ rpHeld[h] = "plain" /\ rpHeld' = [rpHeld EXCEPT ![h] = "spend"]
          \/ rpHeld[h] \in Kinds /\ rpHeld' = [rpHeld EXCEPT ![h] = "gone"]
    /\ UNCHANGED <<rpLoop, rpPoll, rpPrompt, rpLatch, rpChoice, rpEd, rpShut, rpTrack,
                   rpCool, rpFaults>>

-----------------------------------------------------------------------------
ReplInit ==
    /\ rpLoop = AtLoop("boot", NoHold)
    /\ rpPoll = "off"
    /\ rpPrompt = [o \in Owners |-> NoPrompt]
    /\ rpLatch = NoHold
    /\ rpChoice = NoOwner
    /\ rpEd = [reading |-> FALSE, chooser |-> FALSE, buf |-> "", prompt |-> "idle", stash |-> "none"]
    /\ rpShut = FALSE
    /\ rpTrack = [online |-> TRUE, probe |-> "none"]
    /\ rpCool = [h \in Holds |-> 0]
    /\ rpHeld = [h \in Holds |-> "none"]
    /\ rpFaults = 0

LoopStep == BootEnds \/ DispatchEnds \/ KillWaits \/ KillRetries \/ ChatHeld \/ ChatStatus
            \/ QuitEnds \/ ReplReturns
PollStep == PollTick \/ PollStatus
PromptStep(o) == PresenceAnswers(o) \/ ResolveAnswers(o) \/ RecordAnswers(o)

ReplNext ==
    \/ TypeText \/ Enter \/ CtrlC \/ CtrlD
    \/ LoopStep \/ PollStep \/ Probe
    \/ \E o \in Owners : PromptStep(o)
    \/ EngineMoves

\* Every request ends (each has a deadline) and every timer fires; nothing is
\* assumed of the user or of the engine's other clients.
ReplFairness ==
    /\ WF_rpVars(LoopStep) /\ WF_rpVars(PollStep) /\ WF_rpVars(Probe)
    /\ \A o \in Owners : WF_rpVars(PromptStep(o))

ReplSpec == ReplInit /\ [][ReplNext]_rpVars /\ ReplFairness

-----------------------------------------------------------------------------
(***************************************************************************)
(* The loop and the poll never have two confirmations open: the latch is   *)
(* busy exactly while one is, and the one choice read outstanding is that  *)
(* prompt's, so no prompt waits for an answer that can only reach another. *)
(***************************************************************************)
OnePrompt ==
    /\ Cardinality({o \in Owners : rpPrompt[o].at # "none"}) = IF rpLatch = NoHold THEN 0 ELSE 1
    /\ \A o \in Owners : rpPrompt[o].at = "choice" <=> rpChoice = o
    /\ rpChoice # NoOwner => rpEd.chooser

(***************************************************************************)
(* When the loop waits for a line and no confirmation is open, the editor  *)
(* takes keys and shows the idle prompt, whatever prompt of the poll came  *)
(* in between and however it ended.                                        *)
(***************************************************************************)
IdleIsTypable ==
    IdleRead /\ (\A o \in Owners : rpPrompt[o].at = "none")
        => rpEd.reading /\ rpEd.prompt = "idle" /\ rpEd.stash = "none"

(***************************************************************************)
(* The loop and the poll share the terminal without getting in each        *)
(* other's way.                                                            *)
(***************************************************************************)
ReplSound == ReplTypeOK /\ OnePrompt /\ IdleIsTypable

(***************************************************************************)
(* Once the input closes, runChatRepl returns: no confirmation, dispatch,  *)
(* probe or poll tick keeps it.                                            *)
(***************************************************************************)
CloseReturns == rpShut ~> rpLoop.at = "done"

(***************************************************************************)
(* A parked call is put in front of the user, through failures, cooldowns  *)
(* and time offline, unless it goes away, the session ends, or the user is *)
(* holding the editor with a menu or another confirmation.                 *)
(***************************************************************************)
HeldSurfaces ==
    \A h \in Holds :
        (rpHeld[h] \in Kinds /\ Active)
            ~> (rpHeld[h] \notin Kinds \/ ~Active \/ rpLatch # NoHold \/ rpEd.buf = "menu")
=============================================================================
