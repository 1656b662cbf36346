------------------------------ MODULE CliProofs ------------------------------
(***************************************************************************)
(* Proofs about the two interactive parts of the CLI: the terminal session *)
(* (ReplSession), for any number of held calls, any cooldown and any       *)
(* number of failing requests, and `habenula up` and `down`                *)
(* (EngineLifecycle), for any number of commands and any range of ports.   *)
(*                                                                         *)
(* Why ReplSound holds: the loop is inside a confirmation exactly at its   *)
(* place "prompt", so is the poll, the latch is busy exactly then and held *)
(* for the loop's own hold, and a line is set aside only while the poll's  *)
(* confirmation is open (Shared).                                          *)
(*                                                                         *)
(* Why OneEngine and DownWorks hold: only the run the record names may     *)
(* have a daemon (SlotShared), a record without a pid belongs to a run     *)
(* inside its stretch (Claimed), and a record is removed only when its     *)
(* daemon is gone (UpSlot, DownSlot). A daemon keeps its port to the end   *)
(* (RecLife, DownLife). The config's key never changes once it is there,   *)
(* and every daemon was given it (KeyShared, UpKey).                       *)
(***************************************************************************)
EXTENDS ReplSession, EngineLifecycle, FiniteSetTheorems, TLAPS

LoopT == [at   : {"boot", "idle", "chat", "status", "prompt", "meta",
                  "connect", "kill", "killwait", "quit", "closing", "done"},
          hold : Holds \cup {NoHold}, abort : BOOLEAN]

PromptT == [at   : {"none", "choice", "presence", "resolve", "recheck", "cascade"},
            hold : Holds \cup {NoHold}, kind : Kinds, pick : {"deny", "more", "grant"}]

EdT == [reading : BOOLEAN, chooser : BOOLEAN, buf : {"", "text", "menu"},
        prompt : {"idle", "choice"}, stash : {"none", "", "text"}]

TrackT == [online : BOOLEAN, probe : {"none", "sleep", "health", "handshake"}]

\* What the loop and the poll share.
Shared(loop, poll, prompt, latch, choice) ==
    /\ loop.at \in {"status", "prompt"} => loop.hold \in Holds
    /\ loop.at = "boot" => poll = "off"
    /\ prompt["loop"].at # "none" <=> loop.at = "prompt"
    /\ prompt["poll"].at # "none" <=> poll = "prompt"
    /\ ~(loop.at = "prompt" /\ poll = "prompt")
    /\ latch # NoHold <=> loop.at = "prompt" \/ poll = "prompt"
    /\ loop.at = "prompt" => latch = loop.hold
    /\ prompt["loop"].at # "none" => prompt["loop"].hold \in Holds
    /\ prompt["poll"].at # "none" => prompt["poll"].hold \in Holds
    /\ prompt["loop"].at = "choice" <=> choice = "loop"
    /\ prompt["poll"].at = "choice" <=> choice = "poll"

\* What the editor shows for them.
Shown(loop, poll, choice, ed) ==
    /\ choice # NoOwner => ed.chooser
    /\ loop.at = "idle" /\ poll # "prompt" => ed.reading /\ ed.prompt = "idle"
    /\ ed.stash # "none" => poll = "prompt"

ReplInv ==
    /\ ReplTypeOK
    /\ Shared(rpLoop, rpPoll, rpPrompt, rpLatch, rpChoice)
    /\ Shown(rpLoop, rpPoll, rpChoice, rpEd)
-----------------------------------------------------------------------------
(* The editor, the tracker and the shape of the state.                     *)

LEMMA ShowIdleFacts ==
    ASSUME NEW e \in EdT
    PROVE  LET n == ShowIdle(e) IN
           n \in EdT /\ n.reading /\ n.prompt = "idle" /\ n.stash = e.stash /\ (n.chooser <=> e.chooser)
BY DEF ShowIdle, EdT

LEMMA ChooserFacts ==
    ASSUME NEW e \in EdT
    PROVE  LET n == Chooser(e) IN n \in EdT /\ n.chooser /\ n.stash = e.stash
BY DEF Chooser, EdT

LEMMA SubmittedFacts ==
    ASSUME NEW e \in EdT
    PROVE  LET n == Submitted(e) IN n \in EdT /\ n.stash = e.stash
BY DEF Submitted, EdT

LEMMA ErasedFacts == ASSUME NEW e \in EdT PROVE Erased(e) \in EdT
BY DEF Erased, EdT

LEMMA RestoreFacts ==
    ASSUME NEW e \in EdT
    PROVE  LET n == RestoreInput(RestingPrompt(e)) IN
           n \in EdT /\ n.reading /\ n.prompt = "idle" /\ n.stash = "none"
<1> DEFINE r == RestingPrompt(e)
<1>1. r \in EdT /\ r.prompt = "idle" BY DEF RestingPrompt, EdT
<1> HIDE DEF r
<1>2. CASE r.stash = "none"
  <2>1. RestoreInput(r) = [r EXCEPT !.reading = TRUE] BY <1>2 DEF RestoreInput
  <2> QED BY <1>1, <1>2, <2>1 DEF EdT, r
<1>3. CASE r.stash # "none"
  <2>1. RestoreInput(r) = [r EXCEPT !.reading = TRUE, !.chooser = FALSE, !.buf = r.stash, !.stash = "none"]
    BY <1>3 DEF RestoreInput
  <2>2. r.stash \in {"", "text", "menu"} BY <1>1, <1>3 DEF EdT
  <2> QED BY <1>1, <2>1, <2>2 DEF EdT, r
<1> QED BY <1>2, <1>3

LEMMA NoteFailureTyped ==
    ASSUME rpTrack \in TrackT, NEW err, NEW source
    PROVE  NoteFailure(err, source) \in TrackT
BY DEF NoteFailure, Offline, TrackT

LEMMA AtLoopFacts ==
    ASSUME NEW p \in {"boot", "idle", "chat", "status", "prompt", "meta",
                      "connect", "kill", "killwait", "quit", "closing", "done"},
           NEW h \in Holds \cup {NoHold}
    PROVE  LET l == AtLoop(p, h) IN l \in LoopT /\ l.at = p /\ l.hold = h
BY DEF AtLoop, LoopT

LEMMA NoPromptFacts ==
    /\ NoPrompt \in PromptT /\ NoPrompt.at = "none"
    /\ \A h \in Holds, k \in Kinds :
         LET p == [NoPrompt EXCEPT !.at = "choice", !.hold = h, !.kind = k]
         IN  p \in PromptT /\ p.at = "choice" /\ p.hold = h
BY DEF NoPrompt, PromptT, Kinds

\* ReplTypeOK, by component.
LEMMA TypeParts ==
    ReplTypeOK <=> /\ rpLoop \in LoopT /\ rpPoll \in {"off", "sleep", "status", "prompt", "done"}
                   /\ rpPrompt \in [Owners -> PromptT]
                   /\ rpLatch \in Holds \cup {NoHold} /\ rpChoice \in Owners \cup {NoOwner}
                   /\ rpEd \in EdT /\ rpShut \in BOOLEAN /\ rpTrack \in TrackT
                   /\ rpCool \in [Holds -> 0..CooldownTicks]
                   /\ rpHeld \in [Holds -> Kinds \cup {"none", "gone"}]
                   /\ rpFaults \in 0..MaxFaults
BY DEF ReplTypeOK, LoopT, PromptT, EdT, TrackT

\* The variables the editor, the latch and the prompts live in.
Front(loop, poll, prompt, latch, choice, ed, track, cool) ==
    /\ loop \in LoopT /\ poll \in {"off", "sleep", "status", "prompt", "done"}
    /\ prompt \in [Owners -> PromptT]
    /\ latch \in Holds \cup {NoHold} /\ choice \in Owners \cup {NoOwner}
    /\ ed \in EdT /\ track \in TrackT /\ cool \in [Holds -> 0..CooldownTicks]
    /\ Shared(loop, poll, prompt, latch, choice) /\ Shown(loop, poll, choice, ed)

Fronted == Front(rpLoop, rpPoll, rpPrompt, rpLatch, rpChoice, rpEd, rpTrack, rpCool)

Back == /\ rpShut \in BOOLEAN /\ rpFaults \in 0..MaxFaults
        /\ rpHeld \in [Holds -> Kinds \cup {"none", "gone"}]

LEMMA InvParts == ReplInv <=> Fronted /\ Back
BY TypeParts DEF ReplInv, Fronted, Front, Back

LEMMA InvPartsNext == ReplInv' <=> Fronted' /\ Back'
BY InvParts, PTL

LEMMA FailsTyped ==
    /\ Back /\ (Answers \/ \E err \in Errors : Fails(err)) => rpFaults' \in 0..MaxFaults
    /\ \A err : Back /\ Fails(err) => rpFaults' \in 0..MaxFaults
BY ReplAssumption DEF Back, Answers, Fails
-----------------------------------------------------------------------------
(* How a dispatch, a confirmation and the input end.                       *)

LEMMA PromptUpdate ==
    ASSUME NEW prompt \in [Owners -> PromptT], NEW o \in Owners, NEW p \in PromptT
    PROVE  LET n == [prompt EXCEPT ![o] = p] IN
           n \in [Owners -> PromptT] /\ n[o] = p /\ \A q \in Owners \ {o} : n[q] = prompt[q]
OBVIOUS

\* A confirmation is open: it is the only one, and its path is at it.
LEMMA OnlyPrompt ==
    ASSUME Fronted, NEW o \in Owners, rpPrompt[o].at # "none"
    PROVE  /\ rpPrompt[o] \in PromptT /\ rpPrompt[o].hold \in Holds /\ rpLatch # NoHold
           /\ \A q \in Owners \ {o} : rpPrompt[q].at = "none" /\ rpChoice # q
           /\ o = "loop" => rpLoop.at = "prompt" /\ rpPoll # "prompt" /\ rpLatch = rpLoop.hold
           /\ o = "poll" => rpLoop.at # "prompt" /\ rpPoll = "prompt"
           /\ rpPrompt[o].at = "choice" <=> rpChoice = o
           /\ rpChoice \in {o, NoOwner}
BY DEF Fronted, Front, Shared, Owners, NoOwner

LEMMA LoopBackKeeps ==
    ASSUME Fronted, NEW err, LoopBack(err), rpLoop.at # "prompt",
           rpPoll' = rpPoll \/ (rpLoop.at = "boot" /\ rpPoll' = "sleep"),
           UNCHANGED <<rpPrompt, rpLatch, rpChoice, rpCool>>
    PROVE  Fronted'
<1> DEFINE at == IF rpShut THEN "closing" ELSE "idle"
           l == AtLoop(at, NoHold)
           e == IF rpShut THEN rpEd ELSE ShowIdle(rpEd)
<1>1. rpLoop' = l /\ rpEd' = e /\ rpTrack' \in TrackT
  BY NoteFailureTyped DEF LoopBack, Fronted, Front
<1>2. l \in LoopT /\ l.at = at BY AtLoopFacts
<1>3. /\ e \in EdT /\ (rpEd.chooser => e.chooser) /\ e.stash = rpEd.stash
      /\ at = "idle" => e.reading /\ e.prompt = "idle"
  BY ShowIdleFacts DEF Fronted, Front
<1>4. at \in {"closing", "idle"} OBVIOUS
<1> HIDE DEF l, e, at
<1>5. rpPoll' \in {"off", "sleep", "status", "prompt", "done"} /\ (rpPoll' = "prompt" <=> rpPoll = "prompt")
  BY DEF Fronted, Front, Shared
<1>6. Shared(rpLoop, rpPoll, rpPrompt, rpLatch, rpChoice)'
  BY <1>1, <1>2, <1>4, <1>5 DEF Fronted, Front, Shared
<1>7. Shown(rpLoop, rpPoll, rpChoice, rpEd)'
  BY <1>1, <1>2, <1>3, <1>4, <1>5 DEF Fronted, Front, Shown
<1> QED BY <1>1, <1>2, <1>3, <1>5, <1>6, <1>7 DEF Fronted, Front

LEMMA PromptEndsKeeps ==
    ASSUME Fronted, NEW o \in Owners, rpPrompt[o].at # "none", NEW err, PromptEnds(o, err)
    PROVE  Fronted' /\ rpShut' = rpShut
<1>0. rpShut' = rpShut BY DEF PromptEnds
<1>1. /\ rpPrompt[o].hold \in Holds /\ rpLatch # NoHold
      /\ \A q \in Owners \ {o} : rpPrompt[q].at = "none" /\ rpChoice # q
      /\ o = "loop" => rpLoop.at = "prompt" /\ rpPoll # "prompt" /\ rpLatch = rpLoop.hold
      /\ o = "poll" => rpLoop.at # "prompt" /\ rpPoll = "prompt"
      /\ rpChoice \in {o, NoOwner}
  BY OnlyPrompt
<1>2. /\ rpPrompt' \in [Owners -> PromptT]
      /\ \A q \in Owners : rpPrompt'[q].at = "none"
  BY <1>1, NoPromptFacts, PromptUpdate DEF PromptEnds, Fronted, Front
<1>3. rpChoice' = NoOwner BY <1>1 DEF PromptEnds
<1>4. "loop" \in Owners /\ "poll" \in Owners /\ NoOwner \notin Owners BY DEF Owners, NoOwner
<1>5. rpPrompt'["loop"].at = "none" /\ rpPrompt'["poll"].at = "none" BY <1>2, <1>4
<1>6. CASE o = "loop"
  <2> DEFINE at == IF rpShut THEN "closing" ELSE "idle"
             l == AtLoop(at, NoHold)
             e == IF rpShut THEN rpEd ELSE ShowIdle(rpEd)
  <2>1. rpLoop' = l /\ rpEd' = e /\ rpTrack' \in TrackT /\ rpLatch' = NoHold
        /\ rpPoll' = rpPoll /\ rpCool' = rpCool
    BY <1>1, <1>6, NoteFailureTyped DEF PromptEnds, LoopBack, Released, Fronted, Front
  <2>2. l \in LoopT /\ l.at = at BY AtLoopFacts
  <2>3. /\ e \in EdT /\ e.stash = rpEd.stash
        /\ at = "idle" => e.reading /\ e.prompt = "idle"
    BY ShowIdleFacts DEF Fronted, Front
  <2>4. at \in {"closing", "idle"} OBVIOUS
  <2> HIDE DEF l, e, at
  <2>5. Shared(rpLoop, rpPoll, rpPrompt, rpLatch, rpChoice)'
    BY <1>1, <1>3, <1>4, <1>5, <1>6, <2>1, <2>2, <2>4 DEF Shared
  <2>6. Shown(rpLoop, rpPoll, rpChoice, rpEd)'
    BY <1>1, <1>3, <1>6, <2>1, <2>2, <2>3, <2>4 DEF Fronted, Front, Shown
  <2>7. Fronted' BY <1>2, <1>3, <2>1, <2>2, <2>3, <2>5, <2>6 DEF Fronted, Front
  <2> QED BY <1>0, <2>7
<1>7. CASE o = "poll"
  <2> DEFINE e == RestoreInput(RestingPrompt(rpEd))
  <2>1. /\ rpLoop' = rpLoop /\ rpPoll' = "sleep" /\ rpEd' = e /\ rpLatch' = NoHold
        /\ rpCool' = IF err = "ok" \/ rpLatch = NoHold THEN rpCool
                     ELSE [rpCool EXCEPT ![rpLatch] = CooldownTicks]
        /\ rpTrack' \in TrackT
    BY <1>7, NoteFailureTyped DEF PromptEnds, Fronted, Front
  <2>2. e \in EdT /\ e.reading /\ e.prompt = "idle" /\ e.stash = "none"
    BY RestoreFacts DEF Fronted, Front
  <2>3. rpCool' \in [Holds -> 0..CooldownTicks]
    BY <2>1, ReplAssumption DEF Fronted, Front
  <2> HIDE DEF e
  <2>4. rpLoop.at # "boot" BY <1>1, <1>7 DEF Fronted, Front, Shared
  <2>5. Shared(rpLoop, rpPoll, rpPrompt, rpLatch, rpChoice)'
    BY <1>1, <1>3, <1>4, <1>5, <1>7, <2>1, <2>4 DEF Shared, Fronted, Front
  <2>6. Shown(rpLoop, rpPoll, rpChoice, rpEd)'
    BY <1>3, <2>1, <2>2 DEF Shown
  <2>7. Fronted' BY <1>2, <1>3, <2>1, <2>2, <2>3, <2>5, <2>6 DEF Fronted, Front
  <2> QED BY <1>0, <2>7
<1> QED BY <1>6, <1>7 DEF Owners

\* An open confirmation moves on to p.
LEMMA PromptMoves ==
    ASSUME Fronted, NEW o \in Owners, rpPrompt[o].at # "none", NEW p \in PromptT,
           p.at # "none", p.hold \in Holds,
           rpPrompt' = [rpPrompt EXCEPT ![o] = p],
           rpChoice' = IF p.at = "choice" THEN o ELSE NoOwner,
           rpEd' \in EdT, rpEd'.stash = rpEd.stash, p.at = "choice" => rpEd'.chooser,
           UNCHANGED <<rpLoop, rpPoll, rpLatch, rpTrack, rpCool>>
    PROVE  Fronted'
<1>1. /\ rpLatch # NoHold
      /\ \A q \in Owners \ {o} : rpPrompt[q].at = "none"
      /\ o = "loop" => rpLoop.at = "prompt" /\ rpPoll # "prompt" /\ rpLatch = rpLoop.hold
      /\ o = "poll" => rpLoop.at # "prompt" /\ rpPoll = "prompt"
  BY OnlyPrompt
<1>2. rpPrompt' \in [Owners -> PromptT] /\ rpPrompt'[o] = p
      /\ \A q \in Owners \ {o} : rpPrompt'[q].at = "none"
  BY <1>1, PromptUpdate DEF Fronted, Front
<1>3. Shared(rpLoop, rpPoll, rpPrompt, rpLatch, rpChoice)'
  BY <1>1, <1>2 DEF Fronted, Front, Shared, Owners, NoOwner
<1>4. Shown(rpLoop, rpPoll, rpChoice, rpEd)'
  <2>1. rpChoice' # NoOwner => rpEd'.chooser OBVIOUS
  <2>2. rpLoop.at = "idle" => rpPoll = "prompt" BY <1>1 DEF Owners
  <2> QED BY <2>1, <2>2 DEF Fronted, Front, Shown
<1> QED BY <1>2, <1>3, <1>4 DEF Fronted, Front

LEMMA ReadChoiceKeeps ==
    ASSUME Fronted, NEW o \in Owners, rpPrompt[o].at # "none", NEW h \in Holds, NEW k \in Kinds,
           ReadChoice(o, h, k, rpEd)
    PROVE  Fronted' /\ rpShut' = rpShut
<1> DEFINE p == [NoPrompt EXCEPT !.at = "choice", !.hold = h, !.kind = k]
<1>1. p \in PromptT /\ p.at = "choice" /\ p.hold = h BY NoPromptFacts
<1>2. CASE ~rpShut
  <2>1. /\ rpPrompt' = [rpPrompt EXCEPT ![o] = p] /\ rpChoice' = o /\ rpEd' = Chooser(rpEd)
        /\ UNCHANGED <<rpLoop, rpPoll, rpLatch, rpShut, rpTrack, rpCool>>
    BY <1>2 DEF ReadChoice
  <2>2. rpEd' \in EdT /\ rpEd'.chooser /\ rpEd'.stash = rpEd.stash
    BY <2>1, ChooserFacts DEF Fronted, Front
  <2> HIDE DEF p
  <2> QED BY <1>1, <2>1, <2>2, PromptMoves
<1>3. CASE rpShut
  <2>1. PromptEnds(o, "ok") BY <1>3 DEF ReadChoice
  <2> QED BY <2>1, PromptEndsKeeps
<1> QED BY <1>2, <1>3

LEMMA OnCloseKeeps ==
    ASSUME Fronted, NEW lp \in LoopT, OnClose(lp), rpTrack' \in TrackT,
           \/ lp.at = "closing" /\ rpLoop.at # "prompt"
           \/ lp = rpLoop /\ rpLoop.at # "idle"
    PROVE  Fronted' /\ rpShut' = TRUE
<1>0. rpShut' = TRUE /\ rpCool' = rpCool /\ rpChoice' = NoOwner BY DEF OnClose
<1>1. rpChoice \in Owners \cup {NoOwner} BY DEF Fronted, Front
<1>2. NoOwner \notin Owners /\ "loop" \in Owners /\ "poll" \in Owners BY DEF Owners, NoOwner
<1>3. CASE rpChoice = NoOwner
  <2>1. /\ rpLoop' = lp /\ rpLatch' = rpLatch /\ rpPoll' = rpPoll /\ rpEd' = rpEd
    BY <1>2, <1>3 DEF OnClose
  <2>2. rpPrompt' = rpPrompt BY <1>2, <1>3 DEF OnClose, Fronted, Front
  <2>3. Shared(rpLoop, rpPoll, rpPrompt, rpLatch, rpChoice)'
    BY <1>0, <1>3, <2>1, <2>2 DEF Fronted, Front, Shared
  <2>4. Shown(rpLoop, rpPoll, rpChoice, rpEd)'
    BY <1>0, <2>1, <2>2 DEF Fronted, Front, Shown
  <2> QED BY <1>0, <1>1, <1>3, <2>1, <2>2, <2>3, <2>4 DEF Fronted, Front
<1>4. CASE rpChoice \in Owners
  <2>1. rpPrompt[rpChoice].at # "none" BY <1>4 DEF Fronted, Front, Shared, Owners
  <2>2. /\ \A q \in Owners \ {rpChoice} : rpPrompt[q].at = "none"
        /\ rpChoice = "loop" => rpLoop.at = "prompt" /\ rpPoll # "prompt"
        /\ rpChoice = "poll" => rpLoop.at # "prompt" /\ rpPoll = "prompt"
    BY <1>4, <2>1, OnlyPrompt
  <2>3. rpPrompt' \in [Owners -> PromptT] /\ \A q \in Owners : rpPrompt'[q].at = "none"
    BY <2>2, NoPromptFacts DEF OnClose, Fronted, Front
  <2>4. rpLatch' = NoHold BY <1>2, <1>4 DEF OnClose
  <2>5. CASE rpChoice = "loop"
    <3>1. rpLoop' = AtLoop("closing", NoHold) /\ rpPoll' = rpPoll /\ rpEd' = rpEd
      BY <2>5 DEF OnClose
    <3>2. rpLoop' \in LoopT /\ rpLoop'.at = "closing" BY <3>1, AtLoopFacts
    <3>3. Shared(rpLoop, rpPoll, rpPrompt, rpLatch, rpChoice)'
      BY <1>0, <1>2, <2>2, <2>3, <2>4, <2>5, <3>1, <3>2 DEF Shared
    <3>4. Shown(rpLoop, rpPoll, rpChoice, rpEd)'
      BY <1>0, <2>2, <2>5, <3>1, <3>2 DEF Fronted, Front, Shown
    <3> QED BY <1>0, <2>3, <2>4, <3>1, <3>2, <3>3, <3>4 DEF Fronted, Front
  <2>6. CASE rpChoice = "poll"
    <3>1. rpLoop' = lp /\ rpPoll' = "sleep" /\ rpEd' = RestoreInput(RestingPrompt(rpEd))
      BY <2>6 DEF OnClose
    <3>2. rpEd' \in EdT /\ rpEd'.reading /\ rpEd'.prompt = "idle" /\ rpEd'.stash = "none"
      BY <3>1, RestoreFacts DEF Fronted, Front
    <3>3. rpLoop.at # "boot" BY <2>2, <2>6 DEF Fronted, Front, Shared
    <3>4. Shared(rpLoop, rpPoll, rpPrompt, rpLatch, rpChoice)'
      BY <1>0, <1>2, <2>2, <2>3, <2>4, <2>6, <3>1, <3>3 DEF Fronted, Front, Shared
    <3>5. Shown(rpLoop, rpPoll, rpChoice, rpEd)' BY <1>0, <3>1, <3>2 DEF Shown
    <3> QED BY <1>0, <2>3, <2>4, <3>1, <3>2, <3>4, <3>5 DEF Fronted, Front
  <2> QED BY <1>4, <2>5, <2>6 DEF Owners
<1> QED BY <1>1, <1>3, <1>4
-----------------------------------------------------------------------------
(* One lemma per action.                                                   *)

LEMMA ReplInitInv == ReplInit => ReplInv
<1> HAVE ReplInit
<1>1. rpLoop \in LoopT /\ rpLoop.at = "boot"
  <2>1. rpLoop = AtLoop("boot", NoHold) BY DEF ReplInit
  <2> QED BY <2>1, AtLoopFacts
<1>2. rpPrompt \in [Owners -> PromptT] /\ rpPrompt["loop"].at = "none" /\ rpPrompt["poll"].at = "none"
  <2>1. rpPrompt = [o \in Owners |-> NoPrompt] BY DEF ReplInit
  <2> QED BY <2>1, NoPromptFacts DEF Owners
<1>3. rpEd \in EdT /\ rpEd.stash = "none"
  <2>1. rpEd = [reading |-> FALSE, chooser |-> FALSE, buf |-> "", prompt |-> "idle", stash |-> "none"]
    BY DEF ReplInit
  <2> QED BY <2>1 DEF EdT
<1>4. rpTrack \in TrackT
  <2>1. rpTrack = [online |-> TRUE, probe |-> "none"] BY DEF ReplInit
  <2> QED BY <2>1 DEF TrackT
<1>5. /\ rpPoll = "off" /\ rpLatch = NoHold /\ rpChoice = NoOwner /\ rpShut = FALSE
      /\ rpCool = [h \in Holds |-> 0] /\ rpHeld = [h \in Holds |-> "none"] /\ rpFaults = 0
  BY DEF ReplInit
<1>6. Fronted
  <2>1. Shared(rpLoop, rpPoll, rpPrompt, rpLatch, rpChoice) BY <1>1, <1>2, <1>5 DEF Shared, NoOwner
  <2>2. Shown(rpLoop, rpPoll, rpChoice, rpEd) BY <1>1, <1>3, <1>5 DEF Shown
  <2> QED BY <1>1, <1>2, <1>3, <1>4, <1>5, <2>1, <2>2, ReplAssumption DEF Fronted, Front
<1>7. Back
  <2>1. rpShut \in BOOLEAN BY <1>5
  <2>2. rpHeld \in [Holds -> Kinds \cup {"none", "gone"}] BY <1>5
  <2>3. rpFaults \in 0..MaxFaults BY <1>5, ReplAssumption
  <2> QED BY <2>1, <2>2, <2>3 DEF Back
<1> QED BY <1>6, <1>7, InvParts

\* A step of the loop that opens and closes nothing.
LEMMA LoopMoves ==
    ASSUME Fronted, rpLoop.at \notin {"prompt", "boot"}, rpLoop' \in LoopT,
           rpLoop'.at \notin {"prompt", "boot", "idle"},
           rpLoop'.at = "status" => rpLoop'.hold \in Holds,
           rpEd' \in EdT, rpEd'.stash = rpEd.stash,
           rpEd' = rpEd \/ rpChoice = NoOwner,
           UNCHANGED <<rpPoll, rpPrompt, rpLatch, rpChoice, rpTrack, rpCool>>
    PROVE  Fronted'
<1>1. Shared(rpLoop, rpPoll, rpPrompt, rpLatch, rpChoice)' BY DEF Fronted, Front, Shared
<1>2. Shown(rpLoop, rpPoll, rpChoice, rpEd)' BY DEF Fronted, Front, Shown
<1> QED BY <1>1, <1>2 DEF Fronted, Front

LEMMA TypeTextKeeps == ReplInv /\ TypeText => ReplInv'
<1> SUFFICES ASSUME Fronted, Back, TypeText PROVE Fronted' /\ Back'
  BY InvParts, InvPartsNext
<1>1. PICK b \in {"", "text", "menu"} : rpEd' = [rpEd EXCEPT !.buf = b] BY DEF TypeText
<1>2. /\ rpEd' \in EdT /\ rpEd'.stash = rpEd.stash /\ rpEd'.prompt = rpEd.prompt
      /\ rpEd'.chooser = rpEd.chooser /\ rpEd'.reading = rpEd.reading
  BY <1>1 DEF Fronted, Front, EdT
<1>3. UNCHANGED <<rpLoop, rpPoll, rpPrompt, rpLatch, rpChoice, rpShut, rpTrack, rpCool, rpHeld, rpFaults>>
  BY DEF TypeText
<1>4. Shown(rpLoop, rpPoll, rpChoice, rpEd)'
  BY <1>2, <1>3 DEF Fronted, Front, Shown
<1>5. Fronted' BY <1>2, <1>3, <1>4 DEF Fronted, Front
<1> QED BY <1>3, <1>5 DEF Back

LEMMA EnterKeeps == ReplInv /\ Enter => ReplInv'
<1> SUFFICES ASSUME Fronted, Back, Enter PROVE Fronted' /\ rpShut' \in BOOLEAN
  BY InvParts, InvPartsNext DEF Enter, Back
<1>0. rpShut \in BOOLEAN /\ rpEd \in EdT BY DEF Back, Fronted, Front
<1>s. Submitted(rpEd) \in EdT /\ Submitted(rpEd).stash = rpEd.stash BY <1>0, SubmittedFacts
<1>1. CASE rpChoice # NoOwner /\ \E pick \in {"deny", "more", "grant"} : Picked(rpChoice, pick)
  <2>1. PICK pick \in {"deny", "more", "grant"} : Picked(rpChoice, pick) BY <1>1
  <2>2. PICK o \in Owners : o = rpChoice BY <1>1 DEF Fronted, Front
  <2>3. rpPrompt[o].at # "none" BY <2>2 DEF Fronted, Front, Shared, Owners
  <2>4. rpPrompt[o] \in PromptT /\ rpPrompt[o].hold \in Holds BY <2>3, OnlyPrompt
  <2> DEFINE at == IF pick = "grant" THEN "presence" ELSE "resolve"
             p == [rpPrompt[o] EXCEPT !.at = at, !.pick = pick]
  <2>5. /\ rpPrompt' = [rpPrompt EXCEPT ![o].at = at, ![o].pick = pick]
        /\ rpChoice' = NoOwner /\ rpEd' = Submitted(rpEd)
        /\ UNCHANGED <<rpLoop, rpPoll, rpLatch, rpShut, rpTrack, rpCool>>
    BY <2>1, <2>2 DEF Picked
  <2>6. at \in {"presence", "resolve"} OBVIOUS
  <2> HIDE DEF at
  <2>7. rpPrompt' = [rpPrompt EXCEPT ![o] = p] BY <2>5 DEF Fronted, Front
  <2>8. p \in PromptT /\ p.at \notin {"none", "choice"} /\ p.hold \in Holds
    BY <2>4, <2>6 DEF PromptT
  <2> HIDE DEF p
  <2> QED BY <1>0, <1>s, <2>3, <2>5, <2>7, <2>8, PromptMoves
<1>2. CASE rpChoice = NoOwner /\ IdleRead /\ \E kind \in LineKinds : IdleLine(kind)
  <2>1. PICK kind \in LineKinds : IdleLine(kind) BY <1>2
  <2>2. rpLoop.at = "idle" BY <1>2 DEF IdleRead
  <2>3. Dispatches(kind) \in {"idle", "kill", "closing", "chat", "meta", "connect", "quit"}
    BY DEF Dispatches, LineKinds
  <2>4. CASE Dispatches(kind) = "closing"
    <3>1. LoopEnds /\ rpTrack' = rpTrack BY <2>1, <2>4 DEF IdleLine
    <3>2. AtLoop("closing", NoHold) \in LoopT /\ AtLoop("closing", NoHold).at = "closing"
      BY AtLoopFacts
    <3>3. rpTrack' \in TrackT BY <3>1 DEF Fronted, Front
    <3> QED BY <2>2, <3>1, <3>2, <3>3, OnCloseKeeps DEF LoopEnds
  <2>5. CASE Dispatches(kind) = "idle"
    <3> DEFINE e == ShowIdle(Submitted(rpEd))
    <3>1. /\ rpEd' = e
          /\ UNCHANGED <<rpLoop, rpPoll, rpPrompt, rpLatch, rpChoice, rpShut, rpTrack, rpCool>>
      BY <2>1, <2>5 DEF IdleLine
    <3>2. e \in EdT /\ e.reading /\ e.prompt = "idle" /\ e.stash = rpEd.stash
      BY <1>s, ShowIdleFacts
    <3> HIDE DEF e
    <3>3. Shown(rpLoop, rpPoll, rpChoice, rpEd)' BY <1>2, <3>1, <3>2 DEF Fronted, Front, Shown
    <3>4. Fronted' BY <3>1, <3>2, <3>3 DEF Fronted, Front
    <3> QED BY <1>0, <3>1, <3>4
  <2>6. CASE Dispatches(kind) \in {"kill", "chat", "meta", "connect", "quit"}
    <3>1. /\ rpLoop' = AtLoop(Dispatches(kind), NoHold) /\ rpEd' = Submitted(rpEd)
          /\ UNCHANGED <<rpPoll, rpPrompt, rpLatch, rpChoice, rpShut, rpTrack, rpCool>>
      BY <2>1, <2>6 DEF IdleLine
    <3>2. rpLoop' \in LoopT /\ rpLoop'.at = Dispatches(kind) BY <2>6, <3>1, AtLoopFacts
    <3>3. Fronted' BY <1>2, <1>s, <2>2, <2>6, <3>1, <3>2, LoopMoves
    <3> QED BY <1>0, <3>1, <3>3
  <2> QED BY <2>3, <2>4, <2>5, <2>6
<1>3. CASE /\ rpChoice = NoOwner /\ ~IdleRead /\ rpEd' = Submitted(rpEd)
           /\ UNCHANGED <<rpLoop, rpPoll, rpPrompt, rpLatch, rpChoice, rpShut, rpTrack, rpCool>>
  <2>1. Shown(rpLoop, rpPoll, rpChoice, rpEd)'
    BY <1>3, <1>s DEF Fronted, Front, Shown, IdleRead
  <2>2. Fronted' BY <1>3, <1>s, <2>1 DEF Fronted, Front
  <2> QED BY <1>0, <1>3, <2>2
<1> QED BY <1>1, <1>2, <1>3 DEF Enter

LEMMA CloseTarget ==
    ASSUME Fronted
    PROVE  LET lp == IF IdleRead THEN AtLoop("closing", NoHold) ELSE rpLoop IN
           lp \in LoopT /\ (\/ lp.at = "closing" /\ rpLoop.at # "prompt"
                            \/ lp = rpLoop /\ rpLoop.at # "idle")
<1>1. AtLoop("closing", NoHold) \in LoopT /\ AtLoop("closing", NoHold).at = "closing"
  BY AtLoopFacts
<1>2. rpLoop \in LoopT BY DEF Fronted, Front
<1> QED BY <1>1, <1>2 DEF IdleRead

LEMMA CtrlCKeeps == ReplInv /\ CtrlC => ReplInv'
<1> SUFFICES ASSUME Fronted, Back, CtrlC PROVE Fronted' /\ rpShut' \in BOOLEAN
  BY InvParts, InvPartsNext DEF CtrlC, Back
<1>0. rpShut \in BOOLEAN BY DEF Back
<1>1. CASE /\ rpLoop.at \in {"connect", "kill", "killwait"}
           /\ rpLoop' = [rpLoop EXCEPT !.abort = TRUE]
           /\ UNCHANGED <<rpPoll, rpPrompt, rpLatch, rpChoice, rpEd, rpShut, rpTrack, rpCool>>
  <2>1. rpLoop' \in LoopT /\ rpLoop'.at = rpLoop.at BY <1>1 DEF Fronted, Front, LoopT
  <2>2. rpEd' \in EdT /\ rpEd'.stash = rpEd.stash BY <1>1 DEF Fronted, Front
  <2>3. Fronted' BY <1>1, <2>1, <2>2, LoopMoves
  <2> QED BY <1>0, <1>1, <2>3
<1>2. CASE rpChoice # NoOwner /\ PromptEnds(rpChoice, "ok")
  <2>1. PICK o \in Owners : o = rpChoice BY <1>2 DEF Fronted, Front
  <2>2. rpPrompt[o].at # "none" BY <2>1 DEF Fronted, Front, Shared, Owners
  <2> QED BY <1>0, <1>2, <2>1, <2>2, PromptEndsKeeps
<1>3. CASE OnClose(IF IdleRead THEN AtLoop("closing", NoHold) ELSE rpLoop) /\ rpTrack' = rpTrack
  <2>1. rpTrack' \in TrackT BY <1>3 DEF Fronted, Front
  <2> QED BY <1>3, <2>1, CloseTarget, OnCloseKeeps
<1> QED BY <1>1, <1>2, <1>3 DEF CtrlC

LEMMA CtrlDKeeps == ReplInv /\ CtrlD => ReplInv'
<1> SUFFICES ASSUME Fronted, Back, CtrlD PROVE Fronted' /\ rpShut' \in BOOLEAN
  BY InvParts, InvPartsNext DEF CtrlD, Back
<1>1. rpTrack' \in TrackT BY DEF Fronted, Front, CtrlD
<1> QED BY <1>1, CloseTarget, OnCloseKeeps DEF CtrlD
LEMMA BootEndsKeeps == ReplInv /\ BootEnds => ReplInv'
<1> SUFFICES ASSUME Fronted, Back, BootEnds PROVE Fronted' /\ rpFaults' \in 0..MaxFaults
  BY InvParts, InvPartsNext DEF BootEnds, Back
<1>1. PICK err \in Errors \cup {"ok"} : (IF err = "ok" THEN Answers ELSE Fails(err)) /\ LoopBack(err)
  BY DEF BootEnds
<1>2. rpFaults' \in 0..MaxFaults BY <1>1, FailsTyped
<1>3. Fronted' BY <1>1, LoopBackKeeps DEF BootEnds
<1> QED BY <1>2, <1>3

LEMMA DispatchEndsKeeps == ReplInv /\ DispatchEnds => ReplInv'
<1> SUFFICES ASSUME Fronted, Back, DispatchEnds PROVE Fronted' /\ rpFaults' \in 0..MaxFaults
  BY InvParts, InvPartsNext DEF DispatchEnds, Back
<1>1. PICK err : LoopBack(err) BY DEF DispatchEnds
<1>2. rpFaults' \in 0..MaxFaults BY FailsTyped DEF DispatchEnds
<1>3. Fronted' BY <1>1, LoopBackKeeps DEF DispatchEnds
<1> QED BY <1>2, <1>3

LEMMA KillKeeps == ReplInv /\ (KillWaits \/ KillRetries) => ReplInv'
<1> SUFFICES ASSUME Fronted, Back, KillWaits \/ KillRetries PROVE Fronted' /\ rpFaults' \in 0..MaxFaults
  BY InvParts, InvPartsNext DEF KillWaits, KillRetries, Back
<1>0. rpEd \in EdT BY DEF Fronted, Front
<1>1. CASE KillWaits
  <2>1. rpFaults' \in 0..MaxFaults BY <1>1, FailsTyped DEF KillWaits
  <2>2. rpLoop' = AtLoop("killwait", NoHold) BY <1>1 DEF KillWaits
  <2>3. rpLoop' \in LoopT /\ rpLoop'.at = "killwait" BY <2>2, AtLoopFacts
  <2>4. Fronted' BY <1>0, <1>1, <2>3, LoopMoves DEF KillWaits
  <2> QED BY <2>1, <2>4
<1>2. CASE KillRetries
  <2>1. rpFaults' \in 0..MaxFaults BY <1>2 DEF KillRetries, Back
  <2>2. CASE rpLoop' = AtLoop("kill", NoHold) /\ UNCHANGED <<rpEd, rpTrack>>
    <3>1. rpLoop' \in LoopT /\ rpLoop'.at = "kill" BY <2>2, AtLoopFacts
    <3> QED BY <1>0, <1>2, <2>1, <2>2, <3>1, LoopMoves DEF KillRetries
  <2>3. CASE \E err \in {"reject", "deadline"} : LoopBack(err)
    <3>1. PICK err : LoopBack(err) BY <2>3
    <3> QED BY <1>2, <2>1, <3>1, LoopBackKeeps DEF KillRetries
  <2> QED BY <1>2, <2>2, <2>3 DEF KillRetries
<1> QED BY <1>1, <1>2

LEMMA ChatHeldKeeps == ReplInv /\ ChatHeld => ReplInv'
<1> SUFFICES ASSUME Fronted, Back, ChatHeld PROVE Fronted' /\ Back'
  BY InvParts, InvPartsNext
<1>1. PICK h \in Holds : /\ rpHeld' = [rpHeld EXCEPT ![h] = IF @ = "none" THEN "plain" ELSE @]
                         /\ rpLoop' = AtLoop("status", h)
  BY DEF ChatHeld
<1>2. rpHeld' \in [Holds -> Kinds \cup {"none", "gone"}] BY <1>1 DEF Back, Kinds
<1>3. rpLoop' \in LoopT /\ rpLoop'.at = "status" /\ rpLoop'.hold \in Holds BY <1>1, AtLoopFacts
<1>4. rpEd \in EdT BY DEF Fronted, Front
<1>5. Fronted' BY <1>3, <1>4, LoopMoves DEF ChatHeld
<1>6. rpShut' = rpShut /\ rpFaults' = rpFaults BY DEF ChatHeld
<1> QED BY <1>2, <1>5, <1>6 DEF Back

\* A path draws hold h under the free latch.
LEMMA Draws ==
    ASSUME Fronted, NEW h \in Holds, NEW k \in Kinds, NEW o \in Owners, rpLatch = NoHold, rpLatch' = h,
           rpPrompt' = [rpPrompt EXCEPT ![o] =
                           [NoPrompt EXCEPT !.at = "choice", !.hold = h, !.kind = k]],
           rpChoice' = o, rpEd' \in EdT, rpEd'.chooser,
           \/ /\ o = "loop" /\ rpLoop.at = "status" /\ rpLoop' = AtLoop("prompt", h)
              /\ rpPoll' = rpPoll /\ rpEd'.stash = rpEd.stash
           \/ o = "poll" /\ rpPoll = "status" /\ rpLoop' = rpLoop /\ rpPoll' = "prompt",
           UNCHANGED <<rpTrack, rpCool>>
    PROVE  Fronted'
<1> DEFINE p == [NoPrompt EXCEPT !.at = "choice", !.hold = h, !.kind = k]
<1>1. p \in PromptT /\ p.at = "choice" /\ p.hold = h BY NoPromptFacts
<1> HIDE DEF p
<1>2. /\ rpPrompt["loop"].at = "none" /\ rpPrompt["poll"].at = "none"
      /\ rpLoop.at # "prompt" /\ rpPoll # "prompt"
  BY DEF Fronted, Front, Shared
<1>3. /\ rpPrompt' \in [Owners -> PromptT] /\ rpPrompt'[o] = p
      /\ \A q \in Owners \ {o} : rpPrompt'[q] = rpPrompt[q]
  BY <1>1, PromptUpdate DEF Fronted, Front, p
<1>4. h # NoHold BY ReplAssumption
<1>5. CASE o = "loop"
  <2>1. rpLoop' = AtLoop("prompt", h) /\ rpPoll' = rpPoll /\ rpEd'.stash = rpEd.stash BY <1>5
  <2>2. rpLoop' \in LoopT /\ rpLoop'.at = "prompt" /\ rpLoop'.hold = h BY <2>1, AtLoopFacts
  <2>3. Shared(rpLoop, rpPoll, rpPrompt, rpLatch, rpChoice)'
    BY <1>1, <1>2, <1>3, <1>4, <1>5, <2>1, <2>2 DEF Shared, Owners
  <2>4. Shown(rpLoop, rpPoll, rpChoice, rpEd)'
    BY <1>2, <2>1, <2>2 DEF Fronted, Front, Shown
  <2> QED BY <1>3, <2>1, <2>2, <2>3, <2>4 DEF Fronted, Front
<1>6. CASE o = "poll"
  <2>1. rpPoll = "status" /\ rpLoop' = rpLoop /\ rpPoll' = "prompt" BY <1>6
  <2>2. Shared(rpLoop, rpPoll, rpPrompt, rpLatch, rpChoice)'
    BY <1>1, <1>2, <1>3, <1>4, <1>6, <2>1 DEF Fronted, Front, Shared, Owners
  <2>3. Shown(rpLoop, rpPoll, rpChoice, rpEd)' BY <2>1 DEF Shown
  <2> QED BY <1>3, <2>1, <2>2, <2>3 DEF Fronted, Front
<1> QED BY <1>5, <1>6 DEF Owners

LEMMA ChatStatusKeeps == ReplInv /\ ChatStatus => ReplInv'
<1> SUFFICES ASSUME Fronted, Back, ChatStatus PROVE Fronted' /\ rpFaults' \in 0..MaxFaults
  BY InvParts, InvPartsNext DEF ChatStatus, Back
<1> DEFINE h == rpLoop.hold
<1>1. rpLoop.at = "status" /\ UNCHANGED <<rpPoll, rpShut, rpCool, rpHeld>> BY DEF ChatStatus
<1>2. h \in Holds /\ rpEd \in EdT BY <1>1 DEF Fronted, Front, Shared
<1>3. rpFaults' \in 0..MaxFaults BY FailsTyped DEF ChatStatus
<1>4. CASE LoopBack("ok") /\ UNCHANGED <<rpLatch, rpPrompt, rpChoice>>
  BY <1>1, <1>3, <1>4, LoopBackKeeps
<1>5. CASE /\ rpHeld[h] \in Kinds /\ LatchFree(h)
           /\ rpLatch' = h
           /\ rpLoop' = AtLoop("prompt", h)
           /\ rpPrompt' = [rpPrompt EXCEPT !["loop"] =
                  [NoPrompt EXCEPT !.at = "choice", !.hold = h, !.kind = rpHeld[h]]]
           /\ rpChoice' = "loop"
           /\ rpEd' = Chooser(rpEd)
           /\ UNCHANGED rpTrack
  <2>1. rpEd' \in EdT /\ rpEd'.chooser /\ rpEd'.stash = rpEd.stash BY <1>2, <1>5, ChooserFacts
  <2>2. rpLatch = NoHold BY <1>5 DEF LatchFree
  <2> HIDE DEF h
  <2> QED BY <1>1, <1>2, <1>3, <1>5, <2>1, <2>2, Draws DEF Owners
<1> QED BY <1>4, <1>5 DEF ChatStatus

LEMMA QuitEndsKeeps == ReplInv /\ QuitEnds => ReplInv'
<1> SUFFICES ASSUME Fronted, Back, QuitEnds
             PROVE  Fronted' /\ rpShut' \in BOOLEAN /\ rpFaults' \in 0..MaxFaults
  BY InvParts, InvPartsNext DEF QuitEnds, Back
<1>1. PICK err \in Errors \cup {"ok"} : /\ IF err = "ok" THEN Answers ELSE Fails(err)
                                       /\ rpTrack' = NoteFailure(err, "foreground")
  BY DEF QuitEnds
<1>2. rpFaults' \in 0..MaxFaults BY <1>1, FailsTyped
<1>3. rpTrack' \in TrackT BY <1>1, NoteFailureTyped DEF Fronted, Front
<1>4. AtLoop("closing", NoHold) \in LoopT /\ AtLoop("closing", NoHold).at = "closing"
  BY AtLoopFacts
<1>5. rpLoop.at = "quit" /\ OnClose(AtLoop("closing", NoHold)) BY DEF QuitEnds, LoopEnds
<1> QED BY <1>2, <1>3, <1>4, <1>5, OnCloseKeeps

LEMMA ReplReturnsKeeps == ReplInv /\ ReplReturns => ReplInv'
<1> SUFFICES ASSUME Fronted, Back, ReplReturns PROVE Fronted'
  BY InvParts, InvPartsNext DEF ReplReturns, Back
<1>1. rpLoop' = AtLoop("done", NoHold) BY DEF ReplReturns
<1>2. rpLoop' \in LoopT /\ rpLoop'.at = "done" BY <1>1, AtLoopFacts
<1>3. rpEd \in EdT BY DEF Fronted, Front
<1> QED BY <1>2, <1>3, LoopMoves DEF ReplReturns
\* The poll moves between its places outside a confirmation.
LEMMA PollMoves ==
    ASSUME Fronted, rpPoll \in {"sleep", "status"}, rpPoll' \in {"sleep", "status", "done"},
           rpCool' \in [Holds -> 0..CooldownTicks], rpTrack' \in TrackT,
           UNCHANGED <<rpLoop, rpPrompt, rpLatch, rpChoice, rpEd>>
    PROVE  Fronted'
<1>1. Shared(rpLoop, rpPoll, rpPrompt, rpLatch, rpChoice)' BY DEF Fronted, Front, Shared
<1>2. Shown(rpLoop, rpPoll, rpChoice, rpEd)' BY DEF Fronted, Front, Shown
<1> QED BY <1>1, <1>2 DEF Fronted, Front

LEMMA PollTickKeeps == ReplInv /\ PollTick => ReplInv'
<1> SUFFICES ASSUME Fronted, Back, PollTick PROVE Fronted'
  BY InvParts, InvPartsNext DEF PollTick, Back
<1>1. rpCool \in [Holds -> 0..CooldownTicks] /\ rpTrack \in TrackT BY DEF Fronted, Front
<1>2. Aged \in [Holds -> 0..CooldownTicks] BY <1>1, ReplAssumption DEF Aged
<1>3. rpCool' \in [Holds -> 0..CooldownTicks] BY <1>1, <1>2 DEF PollTick
<1>4. rpPoll' \in {"sleep", "status", "done"} BY DEF PollTick
<1> QED BY <1>1, <1>3, <1>4, PollMoves DEF PollTick

LEMMA PollStatusKeeps == ReplInv /\ PollStatus => ReplInv'
<1> SUFFICES ASSUME Fronted, Back, PollStatus PROVE Fronted' /\ rpFaults' \in 0..MaxFaults
  BY InvParts, InvPartsNext DEF PollStatus, Back
<1>1. rpPoll = "status" /\ UNCHANGED <<rpLoop, rpShut, rpCool, rpHeld>> BY DEF PollStatus
<1>2. rpCool \in [Holds -> 0..CooldownTicks] /\ rpTrack \in TrackT /\ rpEd \in EdT
  BY DEF Fronted, Front
<1>3. rpFaults' \in 0..MaxFaults BY FailsTyped DEF PollStatus
<1>4. CASE /\ rpPoll' = "sleep" /\ UNCHANGED <<rpPrompt, rpLatch, rpChoice, rpEd>>
           /\ rpTrack' = rpTrack \/ \E err \in Errors : rpTrack' = NoteFailure(err, "background")
  <2>1. rpTrack' \in TrackT BY <1>2, <1>4, NoteFailureTyped
  <2> QED BY <1>1, <1>2, <1>3, <1>4, <2>1, PollMoves
<1>5. CASE \E h \in Holds :
             /\ Surfaces(h) /\ LatchFree(h) /\ rpPoll' = "prompt" /\ rpLatch' = h
             /\ rpPrompt' = [rpPrompt EXCEPT !["poll"] =
                   [NoPrompt EXCEPT !.at = "choice", !.hold = h, !.kind = rpHeld[h]]]
             /\ rpChoice' = "poll"
             /\ rpEd' = Chooser(Erased(rpEd))
             /\ rpTrack' = rpTrack
  <2>1. PICK h \in Holds :
             /\ Surfaces(h) /\ LatchFree(h) /\ rpPoll' = "prompt" /\ rpLatch' = h
             /\ rpPrompt' = [rpPrompt EXCEPT !["poll"] =
                   [NoPrompt EXCEPT !.at = "choice", !.hold = h, !.kind = rpHeld[h]]]
             /\ rpChoice' = "poll"
             /\ rpEd' = Chooser(Erased(rpEd))
             /\ rpTrack' = rpTrack
    BY <1>5
  <2>2. rpEd' \in EdT /\ rpEd'.chooser BY <1>2, <2>1, ErasedFacts, ChooserFacts
  <2>3. rpLatch = NoHold /\ rpHeld[h] \in Kinds BY <2>1 DEF LatchFree, Surfaces
  <2> QED BY <1>1, <1>3, <2>1, <2>2, <2>3, Draws DEF Owners
<1> QED BY <1>4, <1>5 DEF PollStatus

\* The engine is asked; the open confirmation waits for the answer.
LEMMA PromptWaits ==
    ASSUME Fronted, NEW o \in Owners, rpPrompt[o].at \notin {"none", "choice"},
           NEW at \in {"resolve", "recheck", "cascade"}, NEW h \in Holds,
           rpPrompt' = [rpPrompt EXCEPT ![o] = [@ EXCEPT !.at = at, !.hold = h]],
           UNCHANGED <<rpLoop, rpPoll, rpLatch, rpChoice, rpEd, rpTrack, rpCool>>
    PROVE  Fronted'
<1> DEFINE p == [rpPrompt[o] EXCEPT !.at = at, !.hold = h]
<1>1. rpPrompt[o] \in PromptT BY DEF Fronted, Front
<1>2. p \in PromptT /\ p.at = at /\ p.hold = h BY <1>1 DEF PromptT
<1>3. rpPrompt' = [rpPrompt EXCEPT ![o] = p] BY DEF Fronted, Front
<1>4. rpChoice = NoOwner BY OnlyPrompt
<1>5. rpEd \in EdT BY DEF Fronted, Front
<1> HIDE DEF p
<1> QED BY <1>2, <1>3, <1>4, <1>5, PromptMoves

LEMMA SamePrompt ==
    ASSUME Fronted, NEW o \in Owners, NEW at
    PROVE  [rpPrompt EXCEPT ![o].at = at]
             = [rpPrompt EXCEPT ![o] = [@ EXCEPT !.at = at, !.hold = rpPrompt[o].hold]]
<1>1. rpPrompt \in [Owners -> PromptT] /\ rpPrompt[o] \in PromptT BY DEF Fronted, Front
<1>2. [rpPrompt[o] EXCEPT !.at = at] = [rpPrompt[o] EXCEPT !.at = at, !.hold = rpPrompt[o].hold]
  BY <1>1 DEF PromptT
<1> QED BY <1>1, <1>2

LEMMA PresenceKeeps == ASSUME ReplInv, NEW o \in Owners, PresenceAnswers(o) PROVE ReplInv'
<1> DEFINE p == rpPrompt[o]
<1>0. Fronted /\ Back BY InvParts
<1>1. p.at = "presence" /\ UNCHANGED <<rpHeld, rpFaults>> BY DEF PresenceAnswers
<1>2. p.hold \in Holds /\ p \in PromptT BY <1>0, <1>1, OnlyPrompt
<1>3. p.kind \in Kinds BY <1>2 DEF PromptT
<1>4. CASE /\ rpPrompt' = [rpPrompt EXCEPT ![o].at = "resolve"]
           /\ UNCHANGED <<rpLoop, rpPoll, rpLatch, rpChoice, rpEd, rpShut, rpTrack, rpCool>>
  <2>1. rpPrompt' = [rpPrompt EXCEPT ![o] = [@ EXCEPT !.at = "resolve", !.hold = p.hold]]
    BY <1>0, <1>4, SamePrompt
  <2>2. Fronted' BY <1>0, <1>1, <1>2, <1>4, <2>1, PromptWaits
  <2>3. Back' BY <1>0, <1>1, <1>4 DEF Back
  <2> QED BY <2>2, <2>3, InvPartsNext
<1>5. CASE ReadChoice(o, p.hold, p.kind, rpEd)
  <2>1. Fronted' /\ rpShut' = rpShut BY <1>0, <1>1, <1>2, <1>3, <1>5, ReadChoiceKeeps
  <2>2. Back' BY <1>0, <1>1, <2>1 DEF Back
  <2> QED BY <2>1, <2>2, InvPartsNext
<1> QED BY <1>4, <1>5 DEF PresenceAnswers
LEMMA ResolveAnswersKeeps == ASSUME ReplInv, NEW o \in Owners, ResolveAnswers(o) PROVE ReplInv'
<1> DEFINE p == rpPrompt[o]
           Still == UNCHANGED <<rpLoop, rpPoll, rpLatch, rpChoice, rpEd, rpShut, rpTrack, rpCool>>
<1>0. Fronted /\ Back BY InvParts
<1>1. p.at = "resolve" BY DEF ResolveAnswers
<1>2. p.hold \in Holds /\ p \in PromptT BY <1>0, <1>1, OnlyPrompt
<1>3. p.kind \in Kinds BY <1>2 DEF PromptT
<1>4. rpHeld \in [Holds -> Kinds \cup {"none", "gone"}] /\ rpShut \in BOOLEAN BY <1>0 DEF Back
<1>5. rpFaults' \in 0..MaxFaults BY <1>0, FailsTyped DEF ResolveAnswers
<1>6. rpHeld' \in [Holds -> Kinds \cup {"none", "gone"}]
  BY <1>2, <1>4 DEF ResolveAnswers, Kinds
<1>7. /\ Fronted /\ o \in Owners /\ p.at # "none" BY <1>0, <1>1
<1>8. CASE \E err : PromptEnds(o, err)
  <2>1. PICK err : PromptEnds(o, err) BY <1>8
  <2>2. Fronted' /\ rpShut' = rpShut BY <1>7, <2>1, PromptEndsKeeps
  <2>3. Back' BY <1>4, <1>5, <1>6, <2>2 DEF Back
  <2> QED BY <2>2, <2>3, InvPartsNext
<1>9. CASE ReadChoice(o, p.hold, p.kind, rpEd)
  <2>1. Fronted' /\ rpShut' = rpShut BY <1>0, <1>1, <1>2, <1>3, <1>9, ReadChoiceKeeps
  <2>2. Back' BY <1>4, <1>5, <1>6, <2>1 DEF Back
  <2> QED BY <2>1, <2>2, InvPartsNext
<1>10. CASE Still /\ \E at \in {"recheck", "cascade"}, h \in Holds :
                rpPrompt' = [rpPrompt EXCEPT ![o] = [@ EXCEPT !.at = at, !.hold = h]]
  <2>1. PICK at \in {"recheck", "cascade"}, h \in Holds :
                rpPrompt' = [rpPrompt EXCEPT ![o] = [@ EXCEPT !.at = at, !.hold = h]]
    BY <1>10
  <2>2. Fronted' BY <1>0, <1>1, <1>10, <2>1, PromptWaits
  <2>3. Back' BY <1>4, <1>5, <1>6, <1>10 DEF Back
  <2> QED BY <2>2, <2>3, InvPartsNext
<1>11. CASE Still /\ rpPrompt' = [rpPrompt EXCEPT ![o].at = "recheck"]
  <2>1. rpPrompt' = [rpPrompt EXCEPT ![o] = [@ EXCEPT !.at = "recheck", !.hold = p.hold]]
    BY <1>0, <1>11, SamePrompt
  <2> HIDE DEF Still
  <2> QED BY <1>2, <1>10, <1>11, <2>1
<1>12. CASE Still /\ rpPrompt' = [rpPrompt EXCEPT ![o].at = "cascade"]
  <2>1. rpPrompt' = [rpPrompt EXCEPT ![o] = [@ EXCEPT !.at = "cascade", !.hold = p.hold]]
    BY <1>0, <1>12, SamePrompt
  <2> HIDE DEF Still
  <2> QED BY <1>2, <1>10, <1>12, <2>1
<1>13. CASE Still /\ \E h \in Holds : rpPrompt' = [rpPrompt EXCEPT ![o].at = "cascade", ![o].hold = h]
  <2>1. PICK h \in Holds : rpPrompt' = [rpPrompt EXCEPT ![o].at = "cascade", ![o].hold = h]
    BY <1>13
  <2>2. rpPrompt \in [Owners -> PromptT] BY <1>0 DEF Fronted, Front
  <2>3. rpPrompt' = [rpPrompt EXCEPT ![o] = [@ EXCEPT !.at = "cascade", !.hold = h]]
    BY <2>1, <2>2
  <2> HIDE DEF Still
  <2> QED BY <1>10, <1>13, <2>3
<1> QED BY <1>8, <1>9, <1>11, <1>12, <1>13 DEF ResolveAnswers

LEMMA RecordAnswersKeeps == ASSUME ReplInv, NEW o \in Owners, RecordAnswers(o) PROVE ReplInv'
<1> DEFINE p == rpPrompt[o]
<1>0. Fronted /\ Back BY InvParts
<1>1. p.at \in {"recheck", "cascade"} /\ rpHeld' = rpHeld BY DEF RecordAnswers
<1>2. p.hold \in Holds /\ p \in PromptT BY <1>0, <1>1, OnlyPrompt
<1>3. p.kind \in Kinds BY <1>2 DEF PromptT
<1>4. rpFaults' \in 0..MaxFaults BY <1>0, FailsTyped DEF RecordAnswers
<1>5. CASE \E k \in Kinds : ReadChoice(o, p.hold, k, rpEd)
  <2>1. PICK k \in Kinds : ReadChoice(o, p.hold, k, rpEd) BY <1>5
  <2>2. Fronted' /\ rpShut' = rpShut BY <1>0, <1>1, <1>2, <2>1, ReadChoiceKeeps
  <2>3. Back' BY <1>0, <1>1, <1>4, <2>2 DEF Back
  <2> QED BY <2>2, <2>3, InvPartsNext
<1>6. CASE PromptEnds(o, "ok")
  <2>1. Fronted' /\ rpShut' = rpShut BY <1>0, <1>1, <1>6, PromptEndsKeeps
  <2>2. Back' BY <1>0, <1>1, <1>4, <2>1 DEF Back
  <2> QED BY <2>1, <2>2, InvPartsNext
<1> QED BY <1>3, <1>5, <1>6 DEF RecordAnswers

LEMMA ProbeKeeps == ReplInv /\ Probe => ReplInv'
<1> SUFFICES ASSUME Fronted, Back, Probe PROVE Fronted' /\ rpFaults' \in 0..MaxFaults
  BY InvParts, InvPartsNext DEF Probe, Back
<1>1. rpFaults' \in 0..MaxFaults BY FailsTyped DEF Probe, Errors
<1>2. rpTrack \in TrackT BY DEF Fronted, Front
<1>3. rpTrack' \in TrackT
  <2>1. ASSUME NEW x \in {"none", "sleep", "health", "handshake"}, rpTrack' = [rpTrack EXCEPT !.probe = x]
        PROVE  rpTrack' \in TrackT
    BY <1>2, <2>1 DEF TrackT
  <2>2. ASSUME rpTrack' = [online |-> Active, probe |-> "none"] PROVE rpTrack' \in TrackT
    BY <2>2 DEF TrackT, Active
  <2> QED BY <2>1, <2>2 DEF Probe
<1>4. Fronted' BY <1>3 DEF Probe, Fronted, Front
<1> QED BY <1>1, <1>4

LEMMA EngineMovesKeeps == ReplInv /\ EngineMoves => ReplInv'
<1> SUFFICES ASSUME Fronted, Back, EngineMoves PROVE Fronted' /\ Back'
  BY InvParts, InvPartsNext
<1>1. rpHeld' \in [Holds -> Kinds \cup {"none", "gone"}] BY DEF EngineMoves, Back, Kinds
<1>2. Fronted' BY DEF EngineMoves, Fronted
<1> QED BY <1>1, <1>2 DEF EngineMoves, Back

LEMMA ReplStep == ReplInv /\ [ReplNext]_rpVars => ReplInv'
<1> SUFFICES ASSUME ReplInv, [ReplNext]_rpVars PROVE ReplInv' OBVIOUS
<1>1. CASE TypeText \/ Enter \/ CtrlC \/ CtrlD
  BY <1>1, TypeTextKeeps, EnterKeeps, CtrlCKeeps, CtrlDKeeps
<1>2. CASE LoopStep
  BY <1>2, BootEndsKeeps, DispatchEndsKeeps, KillKeeps, ChatHeldKeeps, ChatStatusKeeps,
     QuitEndsKeeps, ReplReturnsKeeps DEF LoopStep
<1>3. CASE PollStep BY <1>3, PollTickKeeps, PollStatusKeeps DEF PollStep
<1>4. CASE Probe \/ EngineMoves BY <1>4, ProbeKeeps, EngineMovesKeeps
<1>5. ASSUME NEW o \in Owners, PromptStep(o) PROVE ReplInv'
  BY <1>5, PresenceKeeps, ResolveAnswersKeeps, RecordAnswersKeeps DEF PromptStep
<1>6. CASE UNCHANGED rpVars
  <2>1. Fronted /\ Back BY InvParts
  <2>2. Fronted' BY <1>6, <2>1 DEF rpVars, Fronted
  <2>3. Back' BY <1>6, <2>1 DEF rpVars, Back
  <2> QED BY <2>2, <2>3, InvPartsNext
<1> QED BY <1>1, <1>2, <1>3, <1>4, <1>5, <1>6 DEF ReplNext

LEMMA ReplInvSound == ReplInv => ReplSound
<1> SUFFICES ASSUME ReplInv PROVE ReplSound OBVIOUS
<1>0. Fronted BY InvParts
<1> DEFINE S == {o \in Owners : rpPrompt[o].at # "none"}
<1>1. Cardinality(S) = IF rpLatch = NoHold THEN 0 ELSE 1
  <2>1. CASE rpLatch = NoHold
    <3>1. S = {} BY <1>0, <2>1 DEF Fronted, Front, Shared, Owners
    <3> QED BY <2>1, <3>1, FS_EmptySet
  <2>2. CASE rpLatch # NoHold
    <3>1. PICK o \in Owners : rpPrompt[o].at # "none"
      BY <1>0, <2>2 DEF Fronted, Front, Shared, Owners
    <3>2. \A q \in Owners \ {o} : rpPrompt[q].at = "none" BY <1>0, <3>1, OnlyPrompt
    <3>3. S = {o} BY <3>1, <3>2
    <3> QED BY <2>2, <3>3, FS_Singleton
  <2> QED BY <2>1, <2>2
<1>2. OnePrompt
  <2>1. \A o \in Owners : rpPrompt[o].at = "choice" <=> rpChoice = o
    BY <1>0 DEF Fronted, Front, Shared, Owners
  <2>2. rpChoice # NoOwner => rpEd.chooser BY <1>0 DEF Fronted, Front, Shown
  <2> QED BY <1>1, <2>1, <2>2 DEF OnePrompt
<1>3. IdleIsTypable
  <2> SUFFICES ASSUME rpLoop.at = "idle", \A o \in Owners : rpPrompt[o].at = "none"
               PROVE  rpEd.reading /\ rpEd.prompt = "idle" /\ rpEd.stash = "none"
    BY DEF IdleIsTypable, IdleRead
  <2>1. rpPoll # "prompt" BY <1>0 DEF Fronted, Front, Shared, Owners
  <2> QED BY <1>0, <2>1 DEF Fronted, Front, Shown
<1> QED BY <1>2, <1>3 DEF ReplSound, ReplInv

\* The loop and the poll never have two confirmations open, the one choice
\* read outstanding is that of the open one, and an idle line can be typed on,
\* whichever way keys, answers, timers and failures interleave (chat.ts
\* runChatRepl, poll.ts startPoll and PromptLatch, line-editor.ts).
THEOREM OnePromptAtATime == ReplSpec => []ReplSound
BY ReplInitInv, ReplStep, ReplInvSound, PTL DEF ReplSpec
-----------------------------------------------------------------------------
(* The engine's lifecycle: what holds in every state.                      *)

SceneT == [atomic: BOOLEAN, from: Origins, trouble: Troubles]

Live == {"boot", "serving", "silent", "stopping", "stranded"}

\* Places of an up before it spawned, and places where it gave up.
Early(s) ==
    \/ s.pc \in {"idle", "resolve", "scan", "classify", "claim", "fill", "lost", "guards",
                 "reread", "spawn"}
    \/ s.pc \in {"check", "unlink"} /\ s.code = "retry"
    \/ s.pc \in {"create", "merge", "rename"} /\ s.back = "reread"

GaveUp(s) == s.pc = "giveup" \/ (s.pc \in {"check", "unlink"} /\ s.code = "exit1")

\* An up between its claim and its pid record, and one that holds the slot.
Claims(s) ==
    \/ s.pc \in {"fill", "guards", "reread", "spawn", "pid"}
    \/ s.pc \in {"create", "merge", "rename"} /\ s.back = "reread"

\* What the places of an up say of what it has in memory.
UpShape(s, c) ==
    /\ s.pc \in {"classify", "claim", "fill", "lost", "check", "unlink", "guards", "create",
                 "merge", "rename", "reread", "spawn", "pid", "giveup", "wait", "served",
                 "found", "other"} => s.port \in Ports
    /\ s.pc \in {"lost", "check", "unlink"} => s.lost \in RunRecord
    /\ s.pc \in {"merge", "rename", "reread"} => c \in Config
    /\ s.pc = "rename" => s.text \in Config
    /\ s.pc = "spawn" => s.file \in Config /\ s.file.key \in Pids
    /\ s.pc = "idle" => s = IdleUp

\* An up and its daemon: one spawn each, and a daemon given up on is gone.
UpLife(s, q) ==
    /\ Early(s) => q.st = "none"
    /\ GaveUp(s) => q.st \in {"none", "dead"}
    /\ s.pc \in {"pid", "wait", "served"} => q.st # "none" /\ q.port = s.port

\* A record with a pid names a daemon that was spawned, and its port.
RecLife(r, dm) ==
    r # Absent /\ r.pid # Absent =>
        r.at = r.pid /\ dm[r.pid].st # "none" /\ dm[r.pid].port = r.port

DownLife(s, dm) ==
    /\ s.pc \in {"proof", "check", "unlink", "signal", "refuse", "escalate", "refuse2"} =>
           s.lost \in RunRecord /\ RecLife(s.lost, dm)
    /\ s.pc \in {"proof", "signal", "refuse", "escalate", "refuse2"} => s.lost.pid # Absent
    /\ s.pc \in {"refuse", "escalate", "refuse2"} =>
           dm[s.lost.pid].st \in {"stopping", "stranded", "dead"}
    /\ s.pc \in {"idle", "proof", "signal", "refuse", "escalate", "refuse2"} => ~s.done
    /\ s.done => s.lost \in RunRecord /\ s.lost.pid \in Pids /\ dm[s.lost.pid].st = "dead"

\* The slot: only the record's run may have a daemon.
Matches(r, lost) == r # Absent /\ IF lost.torn THEN r.torn ELSE ~r.torn /\ r.at = lost.at

SlotShared(r, dm) ==
    /\ \A p \in Pids : dm[p].st \in Live => r # Absent /\ p = r.at
    /\ \A p \in Pids : dm[p].st # "stranded"

UpSlot(u, s, r, dm) ==
    /\ Claims(s) \/ s.pc = "served" => r # Absent /\ r.at = u
    /\ Claims(s) => r.pid = Absent
    /\ s.pc = "lost" \/ (s.pc \in {"check", "unlink"} /\ s.code = "retry") =>
           ~s.lost.torn /\ s.lost.pid = s.lost.at
    /\ s.pc = "lost" => RecLife(s.lost, dm)
    /\ s.pc \in {"check", "unlink"} /\ s.code = "retry" => dm[s.lost.at].st = "dead"
    /\ s.pc \in {"check", "unlink"} /\ s.code = "exit1" => ~s.lost.torn /\ s.lost.at = u
    /\ s.pc = "unlink" => Matches(r, s.lost)

DownSlot(s, r, dm) ==
    /\ s.pc \in {"proof", "check", "unlink", "signal", "refuse", "escalate", "refuse2"} =>
           ~s.lost.torn /\ s.lost.pid # Absent
    /\ s.pc = "proof" /\ ~s.alive => dm[s.lost.pid].st = "dead"
    /\ s.pc \in {"check", "unlink"} => dm[s.lost.pid].st = "dead"
    /\ s.pc = "unlink" => Matches(r, s.lost)

\* A claim without a pid is young, and its run is inside its stretch.
Claimed(u, s, r) ==
    r # Absent /\ r.at = u /\ r.pid = Absent =>
        (Claims(s) \/ GaveUp(s)) /\ (r.torn => s.pc = "fill")

RecSlot(r) ==
    r # Absent => ~r.old /\ (r.pid = Absent => r.at \in Ups) /\ (r.torn => r.pid = Absent)

\* The key.
KeyScene == scene.atomic \/ scene.from # "edited"

HasKey(c, k) == c # Absent /\ c.key = k

UpKey(s, c, atomic) ==
    /\ s.file # Absent /\ s.file.key # Absent => HasKey(c, s.file.key)
    /\ s.pc = "rename" /\ c.key # Absent => s.text.key = c.key
    /\ ~atomic /\ s.pc = "create" /\ c = Absent => s.add.key # Absent
    /\ ~atomic /\ s.pc = "rename" => s.text.key # Absent

KeyShared(c, st, dm, atomic) ==
    /\ \A p \in Pids : dm[p].st # "none" => dm[p].key # Absent /\ HasKey(c, dm[p].key)
    /\ \A k \in st : k # Absent /\ HasKey(c, k)
    /\ ~atomic /\ c # Absent => c.key # Absent

SceneOK ==
    /\ scene \in SceneT
    /\ ~scene.atomic => scene.trouble = "none"
    /\ scene.trouble = "none" => ext = [p \in Ports |-> "none"]

\* One command at a time is inside a synchronous stretch.
OneStretch ==
    scene.atomic =>
        /\ \A u \in Ups : up[u].pc \notin Awaits =>
               /\ \A v \in Ups \ {u} : up[v].pc \in Awaits
               /\ \A d \in Downs : down[d].pc \in Awaits
        /\ \A d, e \in Downs : d # e => down[d].pc \in Awaits \/ down[e].pc \in Awaits

SlotInv ==
    /\ SlotShared(rec, dmn)
    /\ RecSlot(rec)
    /\ \A u \in Ups : UpSlot(u, up[u], rec, dmn) /\ Claimed(u, up[u], rec)
    /\ \A d \in Downs : DownSlot(down[d], rec, dmn)

KeyInv ==
    /\ KeyShared(conf, store, dmn, scene.atomic)
    /\ \A u \in Ups : UpKey(up[u], conf, scene.atomic)

LifeInv ==
    /\ LifeTypeOK
    /\ SceneOK
    /\ OneStretch
    /\ RecLife(rec, dmn)
    /\ \A u \in Ups : UpShape(up[u], conf) /\ UpLife(up[u], dmn[u])
    /\ \A d \in Downs : DownLife(down[d], dmn)
    /\ Undisrupted => SlotInv
    /\ KeyScene => KeyInv
-----------------------------------------------------------------------------
(* What a daemon may do next.                                              *)

\* A daemon keeps its port and its secrets, is spawned once and dies once.
Moves(dm, dn) ==
    \A p \in Pids :
        /\ dn[p].port = dm[p].port /\ dn[p].key = dm[p].key
        /\ dn[p].st = "none" <=> dm[p].st = "none"
        /\ dm[p].st = "dead" => dn[p].st = "dead"
        /\ dm[p].st \in {"stopping", "stranded", "dead"} => dn[p].st \in {"stopping", "stranded", "dead"}

DaemonsT == [Pids -> Daemon]

LEMMA MovesRefl == \A dm : Moves(dm, dm)
BY DEF Moves

LEMMA DaemonSt ==
    ASSUME NEW dm \in DaemonsT, NEW p \in Pids
    PROVE  dm[p] \in Daemon /\ dm[p].st \in Live \cup {"none", "dead"}
BY DEF DaemonsT, Daemon, Live

\* One daemon takes a step of its life.
LEMMA OneMoves ==
    ASSUME NEW dm \in DaemonsT, NEW p \in Pids, NEW x \in Live \cup {"none", "dead"},
           x = "none" <=> dm[p].st = "none",
           dm[p].st = "dead" => x = "dead",
           dm[p].st \in {"stopping", "stranded", "dead"} => x \in {"stopping", "stranded", "dead"}
    PROVE  LET dn == [dm EXCEPT ![p].st = x] IN
           /\ dn \in DaemonsT /\ Moves(dm, dn) /\ dn[p].st = x
           /\ \A q \in Pids \ {p} : dn[q] = dm[q]
<1> DEFINE dn == [dm EXCEPT ![p].st = x]
<1>1. dn[p] = [dm[p] EXCEPT !.st = x] /\ \A q \in Pids \ {p} : dn[q] = dm[q]
  BY DEF DaemonsT
<1>2. dm[p] \in Daemon BY DEF DaemonsT
<1>3. /\ dn[p] \in Daemon /\ dn[p].st = x
      /\ dn[p].port = dm[p].port /\ dn[p].key = dm[p].key
  BY <1>1, <1>2 DEF Daemon, Live
<1>4. dn \in DaemonsT BY <1>1, <1>3 DEF DaemonsT
<1>5. Moves(dm, dn)
  <2> SUFFICES ASSUME NEW q \in Pids
               PROVE /\ dn[q].port = dm[q].port /\ dn[q].key = dm[q].key
                     /\ dn[q].st = "none" <=> dm[q].st = "none"
                     /\ dm[q].st = "dead" => dn[q].st = "dead"
                     /\ dm[q].st \in {"stopping", "stranded", "dead"} => dn[q].st \in {"stopping", "stranded", "dead"}
    BY DEF Moves
  <2>1. CASE q = p BY <2>1, <1>3
  <2>2. CASE q # p BY <2>2, <1>1
  <2> QED BY <2>1, <2>2
<1> QED BY <1>1, <1>3, <1>4, <1>5

LEMMA RecLifeMoves ==
    ASSUME NEW dm \in DaemonsT, NEW dn \in DaemonsT, Moves(dm, dn),
           NEW r \in RunRecord \cup {Absent}, RecLife(r, dm)
    PROVE  RecLife(r, dn)
<1>1. CASE r = Absent BY <1>1 DEF RecLife
<1>2. CASE r # Absent /\ r.pid = Absent BY <1>2 DEF RecLife
<1>3. CASE r # Absent /\ r.pid # Absent
  <2>1. r.pid \in Pids BY <1>3 DEF RunRecord
  <2> QED BY <1>3, <2>1 DEF RecLife, Moves
<1> QED BY <1>1, <1>2, <1>3

LEMMA UpLifeMoves ==
    ASSUME NEW dm, NEW dn, Moves(dm, dn), NEW u \in Pids, NEW s, UpLife(s, dm[u])
    PROVE  UpLife(s, dn[u])
<1>1. /\ dn[u].port = dm[u].port
      /\ dn[u].st = "none" <=> dm[u].st = "none"
      /\ dm[u].st = "dead" => dn[u].st = "dead"
  BY DEF Moves
<1> QED BY <1>1 DEF UpLife

LEMMA DownLifeMoves ==
    ASSUME NEW dm \in DaemonsT, NEW dn \in DaemonsT, Moves(dm, dn), NEW s, DownLife(s, dm)
    PROVE  DownLife(s, dn)
<1>1. s.pc \in {"proof", "check", "unlink", "signal", "refuse", "escalate", "refuse2"} =>
           s.lost \in RunRecord /\ RecLife(s.lost, dn)
  BY RecLifeMoves DEF DownLife
<1>2. s.pc \in {"proof", "signal", "refuse", "escalate", "refuse2"} =>
           s.lost \in RunRecord /\ s.lost.pid \in Pids
  BY DEF DownLife, RunRecord
<1>3. s.pc \in {"refuse", "escalate", "refuse2"} =>
           dn[s.lost.pid].st \in {"stopping", "stranded", "dead"}
  BY <1>2 DEF DownLife, Moves
<1>4. s.done => s.lost \in RunRecord /\ s.lost.pid \in Pids /\ dn[s.lost.pid].st = "dead"
  BY DEF DownLife, Moves
<1> QED BY <1>1, <1>3, <1>4 DEF DownLife

LEMMA SlotSharedMoves ==
    ASSUME NEW dm \in DaemonsT, NEW dn \in DaemonsT, Moves(dm, dn), NEW r, SlotShared(r, dm),
           \A p \in Pids : dn[p].st # "stranded"
    PROVE  SlotShared(r, dn)
<1> SUFFICES ASSUME NEW p \in Pids, dn[p].st \in Live PROVE r # Absent /\ p = r.at
  BY DEF SlotShared
<1>1. dm[p].st \in Live BY DaemonSt DEF Moves, Live
<1> QED BY <1>1 DEF SlotShared

LEMMA UpSlotMoves ==
    ASSUME NEW dm \in DaemonsT, NEW dn \in DaemonsT, Moves(dm, dn), NEW s, NEW c, UpShape(s, c),
           NEW u \in Ups, NEW r, UpSlot(u, s, r, dm)
    PROVE  UpSlot(u, s, r, dn)
<1>1. s.pc = "lost" => RecLife(s.lost, dn)
  BY RecLifeMoves DEF UpSlot, UpShape
<1>2. s.pc \in {"check", "unlink"} /\ s.code = "retry" => dn[s.lost.at].st = "dead"
  <2> HAVE s.pc \in {"check", "unlink"} /\ s.code = "retry"
  <2>1. s.lost.at \in Pids BY DEF UpShape, RunRecord
  <2> QED BY <2>1 DEF UpSlot, Moves
<1> QED BY <1>1, <1>2 DEF UpSlot

LEMMA DownSlotMoves ==
    ASSUME NEW dm \in DaemonsT, NEW dn \in DaemonsT, Moves(dm, dn), NEW s, DownLife(s, dm),
           NEW r, DownSlot(s, r, dm)
    PROVE  DownSlot(s, r, dn)
<1>1. s.pc \in {"proof", "check", "unlink"} => s.lost.pid \in Pids
  BY DEF DownLife, DownSlot, RunRecord
<1> QED BY <1>1 DEF DownSlot, Moves

LEMMA KeySharedMoves ==
    ASSUME NEW dm, NEW dn, Moves(dm, dn), NEW c, NEW st, NEW a, KeyShared(c, st, dm, a)
    PROVE  KeyShared(c, st, dn, a)
BY DEF KeyShared, Moves

\* A command that waits says nothing of the record as it is now.
LEMMA AwaitSlot ==
    ASSUME NEW s, s.pc \in Awaits, NEW u, NEW r, NEW n, NEW dm, UpSlot(u, s, r, dm)
    PROVE  UpSlot(u, s, n, dm)
BY DEF UpSlot, Awaits, Claims

LEMMA AwaitDownSlot ==
    ASSUME NEW s, s.pc \in Awaits, NEW r, NEW n, NEW dm, DownSlot(s, r, dm)
    PROVE  DownSlot(s, n, dm)
BY DEF DownSlot, Awaits

\* Nobody who waits has a claim without a pid.
LEMMA AwaitClaimed ==
    ASSUME NEW s, s.pc \in Awaits, NEW u, NEW r, Claimed(u, s, r)
    PROVE  r # Absent /\ r.at = u => r.pid # Absent
BY DEF Claimed, Awaits, Claims, GaveUp
-----------------------------------------------------------------------------
(* Frames: what is left to show of a step of an up, a down or a daemon.    *)

LEMMA UpPid == \A u \in Ups : u \in Pids /\ u # Absent /\ u # "old"
BY CommandsAssumption, AbsentAssumption DEF Pids

\* Undisturbed, of an up: with scene.atomic everybody else waits.
LEMMA OthersWait ==
    ASSUME NEW u \in Ups, Undisturbed(u), scene.atomic
    PROVE  /\ \A v \in Ups \ {u} : up[v].pc \in Awaits
           /\ \A d \in Downs : down[d].pc \in Awaits
BY CommandsAssumption DEF Undisturbed

LEMMA OthersWaitDown ==
    ASSUME NEW d \in Downs, Undisturbed(d), scene.atomic
    PROVE  /\ \A u \in Ups : up[u].pc \in Awaits
           /\ \A e \in Downs \ {d} : down[e].pc \in Awaits
BY CommandsAssumption DEF Undisturbed

LEMMA UpStretch ==
    ASSUME LifeInv, NEW u \in Ups, Undisturbed(u), NEW s \in UpState,
           up' = [up EXCEPT ![u] = s], UNCHANGED <<scene, down>>
    PROVE  /\ OneStretch' /\ up' \in [Ups -> UpState]
           /\ up'[u] = s /\ \A v \in Ups \ {u} : up'[v] = up[v]
<1>1. up \in [Ups -> UpState] BY DEF LifeInv, LifeTypeOK
<1>2. up' \in [Ups -> UpState] /\ up'[u] = s /\ \A v \in Ups \ {u} : up'[v] = up[v]
  BY <1>1
<1>3. OneStretch'
  <2> SUFFICES ASSUME scene.atomic
               PROVE  /\ \A v \in Ups : up'[v].pc \notin Awaits =>
                           /\ \A w \in Ups \ {v} : up'[w].pc \in Awaits
                           /\ \A d \in Downs : down[d].pc \in Awaits
                      /\ \A d, e \in Downs : d # e => down[d].pc \in Awaits \/ down[e].pc \in Awaits
    BY DEF OneStretch
  <2>1. /\ \A v \in Ups \ {u} : up[v].pc \in Awaits
        /\ \A d \in Downs : down[d].pc \in Awaits
    BY OthersWait
  <2> QED BY <1>2, <2>1
<1> QED BY <1>2, <1>3

LEMMA DownStretch ==
    ASSUME LifeInv, NEW d \in Downs, Undisturbed(d), NEW s \in DownState,
           down' = [down EXCEPT ![d] = s], UNCHANGED <<scene, up>>
    PROVE  /\ OneStretch' /\ down' \in [Downs -> DownState]
           /\ down'[d] = s /\ \A e \in Downs \ {d} : down'[e] = down[e]
<1>1. down \in [Downs -> DownState] BY DEF LifeInv, LifeTypeOK
<1>2. down' \in [Downs -> DownState] /\ down'[d] = s /\ \A e \in Downs \ {d} : down'[e] = down[e]
  BY <1>1
<1>3. OneStretch'
  <2> SUFFICES ASSUME scene.atomic
               PROVE  /\ \A v \in Ups : up[v].pc \notin Awaits =>
                           /\ \A w \in Ups \ {v} : up[w].pc \in Awaits
                           /\ \A e \in Downs : down'[e].pc \in Awaits
                      /\ \A e, f \in Downs : e # f => down'[e].pc \in Awaits \/ down'[f].pc \in Awaits
    BY DEF OneStretch
  <2>1. /\ \A v \in Ups : up[v].pc \in Awaits
        /\ \A e \in Downs \ {d} : down[e].pc \in Awaits
    BY OthersWaitDown
  <2> QED BY <1>2, <2>1
<1> QED BY <1>2, <1>3

\* What the step of one up must show of its own part.
MayBe(u, s, r, c, dm) ==
    /\ UpShape(s, c) /\ UpLife(s, dm[u])
    /\ Undisrupted => UpSlot(u, s, r, dm) /\ Claimed(u, s, r)
    /\ KeyScene => UpKey(s, c, scene.atomic)

\* An up moves and may change the record: its own claim, its own pid, or nothing.
LEMMA RecFrame ==
    ASSUME LifeInv, NEW u \in Ups, Undisturbed(u), NEW s \in UpState,
           up' = [up EXCEPT ![u] = s], UpNoRec,
           rec' \in RunRecord \cup {Absent}, RecLife(rec', dmn),
           Undisrupted => /\ SlotShared(rec', dmn) /\ RecSlot(rec')
                          /\ rec' = rec \/ rec' = Absent \/ rec'.at = u,
           MayBe(u, s, rec', conf, dmn)
    PROVE  LifeInv'
<1>0. UNCHANGED <<scene, conf, store, dmn, ext, down, struck>> BY DEF UpNoRec
<1>1. /\ OneStretch' /\ up' \in [Ups -> UpState]
      /\ up'[u] = s /\ \A v \in Ups \ {u} : up'[v] = up[v]
  BY <1>0, UpStretch
<1>2. LifeTypeOK' BY <1>0, <1>1 DEF LifeInv, LifeTypeOK
<1>3. SceneOK' BY <1>0 DEF LifeInv, SceneOK
<1>4. \A v \in Ups : UpShape(up'[v], conf') /\ UpLife(up'[v], dmn'[v])
  BY <1>0, <1>1 DEF LifeInv, MayBe
<1>5. \A d \in Downs : DownLife(down'[d], dmn') BY <1>0 DEF LifeInv
<1>6. ASSUME Undisrupted' PROVE SlotInv'
  <2>0. Undisrupted /\ scene.atomic BY <1>0, <1>6 DEF Undisrupted
  <2>1. SlotInv BY <2>0 DEF LifeInv
  <2>2. /\ \A v \in Ups \ {u} : up[v].pc \in Awaits
        /\ \A d \in Downs : down[d].pc \in Awaits
    BY <2>0, OthersWait
  <2>3. \A v \in Ups : UpSlot(v, up'[v], rec', dmn') /\ Claimed(v, up'[v], rec')
    <3> SUFFICES ASSUME NEW v \in Ups PROVE UpSlot(v, up'[v], rec', dmn') /\ Claimed(v, up'[v], rec')
      OBVIOUS
    <3>1. CASE v = u BY <3>1, <1>0, <1>1, <2>0 DEF MayBe
    <3>2. CASE v # u
      <4>1. UpSlot(v, up[v], rec, dmn) /\ Claimed(v, up[v], rec) BY <2>1 DEF SlotInv
      <4>2. UpSlot(v, up[v], rec', dmn) BY <4>1, <2>2, <3>2, AwaitSlot
      <4>3. Claimed(v, up[v], rec') BY <4>1, <2>0, <3>2 DEF Claimed
      <4> QED BY <4>2, <4>3, <1>0, <1>1, <3>2
    <3> QED BY <3>1, <3>2
  <2>4. \A d \in Downs : DownSlot(down'[d], rec', dmn')
    BY <1>0, <2>1, <2>2, AwaitDownSlot DEF SlotInv
  <2> QED BY <1>0, <2>0, <2>3, <2>4 DEF SlotInv
<1>7. ASSUME KeyScene' PROVE KeyInv'
  <2>1. KeyScene /\ KeyInv BY <1>0, <1>7 DEF LifeInv, KeyScene
  <2> QED BY <1>0, <1>1, <2>1 DEF KeyInv, MayBe
<1> QED BY <1>0, <1>1, <1>2, <1>3, <1>4, <1>5, <1>6, <1>7 DEF LifeInv

\* An up moves and changes nothing shared.
LEMMA UpFrame ==
    ASSUME LifeInv, NEW u \in Ups, Undisturbed(u), NEW s \in UpState,
           up' = [up EXCEPT ![u] = s], OnlyUp, MayBe(u, s, rec, conf, dmn)
    PROVE  LifeInv'
<1>1. UpNoRec /\ rec' = rec BY DEF OnlyUp, UpNoRec
<1>2. rec \in RunRecord \cup {Absent} /\ RecLife(rec, dmn) BY DEF LifeInv, LifeTypeOK
<1>3. Undisrupted => SlotShared(rec, dmn) /\ RecSlot(rec) BY DEF LifeInv, SlotInv
<1> QED BY <1>1, <1>2, <1>3, RecFrame

\* An up moves and the config file gets more keys.
LEMMA ConfFrame ==
    ASSUME LifeInv, NEW u \in Ups, Undisturbed(u), NEW s \in UpState,
           up' = [up EXCEPT ![u] = s], UNCHANGED <<scene, rec, store, dmn, ext, down, struck>>,
           conf' \in Config,
           KeyScene => /\ conf # Absent /\ conf.key # Absent => conf'.key = conf.key
                       /\ ~scene.atomic => conf'.key # Absent,
           MayBe(u, s, rec, conf', dmn)
    PROVE  LifeInv'
<1>1. /\ OneStretch' /\ up' \in [Ups -> UpState]
      /\ up'[u] = s /\ \A v \in Ups \ {u} : up'[v] = up[v]
  BY UpStretch
<1>2. LifeTypeOK' BY <1>1 DEF LifeInv, LifeTypeOK
<1>3. SceneOK' BY DEF LifeInv, SceneOK
<1>4. \A v \in Ups : UpShape(up'[v], conf') /\ UpLife(up'[v], dmn'[v])
  <2> SUFFICES ASSUME NEW v \in Ups PROVE UpShape(up'[v], conf') /\ UpLife(up'[v], dmn[v])
    OBVIOUS
  <2>1. CASE v = u BY <2>1, <1>1 DEF MayBe
  <2>2. CASE v # u
    <3>1. UpShape(up[v], conf) /\ UpLife(up[v], dmn[v]) BY DEF LifeInv
    <3>2. UpShape(up[v], conf') BY <3>1 DEF UpShape
    <3> QED BY <3>1, <3>2, <2>2, <1>1
  <2> QED BY <2>1, <2>2
<1>5. \A d \in Downs : DownLife(down'[d], dmn') BY DEF LifeInv
<1>6. ASSUME Undisrupted' PROVE SlotInv'
  <2>0. Undisrupted BY <1>6 DEF Undisrupted
  <2>1. SlotInv BY <2>0 DEF LifeInv
  <2> QED BY <1>1, <2>0, <2>1 DEF SlotInv, MayBe
<1>7. ASSUME KeyScene' PROVE KeyInv'
  <2>1. KeyScene /\ KeyInv BY <1>7 DEF LifeInv, KeyScene
  <2>c. conf' # Absent BY AbsentAssumption
  <2>2. \A k : k # Absent /\ HasKey(conf, k) => HasKey(conf', k)
    BY <2>1, <2>c DEF HasKey
  <2>3. KeyShared(conf', store', dmn', scene'.atomic)
    BY <2>1, <2>2 DEF KeyInv, KeyShared
  <2>4. \A v \in Ups : UpKey(up'[v], conf', scene'.atomic)
    <3> SUFFICES ASSUME NEW v \in Ups PROVE UpKey(up'[v], conf', scene.atomic)
      OBVIOUS
    <3>1. CASE v = u BY <3>1, <1>1, <2>1 DEF MayBe
    <3>2. CASE v # u
      <4>1. UpKey(up[v], conf, scene.atomic) /\ UpShape(up[v], conf) BY <2>1 DEF KeyInv, LifeInv
      <4>2. up[v].file # Absent /\ up[v].file.key # Absent => HasKey(conf', up[v].file.key)
        BY <4>1, <2>2 DEF UpKey
      <4>3. ASSUME up[v].pc = "rename" PROVE ~scene.atomic /\ up[v].text.key = conf'.key
        <5>1. ~scene.atomic BY <4>3, <3>2, OthersWait DEF Awaits
        <5>2. conf \in Config /\ conf # Absent BY <4>1, <4>3, AbsentAssumption DEF UpShape
        <5>3. conf.key # Absent BY <5>1, <5>2, <2>1 DEF KeyInv, KeyShared
        <5> QED BY <5>1, <5>2, <5>3, <4>1, <4>3, <2>1 DEF UpKey
      <4>4. UpKey(up[v], conf', scene.atomic)
        BY <4>1, <4>2, <4>3, <2>c, <2>1 DEF UpKey
      <4> QED BY <4>4, <1>1, <3>2
    <3> QED BY <3>1, <3>2
  <2> QED BY <2>3, <2>4 DEF KeyInv
<1> QED BY <1>1, <1>2, <1>3, <1>4, <1>5, <1>6, <1>7 DEF LifeInv
\* A down moves; the record may go, the daemons take a step of their life.
LEMMA DownFrame ==
    ASSUME LifeInv, NEW d \in Downs, Undisturbed(d), NEW s \in DownState,
           down' = [down EXCEPT ![d] = s], UNCHANGED <<scene, conf, store, ext, up, struck>>,
           rec' = rec \/ rec' = Absent,
           dmn' \in DaemonsT, Moves(dmn, dmn'),
           \A p \in Pids : dmn'[p].st = "stranded" => dmn[p].st = "stranded",
           DownLife(s, dmn'),
           Undisrupted => /\ DownSlot(s, rec', dmn')
                          /\ rec' # rec => \A p \in Pids : dmn[p].st \notin Live
    PROVE  LifeInv'
<1>0. dmn \in DaemonsT BY DEF LifeInv, LifeTypeOK, DaemonsT
<1>1. /\ OneStretch' /\ down' \in [Downs -> DownState]
      /\ down'[d] = s /\ \A e \in Downs \ {d} : down'[e] = down[e]
  BY DownStretch
<1>2. LifeTypeOK' BY <1>1 DEF LifeInv, LifeTypeOK, DaemonsT
<1>3. SceneOK' BY DEF LifeInv, SceneOK
<1>4. RecLife(rec', dmn')
  <2>1. RecLife(rec, dmn) /\ rec \in RunRecord \cup {Absent} BY DEF LifeInv, LifeTypeOK
  <2>2. RecLife(Absent, dmn') BY DEF RecLife
  <2>3. RecLife(rec, dmn') BY <2>1, <1>0, RecLifeMoves
  <2> QED BY <2>2, <2>3
<1>5. \A v \in Ups : UpShape(up'[v], conf') /\ UpLife(up'[v], dmn'[v])
  BY UpPid, UpLifeMoves DEF LifeInv
<1>6. \A e \in Downs : DownLife(down'[e], dmn')
  BY <1>0, <1>1, DownLifeMoves DEF LifeInv
<1>7. ASSUME Undisrupted' PROVE SlotInv'
  <2>0. Undisrupted /\ scene.atomic BY <1>7 DEF Undisrupted
  <2>1. SlotInv BY <2>0 DEF LifeInv
  <2>2. /\ \A v \in Ups : up[v].pc \in Awaits
        /\ \A e \in Downs \ {d} : down[e].pc \in Awaits
    BY <2>0, OthersWaitDown
  <2>3. SlotShared(rec', dmn')
    <3>1. SlotShared(rec, dmn) BY <2>1 DEF SlotInv
    <3>2. SlotShared(rec', dmn) BY <3>1, <2>0 DEF SlotShared
    <3>3. \A p \in Pids : dmn'[p].st # "stranded" BY <3>1 DEF SlotShared
    <3> QED BY <1>0, <3>2, <3>3, SlotSharedMoves
  <2>4. RecSlot(rec') BY <2>1 DEF SlotInv, RecSlot
  <2>5. \A v \in Ups : UpSlot(v, up[v], rec', dmn') /\ Claimed(v, up[v], rec')
    <3> SUFFICES ASSUME NEW v \in Ups PROVE UpSlot(v, up[v], rec', dmn') /\ Claimed(v, up[v], rec')
      OBVIOUS
    <3>1. UpSlot(v, up[v], rec, dmn) /\ Claimed(v, up[v], rec) /\ UpShape(up[v], conf)
      BY <2>1 DEF SlotInv, LifeInv
    <3>2. UpSlot(v, up[v], rec', dmn) BY <3>1, <2>2, AwaitSlot
    <3>3. UpSlot(v, up[v], rec', dmn') BY <3>1, <3>2, <1>0, UpSlotMoves
    <3>4. Claimed(v, up[v], rec') BY <3>1 DEF Claimed
    <3> QED BY <3>3, <3>4
  <2>6. \A e \in Downs : DownSlot(down'[e], rec', dmn')
    <3> SUFFICES ASSUME NEW e \in Downs PROVE DownSlot(down'[e], rec', dmn') OBVIOUS
    <3>1. CASE e = d BY <3>1, <1>1, <2>0
    <3>2. CASE e # d
      <4>1. DownSlot(down[e], rec, dmn) /\ DownLife(down[e], dmn) BY <2>1 DEF SlotInv, LifeInv
      <4>2. DownSlot(down[e], rec', dmn) BY <4>1, <2>2, <3>2, AwaitDownSlot
      <4>3. DownSlot(down[e], rec', dmn') BY <4>1, <4>2, <1>0, DownSlotMoves
      <4> QED BY <4>3, <1>1, <3>2
    <3> QED BY <3>1, <3>2
  <2> QED BY <2>3, <2>4, <2>5, <2>6 DEF SlotInv
<1>8. ASSUME KeyScene' PROVE KeyInv'
  <2>1. KeyScene /\ KeyInv BY <1>8 DEF LifeInv, KeyScene
  <2>2. KeyShared(conf, store, dmn', scene.atomic) BY <2>1, KeySharedMoves DEF KeyInv
  <2> QED BY <2>1, <2>2 DEF KeyInv
<1> QED BY <1>1, <1>2, <1>3, <1>4, <1>5, <1>6, <1>7, <1>8 DEF LifeInv

\* A daemon takes a step of its life on its own.
LEMMA DaemonFrame ==
    ASSUME LifeInv, OnlyDaemons, dmn' \in DaemonsT, Moves(dmn, dmn'), struck' \in BOOLEAN,
           Undisrupted' => Undisrupted /\ \A p \in Pids : dmn'[p].st = "stranded" => dmn[p].st = "stranded",
           store' = store \/ \E p \in Pids : dmn[p].st # "none" /\ store' = store \cup {dmn[p].key}
    PROVE  LifeInv'
<1>0. dmn \in DaemonsT BY DEF LifeInv, LifeTypeOK, DaemonsT
<1>u. UNCHANGED <<scene, rec, conf, ext, up, down>> BY DEF OnlyDaemons
<1>1. OneStretch' BY <1>u DEF LifeInv, OneStretch
<1>2. LifeTypeOK'
  <2>1. store' \subseteq Pids \cup {Absent} BY <1>0, DaemonSt DEF LifeInv, LifeTypeOK, Daemon
  <2> QED BY <1>u, <2>1 DEF LifeInv, LifeTypeOK, DaemonsT
<1>3. SceneOK' BY <1>u DEF LifeInv, SceneOK
<1>4. RecLife(rec', dmn')
  BY <1>u, <1>0, RecLifeMoves DEF LifeInv, LifeTypeOK
<1>5. \A v \in Ups : UpShape(up'[v], conf') /\ UpLife(up'[v], dmn'[v])
  BY <1>u, UpPid, UpLifeMoves DEF LifeInv
<1>6. \A e \in Downs : DownLife(down'[e], dmn')
  BY <1>u, <1>0, DownLifeMoves DEF LifeInv
<1>7. ASSUME Undisrupted' PROVE SlotInv'
  <2>1. SlotInv BY <1>7 DEF LifeInv
  <2>2. SlotShared(rec, dmn')
    <3>1. SlotShared(rec, dmn) BY <2>1 DEF SlotInv
    <3>2. \A p \in Pids : dmn'[p].st # "stranded" BY <3>1, <1>7 DEF SlotShared
    <3> QED BY <1>0, <3>1, <3>2, SlotSharedMoves
  <2>3. \A v \in Ups : UpSlot(v, up[v], rec, dmn') /\ Claimed(v, up[v], rec)
    BY <1>0, <2>1, UpSlotMoves DEF SlotInv, LifeInv
  <2>4. \A e \in Downs : DownSlot(down[e], rec, dmn')
    BY <1>0, <2>1, DownSlotMoves DEF SlotInv, LifeInv
  <2> QED BY <1>u, <2>1, <2>2, <2>3, <2>4 DEF SlotInv
<1>8. ASSUME KeyScene' PROVE KeyInv'
  <2>1. KeyScene /\ KeyInv BY <1>u, <1>8 DEF LifeInv, KeyScene
  <2>2. KeyShared(conf, store', dmn, scene.atomic)
    BY <2>1 DEF KeyInv, KeyShared
  <2>3. KeyShared(conf, store', dmn', scene.atomic) BY <2>2, KeySharedMoves
  <2> QED BY <1>u, <2>1, <2>3 DEF KeyInv
<1> QED BY <1>1, <1>2, <1>3, <1>4, <1>5, <1>6, <1>7, <1>8 DEF LifeInv
-----------------------------------------------------------------------------
(* Steps of an up.                                                         *)

UpPcs == Awaits \cup {"resolve", "claim", "fill", "check", "unlink", "guards", "create",
                      "merge", "rename", "reread", "spawn", "pid", "giveup", "served"}

PortOr == Ports \cup {Absent}
ConfOr == Config \cup {Absent}
RecOr == RunRecord \cup {Absent}
Tries == 1..2
Backs == {"reread", "exit0"}
Codes == {"exit1", "retry"}

UpT == [pc: UpPcs, env: PortOr, port: PortOr, free: PortOr, i: Ports, file: ConfOr,
        text: ConfOr, add: Config, back: Backs, lost: RecOr, tries: Tries, code: Codes]

LEMMA UpStateIs == UpState = UpT
BY DEF UpState, UpT, UpPcs, PortOr, ConfOr, RecOr, Tries, Backs, Codes

LEMMA UpHas ==
    ASSUME LifeInv, NEW u \in Ups
    PROVE  /\ up[u] \in UpState /\ up \in [Ups -> UpState]
           /\ dmn \in DaemonsT /\ dmn[u] \in Daemon
           /\ conf \in Config \cup {Absent} /\ rec \in RunRecord \cup {Absent}
           /\ MayBe(u, up[u], rec, conf, dmn)
BY UpPid DEF LifeInv, LifeTypeOK, DaemonsT, MayBe, SlotInv, KeyInv

\* Go: a command moves to its next place, or ends and forgets.
Moved(s, pc) == IF pc \in Ended THEN [IdleUp EXCEPT !.pc = pc] ELSE [s EXCEPT !.pc = pc]

LEMMA MovedFacts ==
    ASSUME NEW s \in UpState, NEW pc \in UpPcs
    PROVE  LET n == Moved(s, pc) IN
           /\ n \in UpState /\ n.pc = pc
           /\ pc \notin Ended =>
                 /\ n.env = s.env /\ n.port = s.port /\ n.free = s.free /\ n.i = s.i
                 /\ n.file = s.file /\ n.text = s.text /\ n.add = s.add /\ n.back = s.back
                 /\ n.lost = s.lost /\ n.tries = s.tries /\ n.code = s.code
           /\ pc \in Ended => n.file = Absent
<1> DEFINE n == Moved(s, pc)
<1>1. IdleUp \in UpState
  BY MaxPortAssumption DEF IdleUp, UpState, NoConfig, Config, Ports, Awaits
<1>2. CASE pc \in Ended
  <2>1. n = [IdleUp EXCEPT !.pc = pc] BY <1>2 DEF Moved
  <2>2. n \in UpState /\ n.pc = pc BY <1>1, <2>1 DEF UpState, UpPcs
  <2>3. n.file = Absent BY <2>1 DEF IdleUp
  <2> QED BY <1>2, <2>2, <2>3
<1>3. CASE pc \notin Ended
  <2>1. n = [s EXCEPT !.pc = pc] BY <1>3 DEF Moved
  <2> QED BY <1>3, <2>1 DEF UpState, UpPcs
<1> QED BY <1>2, <1>3

LEMMA GoIs ==
    ASSUME NEW u \in Ups, up \in [Ups -> UpState], NEW pc, Go(u, pc)
    PROVE  up' = [up EXCEPT ![u] = Moved(up[u], pc)]
BY DEF Go, Moved

LEMMA EndedMayBe ==
    ASSUME NEW u \in Ups, NEW s, s.pc \in Ended, s.file = Absent, NEW r, NEW c, NEW dm,
           Undisrupted => (r # Absent /\ r.at = u => r.pid # Absent)
    PROVE  MayBe(u, s, r, c, dm)
<1>1. UpShape(s, c) /\ UpLife(s, dm[u]) BY DEF UpShape, UpLife, Early, GaveUp, Ended
<1>2. UpSlot(u, s, r, dm) BY DEF UpSlot, Claims, Ended
<1>3. UpKey(s, c, scene.atomic) BY DEF UpKey, Ended
<1>4. Undisrupted => Claimed(u, s, r) BY DEF Claimed
<1> QED BY <1>1, <1>2, <1>3, <1>4 DEF MayBe

\* An up outside its claim has no record without a pid.
LEMMA NoClaim ==
    ASSUME LifeInv, NEW u \in Ups, Undisrupted, ~Claims(up[u]), ~GaveUp(up[u])
    PROVE  rec # Absent /\ rec.at = u => rec.pid # Absent
BY UpHas DEF MayBe, Claimed

LEMMA UpEnds ==
    ASSUME LifeInv, NEW u \in Ups, Undisturbed(u), NEW e \in Ended, Go(u, e), OnlyUp,
           Undisrupted => (rec # Absent /\ rec.at = u => rec.pid # Absent)
    PROVE  LifeInv'
<1> DEFINE n == Moved(up[u], e)
<1>1. up[u] \in UpState /\ up \in [Ups -> UpState] BY UpHas
<1>2. e \in UpPcs BY DEF Ended, UpPcs, Awaits
<1>3. n \in UpState /\ n.pc = e /\ n.file = Absent BY <1>1, <1>2, MovedFacts
<1>4. MayBe(u, n, rec, conf, dmn) BY <1>3, EndedMayBe
<1>5. up' = [up EXCEPT ![u] = n] BY <1>1, GoIs
<1> QED BY <1>3, <1>4, <1>5, UpFrame

\* A move with no change of memory.
LEMMA UpGoes ==
    ASSUME LifeInv, NEW u \in Ups, Undisturbed(u), NEW pc \in UpPcs \ Ended, Go(u, pc), OnlyUp,
           \A n \in UpState :
              (/\ n.pc = pc /\ n.port = up[u].port /\ n.file = up[u].file /\ n.text = up[u].text
               /\ n.add = up[u].add /\ n.back = up[u].back /\ n.lost = up[u].lost
               /\ n.code = up[u].code) => MayBe(u, n, rec, conf, dmn)
    PROVE  LifeInv'
<1> DEFINE n == Moved(up[u], pc)
<1>1. up[u] \in UpState /\ up \in [Ups -> UpState] BY UpHas
<1>3. /\ n \in UpState /\ n.pc = pc /\ n.port = up[u].port /\ n.file = up[u].file
      /\ n.text = up[u].text /\ n.add = up[u].add /\ n.back = up[u].back
      /\ n.lost = up[u].lost /\ n.code = up[u].code
  BY <1>1, MovedFacts
<1>4. MayBe(u, n, rec, conf, dmn) BY <1>3
<1>5. up' = [up EXCEPT ![u] = n] BY <1>1, GoIs
<1> QED BY <1>3, <1>4, <1>5, UpFrame

LEMMA StartUpStep ==
    ASSUME LifeInv, NEW u \in Ups, NEW env \in Ports \cup {Absent}, StartUp(u, env)
    PROVE  LifeInv'
<1> DEFINE n == [IdleUp EXCEPT !.pc = "resolve", !.env = env, !.file = conf]
<1>1. /\ up[u].pc = "idle" /\ Undisturbed(u) /\ OnlyUp /\ up' = [up EXCEPT ![u] = n]
  BY DEF StartUp, At
<1>2. /\ conf \in Config \cup {Absent} /\ MayBe(u, up[u], rec, conf, dmn)
  BY UpHas
<1>3. IdleUp \in UpState
  BY MaxPortAssumption DEF IdleUp, UpState, NoConfig, Config, Ports, Awaits
<1>a. "resolve" \in UpPcs /\ env \in PortOr /\ conf \in ConfOr
  BY <1>2 DEF UpPcs, PortOr, ConfOr
<1>4. n \in UpState /\ n.pc = "resolve" /\ n.file = conf
  BY <1>3, <1>a, UpStateIs DEF UpT
<1> HIDE DEF n
<1>5. dmn[u].st = "none" BY <1>1, <1>2 DEF MayBe, UpLife, Early
<1>6. UpShape(n, conf) /\ UpLife(n, dmn[u])
  BY <1>4, <1>5 DEF UpShape, UpLife, Early, GaveUp
<1>7. Undisrupted => UpSlot(u, n, rec, dmn) /\ Claimed(u, n, rec)
  BY <1>1, <1>4, NoClaim DEF UpSlot, Claimed, Claims, GaveUp
<1>8. KeyScene => UpKey(n, conf, scene.atomic) BY <1>4 DEF UpKey, HasKey
<1> QED BY <1>1, <1>4, <1>6, <1>7, <1>8, UpFrame DEF MayBe

\* The places before the claim: nothing is known but the missing daemon.
LEMMA BeforeClaim ==
    ASSUME LifeInv, NEW u \in Ups, up[u].pc \in {"resolve", "scan", "classify"},
           NEW n \in UpState, n.pc \in {"scan", "classify", "claim"},
           n.file = up[u].file, n.pc # "scan" => n.port \in Ports
    PROVE  MayBe(u, n, rec, conf, dmn)
<1>1. MayBe(u, up[u], rec, conf, dmn) BY UpHas
<1>2. dmn[u].st = "none" BY <1>1 DEF MayBe, UpLife, Early
<1>3. UpShape(n, conf) /\ UpLife(n, dmn[u])
  BY <1>2 DEF UpShape, UpLife, Early, GaveUp
<1>4. Undisrupted => UpSlot(u, n, rec, dmn) /\ Claimed(u, n, rec)
  BY NoClaim DEF UpSlot, Claimed, Claims, GaveUp
<1>5. KeyScene => UpKey(n, conf, scene.atomic) BY <1>1 DEF MayBe, UpKey
<1> QED BY <1>3, <1>4, <1>5 DEF MayBe

LEMMA ResolvePortStep ==
    ASSUME LifeInv, NEW u \in Ups, ResolvePort(u)
    PROVE  LifeInv'
<1>1. up[u].pc = "resolve" /\ Undisturbed(u) /\ OnlyUp BY DEF ResolvePort, At
<1>2. up[u] \in UpState /\ up \in [Ups -> UpState] BY UpHas
<1>3. Undisrupted => (rec # Absent /\ rec.at = u => rec.pid # Absent)
  BY <1>1, NoClaim DEF Claims, GaveUp
<1>4. CASE Go(u, "exit1") BY <1>1, <1>3, <1>4, UpEnds DEF Ended
<1>5. CASE Go(u, "scan")
  BY <1>1, <1>2, <1>5, UpGoes, BeforeClaim DEF UpPcs, Awaits, Ended
<1>6. ASSUME NEW port \in Ports, up' = [up EXCEPT ![u].pc = "classify", ![u].port = port]
      PROVE  LifeInv'
  <2> DEFINE n == [up[u] EXCEPT !.pc = "classify", !.port = port]
  <2>1. up' = [up EXCEPT ![u] = n] BY <1>2, <1>6
  <2>a. "classify" \in UpPcs /\ port \in PortOr BY DEF UpPcs, Awaits, PortOr
  <2>2. n \in UpState /\ n.pc = "classify" /\ n.port = port /\ n.file = up[u].file
    BY <1>2, <2>a, UpStateIs DEF UpT
  <2> HIDE DEF n
  <2>3. MayBe(u, n, rec, conf, dmn) BY <1>1, <2>2, BeforeClaim
  <2> QED BY <1>1, <2>1, <2>2, <2>3, UpFrame
<1>7. \A p : p = (IF up[u].env # Absent THEN up[u].env
                  ELSE IF up[u].file # Absent THEN up[u].file.port ELSE Absent)
             => p \in Ports \cup {Absent}
  BY <1>2 DEF UpState, Config
<1> QED BY <1>4, <1>5, <1>6, <1>7 DEF ResolvePort

LEMMA ScanPortStep ==
    ASSUME LifeInv, NEW u \in Ups, NEW cls \in Classes, ScanPort(u, cls)
    PROVE  LifeInv'
<1>1. up[u].pc = "scan" /\ Undisturbed(u) /\ OnlyUp BY DEF ScanPort, At
<1>2. up[u] \in UpState /\ up \in [Ups -> UpState] BY UpHas
<1>3. Undisrupted => (rec # Absent /\ rec.at = u => rec.pid # Absent)
  BY <1>1, NoClaim DEF Claims, GaveUp
<1>4. up[u].i \in Ports /\ up[u].free \in Ports \cup {Absent} BY <1>2 DEF UpState
<1> DEFINE free == IF cls = "refused" /\ up[u].free = Absent THEN up[u].i ELSE up[u].free
           chose(p) == [up[u] EXCEPT !.pc = "classify", !.port = p, !.free = Absent, !.i = 1]
<1>5. free \in Ports \cup {Absent} BY <1>4
<1>6. ASSUME NEW p \in Ports, up' = [up EXCEPT ![u] = chose(p)] PROVE LifeInv'
  <2>1. chose(p) \in UpState /\ chose(p).pc = "classify" /\ chose(p).port = p /\ chose(p).file = up[u].file
    <3>1. "classify" \in UpPcs /\ p \in PortOr /\ Absent \in PortOr BY DEF UpPcs, Awaits, PortOr
    <3>2. 1 \in Ports BY MaxPortAssumption DEF Ports
    <3> QED BY <1>2, <3>1, <3>2, UpStateIs DEF UpT
  <2>2. MayBe(u, chose(p), rec, conf, dmn) BY <1>1, <2>1, BeforeClaim
  <2> QED BY <1>1, <1>6, <2>1, <2>2, UpFrame
<1>7. ASSUME up[u].i < MaxPort, up' = [up EXCEPT ![u].i = @ + 1, ![u].free = free] PROVE LifeInv'
  <2> DEFINE n == [up[u] EXCEPT !.i = @ + 1, !.free = free]
  <2>1. up' = [up EXCEPT ![u] = n] BY <1>2, <1>7
  <2>2. up[u].i + 1 \in Ports BY <1>4, <1>7, MaxPortAssumption DEF Ports
  <2>3. n \in UpState /\ n.pc = "scan" /\ n.file = up[u].file
    <3>1. free \in PortOr BY <1>5 DEF PortOr
    <3> HIDE DEF free
    <3> QED BY <1>1, <1>2, <3>1, <2>2, UpStateIs DEF UpT
  <2> HIDE DEF n
  <2>4. MayBe(u, n, rec, conf, dmn) BY <1>1, <2>3, BeforeClaim
  <2> QED BY <1>1, <2>1, <2>3, <2>4, UpFrame
<1>8. CASE Go(u, "exit1") BY <1>1, <1>3, <1>8, UpEnds DEF Ended
<1>9. \/ up' = [up EXCEPT ![u] = chose(up[u].i)]
      \/ up[u].i < MaxPort /\ up' = [up EXCEPT ![u].i = @ + 1, ![u].free = free]
      \/ free # Absent /\ up' = [up EXCEPT ![u] = chose(free)]
      \/ Go(u, "exit1")
  BY DEF ScanPort
<1> QED BY <1>4, <1>5, <1>6, <1>7, <1>8, <1>9

LEMMA ClassifyPortStep ==
    ASSUME LifeInv, NEW u \in Ups, NEW cls \in Classes, ClassifyPort(u, cls)
    PROVE  LifeInv'
<1>1. up[u].pc = "classify" /\ Undisturbed(u) /\ OnlyUp BY DEF ClassifyPort, At
<1>2. up[u] \in UpState /\ up \in [Ups -> UpState] /\ MayBe(u, up[u], rec, conf, dmn) BY UpHas
<1>3. Undisrupted => (rec # Absent /\ rec.at = u => rec.pid # Absent)
  BY <1>1, NoClaim DEF Claims, GaveUp
<1>p. up[u].port \in Ports BY <1>1, <1>2 DEF MayBe, UpShape
<1>4. CASE Go(u, "exit1") BY <1>1, <1>3, <1>4, UpEnds DEF Ended
<1>5. CASE Go(u, "claim")
  BY <1>1, <1>2, <1>p, <1>5, UpGoes, BeforeClaim DEF UpPcs, Ended
<1>6. CASE Go(u, "found")
  <2>1. ASSUME NEW n \in UpState, n.pc = "found", n.port = up[u].port, n.file = up[u].file
        PROVE MayBe(u, n, rec, conf, dmn)
    <3>1. UpShape(n, conf) /\ UpLife(n, dmn[u]) BY <1>p, <2>1 DEF UpShape, UpLife, Early, GaveUp
    <3>2. Undisrupted => UpSlot(u, n, rec, dmn) /\ Claimed(u, n, rec)
      BY <1>3, <2>1 DEF UpSlot, Claimed, Claims, GaveUp
    <3>3. KeyScene => UpKey(n, conf, scene.atomic) BY <1>2, <2>1 DEF MayBe, UpKey
    <3> QED BY <3>1, <3>2, <3>3 DEF MayBe
  <2> QED BY <1>1, <2>1, <1>6, UpGoes DEF UpPcs, Awaits, Ended
<1> QED BY <1>4, <1>5, <1>6 DEF ClassifyPort
\* Between the stretches a record has a pid.
LEMMA AtRest ==
    ASSUME LifeInv, NEW u \in Ups, Undisturbed(u), Undisrupted, rec # Absent,
           ~Claims(up[u]), ~GaveUp(up[u])
    PROVE  ~rec.torn /\ rec.pid # Absent /\ rec.pid = rec.at
<1>1. SlotInv /\ scene.atomic BY DEF LifeInv, Undisrupted
<1>2. RecSlot(rec) /\ RecLife(rec, dmn) BY <1>1 DEF SlotInv, LifeInv
<1>3. ASSUME rec.pid = Absent PROVE FALSE
  <2>1. rec.at \in Ups BY <1>2, <1>3 DEF RecSlot
  <2>2. rec.at # u BY <1>3, NoClaim
  <2>3. up[rec.at].pc \in Awaits BY <2>1, <2>2, <1>1, OthersWait
  <2>4. Claimed(rec.at, up[rec.at], rec) BY <1>1, <2>1 DEF SlotInv
  <2> QED BY <1>3, <2>3, <2>4, AwaitClaimed
<1> QED BY <1>2, <1>3 DEF RecSlot, RecLife

LEMMA ClaimRunSlotStep ==
    ASSUME LifeInv, NEW u \in Ups, ClaimRunSlot(u)
    PROVE  LifeInv'
<1>1. up[u].pc = "claim" /\ Undisturbed(u) /\ UpNoRec BY DEF ClaimRunSlot, At
<1>2. /\ up[u] \in UpState /\ up \in [Ups -> UpState] /\ rec \in RunRecord \cup {Absent}
      /\ MayBe(u, up[u], rec, conf, dmn)
  BY UpHas
<1>3. up[u].port \in Ports /\ dmn[u].st = "none"
  BY <1>1, <1>2 DEF MayBe, UpShape, UpLife, Early
<1>4. ~Claims(up[u]) /\ ~GaveUp(up[u]) BY <1>1 DEF Claims, GaveUp
<1>k. KeyScene => (up[u].file # Absent /\ up[u].file.key # Absent => HasKey(conf, up[u].file.key))
  BY <1>2 DEF MayBe, UpKey
<1>5. CASE rec = Absent /\ Go(u, "fill")
            /\ rec' = [at |-> u, port |-> up[u].port, pid |-> Absent, torn |-> TRUE, old |-> FALSE]
  <2> DEFINE n == Moved(up[u], "fill")
  <2>1. up' = [up EXCEPT ![u] = n] BY <1>2, <1>5, GoIs
  <2>2. "fill" \in UpPcs /\ "fill" \notin Ended BY DEF UpPcs, Ended
  <2>3. n \in UpState /\ n.pc = "fill" /\ n.port = up[u].port /\ n.file = up[u].file
    BY <1>2, <2>2, MovedFacts
  <2> HIDE DEF n
  <2>4. /\ rec' \in RunRecord /\ rec' # Absent /\ rec'.at = u /\ rec'.pid = Absent
        /\ rec'.torn /\ ~rec'.old
    <3>1. rec' \in RunRecord BY <1>3, <1>5, UpPid DEF RunRecord
    <3>2. rec'.at = u /\ rec'.pid = Absent BY <1>5
    <3>3. rec'.torn = TRUE /\ rec'.old = FALSE BY <1>5
    <3> QED BY <3>1, <3>2, <3>3, AbsentAssumption
  <2>5. RecLife(rec', dmn) BY <2>4 DEF RecLife
  <2>6. Undisrupted => SlotShared(rec', dmn) /\ RecSlot(rec')
    <3>1. Undisrupted => SlotShared(Absent, dmn) BY <1>5 DEF LifeInv, SlotInv
    <3> QED BY <3>1, <2>4 DEF SlotShared, RecSlot
  <2>7. UpShape(n, conf) /\ UpLife(n, dmn[u])
    BY <1>3, <2>3 DEF UpShape, UpLife, Early, GaveUp
  <2>8. UpSlot(u, n, rec', dmn) /\ Claimed(u, n, rec')
    BY <2>3, <2>4 DEF UpSlot, Claimed, Claims
  <2>9. KeyScene => UpKey(n, conf, scene.atomic) BY <1>k, <2>3 DEF UpKey
  <2> QED BY <1>1, <2>1, <2>3, <2>4, <2>5, <2>6, <2>7, <2>8, <2>9, RecFrame DEF MayBe
<1>6. CASE rec # Absent /\ rec' = rec /\ up' = [up EXCEPT ![u].pc = "lost", ![u].lost = rec]
  <2> DEFINE n == [up[u] EXCEPT !.pc = "lost", !.lost = rec]
  <2>1. up' = [up EXCEPT ![u] = n] BY <1>2, <1>6
  <2>2. "lost" \in UpPcs /\ rec \in RecOr BY <1>2 DEF UpPcs, Awaits, RecOr
  <2>3. n \in UpState /\ n.pc = "lost" /\ n.port = up[u].port /\ n.file = up[u].file /\ n.lost = rec
    BY <1>2, <2>2, UpStateIs DEF UpT
  <2> HIDE DEF n
  <2>4. UpShape(n, conf) /\ UpLife(n, dmn[u])
    BY <1>2, <1>3, <1>6, <2>3 DEF UpShape, UpLife, Early, GaveUp
  <2>5. RecLife(rec, dmn) BY DEF LifeInv
  <2>6. Undisrupted => UpSlot(u, n, rec, dmn) /\ Claimed(u, n, rec)
    BY <1>1, <1>4, <1>6, <2>3, <2>5, AtRest DEF UpSlot, Claimed, Claims
  <2>7. KeyScene => UpKey(n, conf, scene.atomic) BY <1>k, <2>3 DEF UpKey
  <2>8. OnlyUp BY <1>1, <1>6 DEF OnlyUp, UpNoRec
  <2> QED BY <1>1, <2>1, <2>3, <2>4, <2>6, <2>7, <2>8, UpFrame DEF MayBe
<1> QED BY <1>5, <1>6 DEF ClaimRunSlot

LEMMA FillClaimStep ==
    ASSUME LifeInv, NEW u \in Ups, FillClaim(u)
    PROVE  LifeInv'
<1>1. /\ up[u].pc = "fill" /\ Undisturbed(u) /\ UpNoRec /\ Go(u, "guards")
      /\ rec' = IF rec # Absent /\ rec.at = u THEN [rec EXCEPT !.torn = FALSE] ELSE rec
  BY DEF FillClaim, At
<1>2. /\ up[u] \in UpState /\ up \in [Ups -> UpState] /\ rec \in RunRecord \cup {Absent}
      /\ MayBe(u, up[u], rec, conf, dmn)
  BY UpHas
<1> DEFINE n == Moved(up[u], "guards")
<1>3. up' = [up EXCEPT ![u] = n] BY <1>1, <1>2, GoIs
<1>4. "guards" \in UpPcs /\ "guards" \notin Ended BY DEF UpPcs, Ended
<1>5. n \in UpState /\ n.pc = "guards" /\ n.port = up[u].port /\ n.file = up[u].file
  BY <1>2, <1>4, MovedFacts
<1> HIDE DEF n
<1>6. \/ rec' = rec /\ ~(rec # Absent /\ rec.at = u)
      \/ /\ rec # Absent /\ rec.at = u /\ rec' \in RunRecord /\ rec' # Absent
         /\ rec'.at = u /\ rec'.port = rec.port /\ rec'.pid = rec.pid
         /\ ~rec'.torn /\ rec'.old = rec.old
  <2>1. CASE rec # Absent /\ rec.at = u
    <3>1. rec' = [rec EXCEPT !.torn = FALSE] /\ rec \in RunRecord BY <1>1, <1>2, <2>1
    <3>2. rec' \in RunRecord BY <3>1 DEF RunRecord
    <3>3. rec'.at = rec.at /\ rec'.port = rec.port /\ rec'.pid = rec.pid
      BY <3>1 DEF RunRecord
    <3>4. ~rec'.torn /\ rec'.old = rec.old
      BY <3>1 DEF RunRecord
    <3> QED BY <2>1, <3>2, <3>3, <3>4, AbsentAssumption
  <2>2. CASE ~(rec # Absent /\ rec.at = u) BY <1>1, <2>2
  <2> QED BY <2>1, <2>2
<1>7. rec' \in RunRecord \cup {Absent} /\ RecLife(rec', dmn)
  BY <1>2, <1>6 DEF LifeInv, RecLife
<1>8. ASSUME Undisrupted
      PROVE  /\ SlotShared(rec', dmn) /\ RecSlot(rec') /\ rec'.at = u
             /\ UpSlot(u, n, rec', dmn) /\ Claimed(u, n, rec')
  <2>1. UpSlot(u, up[u], rec, dmn) /\ SlotShared(rec, dmn) /\ RecSlot(rec)
    BY <1>2, <1>8 DEF MayBe, LifeInv, SlotInv
  <2>2. rec # Absent /\ rec.at = u /\ rec.pid = Absent BY <2>1, <1>1 DEF UpSlot, Claims
  <2>3. rec' # Absent /\ rec'.at = u /\ rec'.pid = Absent /\ ~rec'.torn /\ rec'.old = rec.old
    BY <2>2, <1>6
  <2>4. ~rec.old BY <2>1, <2>2 DEF RecSlot
  <2>5. RecSlot(rec') BY <2>3, <2>4 DEF RecSlot
  <2>6. SlotShared(rec', dmn) BY <2>1, <2>2, <2>3 DEF SlotShared
  <2>7. UpSlot(u, n, rec', dmn) /\ Claimed(u, n, rec')
    BY <1>5, <2>3 DEF UpSlot, Claimed, Claims
  <2> QED BY <2>3, <2>5, <2>6, <2>7
<1>9. UpShape(n, conf) /\ UpLife(n, dmn[u])
  BY <1>1, <1>2, <1>5 DEF MayBe, UpShape, UpLife, Early, GaveUp
<1>10. KeyScene => UpKey(n, conf, scene.atomic) BY <1>2, <1>5 DEF MayBe, UpKey
<1> QED BY <1>1, <1>3, <1>5, <1>7, <1>8, <1>9, <1>10, RecFrame DEF MayBe

LEMMA LoseClaimStep ==
    ASSUME LifeInv, NEW u \in Ups, NEW cls \in Classes, LoseClaim(u, cls)
    PROVE  LifeInv'
<1>1. up[u].pc = "lost" /\ Undisturbed(u) /\ OnlyUp BY DEF LoseClaim, At
<1>2. /\ up[u] \in UpState /\ up \in [Ups -> UpState] /\ dmn \in DaemonsT
      /\ MayBe(u, up[u], rec, conf, dmn)
  BY UpHas
<1>3. /\ up[u].port \in Ports /\ dmn[u].st = "none"
      /\ up[u].lost \in RunRecord /\ up[u].lost.port \in Ports
  BY <1>1, <1>2 DEF MayBe, UpShape, UpLife, Early, RunRecord
<1>4. ~Claims(up[u]) /\ ~GaveUp(up[u]) BY <1>1 DEF Claims, GaveUp
<1>5. Undisrupted => (rec # Absent /\ rec.at = u => rec.pid # Absent) BY <1>4, NoClaim
<1>k. KeyScene => (up[u].file # Absent /\ up[u].file.key # Absent => HasKey(conf, up[u].file.key))
  BY <1>2 DEF MayBe, UpKey
<1>6. ASSUME NEW pc \in {"found", "other"},
             up' = [up EXCEPT ![u].pc = pc, ![u].port = up[u].lost.port]
      PROVE  LifeInv'
  <2> DEFINE n == [up[u] EXCEPT !.pc = pc, !.port = up[u].lost.port]
  <2>1. up' = [up EXCEPT ![u] = n] BY <1>2, <1>6
  <2>2. pc \in UpPcs /\ up[u].lost.port \in PortOr BY <1>3 DEF UpPcs, Awaits, PortOr
  <2>3. n \in UpState /\ n.pc = pc /\ n.port = up[u].lost.port /\ n.file = up[u].file
    BY <1>2, <2>2, UpStateIs DEF UpT
  <2> HIDE DEF n
  <2>4. UpShape(n, conf) /\ UpLife(n, dmn[u])
    BY <1>3, <2>3 DEF UpShape, UpLife, Early, GaveUp
  <2>5. Undisrupted => UpSlot(u, n, rec, dmn) /\ Claimed(u, n, rec)
    BY <1>5, <2>3 DEF UpSlot, Claimed, Claims
  <2>6. KeyScene => UpKey(n, conf, scene.atomic) BY <1>k, <2>3 DEF UpKey
  <2> QED BY <1>1, <2>1, <2>3, <2>4, <2>5, <2>6, UpFrame DEF MayBe
<1>7. ASSUME \/ up[u].lost.torn
             \/ up[u].lost.pid # Absent /\ ~pidIsOurs(up[u].lost.pid)
             \/ up[u].lost.pid = Absent /\ up[u].lost.old,
             up' = [up EXCEPT ![u].pc = "check", ![u].code = "retry"]
      PROVE  LifeInv'
  <2> DEFINE n == [up[u] EXCEPT !.pc = "check", !.code = "retry"]
  <2>1. up' = [up EXCEPT ![u] = n] BY <1>2, <1>7
  <2>2. "check" \in UpPcs /\ "retry" \in Codes BY DEF UpPcs, Codes
  <2>3. /\ n \in UpState /\ n.pc = "check" /\ n.port = up[u].port /\ n.file = up[u].file
        /\ n.lost = up[u].lost /\ n.code = "retry"
    BY <1>2, <2>2, UpStateIs DEF UpT
  <2> HIDE DEF n
  <2>4. UpShape(n, conf) /\ UpLife(n, dmn[u])
    BY <1>3, <2>3 DEF UpShape, UpLife, Early, GaveUp
  <2>5. ASSUME Undisrupted
        PROVE  /\ ~up[u].lost.torn /\ up[u].lost.pid = up[u].lost.at
               /\ dmn[up[u].lost.at].st = "dead"
    <3>1. /\ ~up[u].lost.torn /\ up[u].lost.pid = up[u].lost.at /\ RecLife(up[u].lost, dmn)
      BY <1>1, <1>2, <2>5 DEF MayBe, UpSlot
    <3>2. up[u].lost.at \in Pids /\ up[u].lost.at # Absent /\ up[u].lost # Absent
      BY <1>3, AbsentAssumption DEF RunRecord
    <3>3. dmn[up[u].lost.at].st \notin {"boot", "serving", "silent", "stopping"}
      BY <3>1, <3>2, <1>7 DEF pidIsOurs
    <3>4. dmn[up[u].lost.at].st # "none" BY <3>1, <3>2 DEF RecLife
    <3>5. dmn[up[u].lost.at].st # "stranded" BY <2>5, <3>2 DEF LifeInv, SlotInv, SlotShared
    <3> QED BY <3>1, <3>2, <3>3, <3>4, <3>5, <1>2, DaemonSt DEF Live
  <2>6. Undisrupted => UpSlot(u, n, rec, dmn) /\ Claimed(u, n, rec)
    BY <1>5, <2>3, <2>5 DEF UpSlot, Claimed, Claims
  <2>7. KeyScene => UpKey(n, conf, scene.atomic) BY <1>k, <2>3 DEF UpKey
  <2> QED BY <1>1, <2>1, <2>3, <2>4, <2>6, <2>7, UpFrame DEF MayBe
<1>8. \/ \E pc \in {"found", "other"} : up' = [up EXCEPT ![u].pc = pc, ![u].port = up[u].lost.port]
      \/ /\ \/ up[u].lost.torn
            \/ up[u].lost.pid # Absent /\ ~pidIsOurs(up[u].lost.pid)
            \/ up[u].lost.pid = Absent /\ up[u].lost.old
         /\ up' = [up EXCEPT ![u].pc = "check", ![u].code = "retry"]
  BY DEF LoseClaim
<1> QED BY <1>6, <1>7, <1>8
\* What the removal of a record may leave behind.
LEMMA AfterRemovalStep ==
    ASSUME LifeInv, NEW u \in Ups, Undisturbed(u), UpNoRec, up[u].pc \in {"check", "unlink"},
           AfterRemoval(u), rec' = rec \/ rec' = Absent,
           Undisrupted => /\ rec' # rec => \A p \in Pids : dmn[p].st \notin Live
                          /\ rec' # Absent /\ rec'.at = u => rec'.pid # Absent
    PROVE  LifeInv'
<1>2. /\ up[u] \in UpState /\ up \in [Ups -> UpState] /\ rec \in RunRecord \cup {Absent}
      /\ MayBe(u, up[u], rec, conf, dmn)
  BY UpHas
<1>3. rec' \in RunRecord \cup {Absent} /\ RecLife(rec', dmn)
  BY <1>2 DEF LifeInv, RecLife
<1>4. Undisrupted => SlotShared(rec', dmn) /\ RecSlot(rec')
  BY DEF LifeInv, SlotInv, SlotShared, RecSlot
<1>5. CASE Go(u, "exit1")
  <2> DEFINE n == Moved(up[u], "exit1")
  <2>1. up' = [up EXCEPT ![u] = n] BY <1>2, <1>5, GoIs
  <2>2. "exit1" \in UpPcs /\ "exit1" \in Ended BY DEF UpPcs, Awaits, Ended
  <2>3. n \in UpState /\ n.pc = "exit1" /\ n.file = Absent BY <1>2, <2>2, MovedFacts
  <2> HIDE DEF n
  <2>4. MayBe(u, n, rec', conf, dmn) BY <2>2, <2>3, EndedMayBe
  <2> QED BY <1>3, <1>4, <2>1, <2>3, <2>4, RecFrame
<1>6. CASE /\ up[u].code # "exit1"
           /\ up' = [up EXCEPT ![u].pc = "claim", ![u].tries = 2, ![u].code = "exit1",
                               ![u].lost = Absent]
  <2> DEFINE n == [up[u] EXCEPT !.pc = "claim", !.tries = 2, !.code = "exit1", !.lost = Absent]
  <2>1. up' = [up EXCEPT ![u] = n] BY <1>2, <1>6
  <2>2. "claim" \in UpPcs /\ "exit1" \in Codes /\ 2 \in Tries /\ Absent \in RecOr
    BY DEF UpPcs, Codes, Tries, RecOr
  <2>3. n \in UpState /\ n.pc = "claim" /\ n.port = up[u].port /\ n.file = up[u].file
    BY <1>2, <2>2, UpStateIs DEF UpT
  <2> HIDE DEF n
  <2>4. up[u].code = "retry" BY <1>2, <1>6 DEF UpState
  <2>5. UpShape(n, conf) /\ UpLife(n, dmn[u])
    BY <1>2, <2>3, <2>4 DEF MayBe, UpShape, UpLife, Early, GaveUp
  <2>6. Undisrupted => UpSlot(u, n, rec', dmn) /\ Claimed(u, n, rec')
    BY <2>3 DEF UpSlot, Claimed, Claims
  <2>7. KeyScene => UpKey(n, conf, scene.atomic) BY <1>2, <2>3 DEF MayBe, UpKey
  <2>8. MayBe(u, n, rec', conf, dmn) BY <2>5, <2>6, <2>7 DEF MayBe
  <2> QED BY <1>3, <1>4, <2>1, <2>3, <2>8, RecFrame
<1> QED BY <1>5, <1>6 DEF AfterRemoval

LEMMA CheckRecordStep ==
    ASSUME LifeInv, NEW u \in Ups, CheckRecord(u)
    PROVE  LifeInv'
<1>1. up[u].pc = "check" /\ Undisturbed(u) /\ OnlyUp BY DEF CheckRecord, At
<1>2. up[u] \in UpState /\ MayBe(u, up[u], rec, conf, dmn) BY UpHas
<1>3. CASE Unchanged(up[u].lost) /\ Go(u, "unlink")
  <2>1. ASSUME NEW n \in UpState, n.pc = "unlink", n.port = up[u].port, n.file = up[u].file,
               n.lost = up[u].lost, n.code = up[u].code
        PROVE  MayBe(u, n, rec, conf, dmn)
    <3>1. UpShape(n, conf) /\ UpLife(n, dmn[u])
      BY <1>1, <1>2, <2>1 DEF MayBe, UpShape, UpLife, Early, GaveUp
    <3>2. Matches(rec, up[u].lost) BY <1>3 DEF Matches, Unchanged
    <3>3. Undisrupted => UpSlot(u, n, rec, dmn)
      BY <1>1, <1>2, <2>1, <3>2 DEF MayBe, UpSlot, Claims
    <3>4. Undisrupted => Claimed(u, n, rec)
      BY <1>1, <1>2, <2>1 DEF MayBe, Claimed, Claims, GaveUp
    <3>5. KeyScene => UpKey(n, conf, scene.atomic) BY <1>2, <2>1 DEF MayBe, UpKey
    <3> QED BY <3>1, <3>3, <3>4, <3>5 DEF MayBe
  <2>2. "unlink" \in UpPcs \ Ended BY DEF UpPcs, Ended
  <2> QED BY <1>1, <1>3, <2>1, <2>2, UpGoes
<1>4. CASE ~Unchanged(up[u].lost) /\ AfterRemoval(u)
  <2>1. UpNoRec /\ rec' = rec BY <1>1 DEF OnlyUp, UpNoRec
  <2>2. ASSUME Undisrupted, rec # Absent, rec.at = u, rec.pid = Absent PROVE FALSE
    <3>1. GaveUp(up[u]) /\ ~rec.torn
      BY <1>1, <1>2, <2>2 DEF MayBe, Claimed, Claims
    <3>2. up[u].code = "exit1" BY <1>1, <3>1 DEF GaveUp
    <3>3. ~up[u].lost.torn /\ up[u].lost.at = u
      BY <1>1, <1>2, <2>2, <3>2 DEF MayBe, UpSlot
    <3> QED BY <1>4, <2>2, <3>1, <3>3 DEF Unchanged
  <2> QED BY <1>1, <1>4, <2>1, <2>2, AfterRemovalStep
<1> QED BY <1>3, <1>4 DEF CheckRecord

LEMMA UnlinkRecordStep ==
    ASSUME LifeInv, NEW u \in Ups, UnlinkRecord(u)
    PROVE  LifeInv'
<1>1. up[u].pc = "unlink" /\ Undisturbed(u) /\ UpNoRec /\ rec' = Absent /\ AfterRemoval(u)
  BY DEF UnlinkRecord, At
<1>2. /\ up[u] \in UpState /\ MayBe(u, up[u], rec, conf, dmn) BY UpHas
<1>3. ASSUME Undisrupted, NEW p \in Pids, dmn[p].st \in Live PROVE FALSE
  <2>1. p = rec.at /\ rec # Absent BY <1>3 DEF LifeInv, SlotInv, SlotShared
  <2>2. Matches(rec, up[u].lost) BY <1>1, <1>2, <1>3 DEF MayBe, UpSlot
  <2>3. CASE up[u].code = "retry"
    <3>1. ~up[u].lost.torn /\ dmn[up[u].lost.at].st = "dead"
      BY <1>1, <1>2, <1>3, <2>3 DEF MayBe, UpSlot
    <3>2. rec.at = up[u].lost.at BY <2>2, <3>1 DEF Matches
    <3> QED BY <2>1, <3>1, <3>2, <1>3 DEF Live
  <2>4. CASE up[u].code = "exit1"
    <3>1. ~up[u].lost.torn /\ up[u].lost.at = u /\ dmn[u].st \in {"none", "dead"}
      BY <1>1, <1>2, <1>3, <2>4 DEF MayBe, UpSlot, UpLife, GaveUp
    <3>2. rec.at = u BY <2>2, <3>1 DEF Matches
    <3> QED BY <2>1, <3>1, <3>2, <1>3 DEF Live
  <2> QED BY <1>2, <2>3, <2>4 DEF UpState
<1> QED BY <1>1, <1>3, AfterRemovalStep

LEMMA GiveUpStep ==
    ASSUME LifeInv, NEW u \in Ups, GiveUp(u)
    PROVE  LifeInv'
<1> DEFINE own == [at |-> u, port |-> up[u].port, pid |-> Absent, torn |-> FALSE, old |-> FALSE]
           n == [up[u] EXCEPT !.pc = "check", !.code = "exit1", !.lost = own]
<1>1. up[u].pc = "giveup" /\ Undisturbed(u) /\ OnlyUp BY DEF GiveUp, At
<1>2. up[u] \in UpState /\ up \in [Ups -> UpState] /\ MayBe(u, up[u], rec, conf, dmn) BY UpHas
<1>3. up' = [up EXCEPT ![u] = n] BY <1>2 DEF GiveUp
<1>4. up[u].port \in Ports BY <1>1, <1>2 DEF MayBe, UpShape
<1>5. own \in RunRecord BY <1>4, UpPid DEF RunRecord
<1>6. own.at = u /\ own.torn = FALSE OBVIOUS
<1>7. "check" \in UpPcs /\ "exit1" \in Codes /\ own \in RecOr BY <1>5 DEF UpPcs, Codes, RecOr
<1> HIDE DEF own
<1>8. /\ n \in UpState /\ n.pc = "check" /\ n.port = up[u].port /\ n.file = up[u].file
      /\ n.lost = own /\ n.code = "exit1"
  BY <1>2, <1>7, UpStateIs DEF UpT
<1> HIDE DEF n
<1>9. UpShape(n, conf) /\ UpLife(n, dmn[u])
  BY <1>1, <1>2, <1>5, <1>8 DEF MayBe, UpShape, UpLife, Early, GaveUp
<1>10. Undisrupted => UpSlot(u, n, rec, dmn)
  BY <1>6, <1>8 DEF UpSlot, Claims
<1>11. Undisrupted => Claimed(u, n, rec)
  BY <1>1, <1>2, <1>8 DEF MayBe, Claimed, GaveUp
<1>12. KeyScene => UpKey(n, conf, scene.atomic) BY <1>2, <1>8 DEF MayBe, UpKey
<1> QED BY <1>1, <1>3, <1>8, <1>9, <1>10, <1>11, <1>12, UpFrame DEF MayBe
\* A claim that goes on, or is given up before the spawn.
LEMMA InClaim ==
    ASSUME LifeInv, NEW u \in Ups, Claims(up[u]), up[u].pc \notin {"fill", "pid"},
           NEW n, n.port = up[u].port, Claims(n) \/ n.pc = "giveup", n.pc \notin {"fill", "pid"}
    PROVE  /\ UpLife(n, dmn[u])
           /\ Undisrupted => UpSlot(u, n, rec, dmn) /\ Claimed(u, n, rec)
           /\ up[u].port \in Ports
<1>1. MayBe(u, up[u], rec, conf, dmn) BY UpHas
<1>2. dmn[u].st = "none" /\ up[u].port \in Ports
  BY <1>1 DEF MayBe, UpLife, UpShape, Claims, Early
<1>3. UpLife(n, dmn[u]) BY <1>2 DEF UpLife, Claims, Early, GaveUp
<1>4. ASSUME Undisrupted PROVE UpSlot(u, n, rec, dmn) /\ Claimed(u, n, rec)
  <2>1. rec # Absent /\ rec.at = u /\ rec.pid = Absent
    BY <1>1, <1>4 DEF MayBe, UpSlot
  <2>2. ~rec.torn BY <1>1, <1>4, <2>1 DEF MayBe, Claimed
  <2>3. Claimed(u, n, rec) BY <2>2 DEF Claimed, GaveUp
  <2>4. UpSlot(u, n, rec, dmn) BY <2>1 DEF UpSlot, Claims
  <2> QED BY <2>3, <2>4
<1> QED BY <1>2, <1>3, <1>4

LEMMA ClaimGivesUp ==
    ASSUME LifeInv, NEW u \in Ups, Undisturbed(u), OnlyUp, Claims(up[u]),
           up[u].pc \notin {"fill", "pid"}, Go(u, "giveup")
    PROVE  LifeInv'
<1>1. MayBe(u, up[u], rec, conf, dmn) BY UpHas
<1>2. ASSUME NEW n \in UpState, n.pc = "giveup", n.port = up[u].port, n.file = up[u].file
      PROVE  MayBe(u, n, rec, conf, dmn)
  <2>1. /\ UpLife(n, dmn[u])
        /\ Undisrupted => UpSlot(u, n, rec, dmn) /\ Claimed(u, n, rec)
        /\ up[u].port \in Ports
    BY <1>2, InClaim
  <2>2. UpShape(n, conf) BY <1>2, <2>1 DEF UpShape
  <2>3. KeyScene => UpKey(n, conf, scene.atomic) BY <1>1, <1>2 DEF MayBe, UpKey
  <2> QED BY <2>1, <2>2, <2>3 DEF MayBe
<1>3. "giveup" \in UpPcs \ Ended BY DEF UpPcs, Ended
<1> QED BY <1>2, <1>3, UpGoes

LEMMA CheckGuardsStep ==
    ASSUME LifeInv, NEW u \in Ups, CheckGuards(u)
    PROVE  LifeInv'
<1>1. up[u].pc = "guards" /\ Undisturbed(u) /\ OnlyUp BY DEF CheckGuards, At
<1>2. up[u] \in UpState /\ up \in [Ups -> UpState] /\ MayBe(u, up[u], rec, conf, dmn) BY UpHas
<1>3. Claims(up[u]) BY <1>1 DEF Claims
<1>4. CASE Go(u, "giveup") BY <1>1, <1>3, <1>4, ClaimGivesUp
<1> DEFINE f == IF up[u].file = Absent THEN NoConfig ELSE up[u].file
           add == [NoConfig EXCEPT !.key = IF f.key = Absent THEN u ELSE Absent,
                                   !.tok = IF f.tok = Absent THEN u ELSE Absent]
           pc == IF add = NoConfig THEN "spawn" ELSE "create"
           n == [up[u] EXCEPT !.pc = pc, !.add = add, !.back = "reread"]
<1>5. CASE up' = [up EXCEPT ![u].pc = pc, ![u].add = add, ![u].back = "reread"]
  <2>0. up' = [up EXCEPT ![u] = n] BY <1>2, <1>5
  <2>1. up[u].file \in Config \cup {Absent} /\ NoConfig \in Config
    BY <1>2 DEF UpState, Config, NoConfig
  <2>2. f \in Config BY <2>1
  <2>3. add.key = IF f.key = Absent THEN u ELSE Absent BY DEF NoConfig
  <2>4. add \in Config BY UpPid DEF NoConfig, Config
  <2>5. add = NoConfig => f.key # Absent
    BY <2>3, UpPid DEF NoConfig
  <2>6. f.key # Absent => up[u].file \in Config /\ up[u].file.key \in Pids
    BY <2>1, <2>2 DEF NoConfig, Config
  <2>7. pc \in {"spawn", "create"} /\ (pc = "spawn" => f.key # Absent) BY <2>5
  <2>8. pc \in UpPcs /\ "reread" \in Backs BY <2>7 DEF UpPcs, Backs
  <2>9. add.key = Absent => f.key # Absent BY <2>3, UpPid
  <2> HIDE DEF f, add, pc
  <2>10. /\ n \in UpState /\ n.pc = pc /\ n.port = up[u].port /\ n.file = up[u].file
         /\ n.add = add /\ n.back = "reread"
    BY <1>2, <2>4, <2>8, UpStateIs DEF UpT
  <2> HIDE DEF n
  <2>11. /\ UpLife(n, dmn[u])
         /\ Undisrupted => UpSlot(u, n, rec, dmn) /\ Claimed(u, n, rec)
         /\ up[u].port \in Ports
    BY <1>1, <1>3, <2>7, <2>10, InClaim DEF Claims
  <2>12. UpShape(n, conf) BY <2>6, <2>7, <2>10, <2>11 DEF UpShape
  <2>13. KeyScene => UpKey(n, conf, scene.atomic)
    <3>1. KeyScene => (f.key # Absent => conf # Absent)
      BY <1>2, <2>6, AbsentAssumption DEF MayBe, UpKey, HasKey
    <3> QED BY <1>2, <2>7, <2>9, <2>10, <3>1 DEF MayBe, UpKey
  <2> QED BY <1>1, <2>0, <2>10, <2>11, <2>12, <2>13, UpFrame DEF MayBe
<1> QED BY <1>4, <1>5 DEF CheckGuards

\* The config write: for the secrets it is part of the claim, for the port not.
Writes(s) == s.pc \in {"create", "merge", "rename"}

LEMMA WriteGoesOn ==
    ASSUME LifeInv, NEW u \in Ups, Writes(up[u]), NEW n, n.port = up[u].port, n.back = up[u].back,
           n.pc \in {"create", "merge", "rename"} \/ (n.pc = "reread" /\ n.back = "reread")
    PROVE  /\ UpLife(n, dmn[u]) /\ up[u].port \in Ports
           /\ Undisrupted => UpSlot(u, n, rec, dmn) /\ Claimed(u, n, rec)
<1>1. up[u] \in UpState /\ MayBe(u, up[u], rec, conf, dmn) BY UpHas
<1>2. CASE up[u].back = "reread"
  <2>1. Claims(up[u]) /\ Claims(n) BY <1>2 DEF Claims, Writes
  <2> QED BY <2>1, InClaim DEF Writes
<1>3. CASE up[u].back = "exit0"
  <2>1. ~Claims(up[u]) /\ ~GaveUp(up[u]) /\ ~Claims(n) /\ ~GaveUp(n) /\ ~Early(n)
    BY <1>3 DEF Claims, GaveUp, Writes, Early
  <2>2. up[u].port \in Ports BY <1>1 DEF MayBe, UpShape, Writes
  <2>3. UpLife(n, dmn[u]) BY <1>3, <2>1 DEF UpLife
  <2>4. Undisrupted => UpSlot(u, n, rec, dmn) /\ Claimed(u, n, rec)
    BY <2>1, NoClaim DEF UpSlot, Claimed
  <2> QED BY <2>2, <2>3, <2>4
<1> QED BY <1>1, <1>2, <1>3 DEF UpState

\* The write is done: the next place, whatever the file holds then.
LEMMA WriteReturns ==
    ASSUME LifeInv, NEW u \in Ups, Writes(up[u]), NEW c \in Config,
           KeyScene => \A k : k # Absent /\ HasKey(conf, k) => HasKey(c, k)
    PROVE  LET n == Moved(up[u], up[u].back) IN
           n \in UpState /\ MayBe(u, n, rec, c, dmn)
<1> DEFINE n == Moved(up[u], up[u].back)
<1> SUFFICES n \in UpState /\ MayBe(u, n, rec, c, dmn) OBVIOUS
<1>1. up[u] \in UpState /\ MayBe(u, up[u], rec, conf, dmn) BY UpHas
<1>2. CASE up[u].back = "reread"
  <2>1. "reread" \in UpPcs /\ "reread" \notin Ended BY DEF UpPcs, Ended
  <2>2. /\ n \in UpState /\ n.pc = "reread" /\ n.port = up[u].port /\ n.file = up[u].file
        /\ n.back = "reread"
    BY <1>1, <1>2, <2>1, MovedFacts
  <2> HIDE DEF n
  <2>3. /\ UpLife(n, dmn[u]) /\ up[u].port \in Ports
        /\ Undisrupted => UpSlot(u, n, rec, dmn) /\ Claimed(u, n, rec)
    BY <1>2, <2>2, WriteGoesOn
  <2>4. UpShape(n, c) BY <2>2, <2>3 DEF UpShape
  <2>5. KeyScene => UpKey(n, c, scene.atomic) BY <1>1, <2>2 DEF MayBe, UpKey
  <2> QED BY <2>2, <2>3, <2>4, <2>5 DEF MayBe
<1>3. CASE up[u].back = "exit0"
  <2>1. "exit0" \in UpPcs /\ "exit0" \in Ended BY DEF UpPcs, Awaits, Ended
  <2>2. n \in UpState /\ n.pc = "exit0" /\ n.file = Absent BY <1>1, <1>3, <2>1, MovedFacts
  <2> HIDE DEF n
  <2>3. ~Claims(up[u]) /\ ~GaveUp(up[u]) BY <1>3 DEF Claims, GaveUp, Writes
  <2>4. MayBe(u, n, rec, c, dmn) BY <2>1, <2>2, <2>3, NoClaim, EndedMayBe
  <2> QED BY <2>2, <2>4
<1> QED BY <1>1, <1>2, <1>3 DEF UpState

LEMMA CreateConfigStep ==
    ASSUME LifeInv, NEW u \in Ups, CreateConfig(u)
    PROVE  LifeInv'
<1>1. /\ up[u].pc = "create" /\ Undisturbed(u)
      /\ UNCHANGED <<scene, rec, store, dmn, ext, down, struck>>
  BY DEF CreateConfig, At
<1>2. /\ up[u] \in UpState /\ up \in [Ups -> UpState] /\ conf \in Config \cup {Absent}
      /\ MayBe(u, up[u], rec, conf, dmn)
  BY UpHas
<1>w. Writes(up[u]) BY <1>1 DEF Writes
<1>3. CASE conf = Absent /\ conf' = up[u].add /\ Go(u, up[u].back)
  <2>1. up[u].add \in Config BY <1>2 DEF UpState
  <2>2. up' = [up EXCEPT ![u] = Moved(up[u], up[u].back)] BY <1>2, <1>3, GoIs
  <2>3. \A k : ~HasKey(conf, k) BY <1>3 DEF HasKey
  <2>4. Moved(up[u], up[u].back) \in UpState /\ MayBe(u, Moved(up[u], up[u].back), rec, conf', dmn)
    BY <1>3, <1>w, <2>1, <2>3, WriteReturns
  <2>5. KeyScene => (~scene.atomic => conf'.key # Absent)
    BY <1>1, <1>2, <1>3 DEF MayBe, UpKey
  <2> QED BY <1>1, <1>3, <2>1, <2>2, <2>4, <2>5, ConfFrame
<1>4. CASE conf # Absent /\ conf' = conf /\ Go(u, "merge")
  <2>1. OnlyUp BY <1>1, <1>4 DEF OnlyUp
  <2>2. ASSUME NEW n \in UpState, n.pc = "merge", n.port = up[u].port, n.file = up[u].file,
               n.back = up[u].back
        PROVE  MayBe(u, n, rec, conf, dmn)
    <3>1. /\ UpLife(n, dmn[u]) /\ up[u].port \in Ports
          /\ Undisrupted => UpSlot(u, n, rec, dmn) /\ Claimed(u, n, rec)
      BY <1>w, <2>2, WriteGoesOn
    <3>2. UpShape(n, conf) BY <1>2, <1>4, <2>2, <3>1 DEF UpShape
    <3>3. KeyScene => UpKey(n, conf, scene.atomic) BY <1>2, <2>2 DEF MayBe, UpKey
    <3> QED BY <3>1, <3>2, <3>3 DEF MayBe
  <2>3. "merge" \in UpPcs \ Ended BY DEF UpPcs, Ended
  <2> QED BY <1>1, <1>4, <2>1, <2>2, <2>3, UpGoes
<1> QED BY <1>3, <1>4 DEF CreateConfig

LEMMA WithAbsentFacts ==
    ASSUME NEW c \in Config, NEW add \in Config
    PROVE  /\ WithAbsent(c, add) \in Config
           /\ c.key # Absent => WithAbsent(c, add).key = c.key
BY DEF WithAbsent, Config

LEMMA MergeReadStep ==
    ASSUME LifeInv, NEW u \in Ups, MergeRead(u)
    PROVE  LifeInv'
<1> DEFINE text == WithAbsent(conf, up[u].add)
           pc == IF text = conf THEN up[u].back ELSE "rename"
           n == [up[u] EXCEPT !.pc = pc, !.text = text]
<1>1. up[u].pc = "merge" /\ Undisturbed(u) /\ OnlyUp BY DEF MergeRead, At
<1>2. /\ up[u] \in UpState /\ up \in [Ups -> UpState]
      /\ MayBe(u, up[u], rec, conf, dmn)
  BY UpHas
<1>w. Writes(up[u]) BY <1>1 DEF Writes
<1>3. conf \in Config BY <1>1, <1>2 DEF MayBe, UpShape
<1>4. up[u].add \in Config /\ up[u].back \in {"reread", "exit0"} BY <1>2 DEF UpState
<1>5. text \in Config /\ (conf.key # Absent => text.key = conf.key)
  BY <1>3, <1>4, WithAbsentFacts
<1>6. up' = [up EXCEPT ![u] = n] BY <1>2 DEF MergeRead
<1>7. pc \in {"rename", up[u].back} /\ pc \in UpPcs /\ text \in ConfOr
  BY <1>4, <1>5 DEF UpPcs, Awaits, ConfOr
<1> HIDE DEF text, pc
<1>8. /\ n \in UpState /\ n.pc = pc /\ n.port = up[u].port /\ n.file = up[u].file
      /\ n.back = up[u].back /\ n.text = text
  BY <1>2, <1>7, UpStateIs DEF UpT
<1> HIDE DEF n
<1>9. CASE pc = "rename" \/ up[u].back = "reread"
  <2>1. /\ UpLife(n, dmn[u]) /\ up[u].port \in Ports
        /\ Undisrupted => UpSlot(u, n, rec, dmn) /\ Claimed(u, n, rec)
    BY <1>w, <1>4, <1>7, <1>8, <1>9, WriteGoesOn
  <2>2. UpShape(n, conf) BY <1>3, <1>5, <1>7, <1>8, <1>9, <2>1 DEF UpShape
  <2>3. ASSUME KeyScene PROVE UpKey(n, conf, scene.atomic)
    <3>1. conf # Absent BY <1>3, AbsentAssumption
    <3>2. ~scene.atomic => conf.key # Absent BY <2>3, <3>1 DEF LifeInv, KeyInv, KeyShared
    <3>3. pc # "create" BY <1>4, <1>7
    <3> QED BY <1>2, <1>5, <1>8, <2>3, <3>2, <3>3 DEF MayBe, UpKey
  <2> QED BY <1>1, <1>6, <1>8, <2>1, <2>2, <2>3, UpFrame DEF MayBe
<1>10. CASE pc = "exit0" /\ up[u].back = "exit0"
  <2>1. ~Claims(up[u]) /\ ~GaveUp(up[u]) BY <1>1, <1>10 DEF Claims, GaveUp
  <2>2. UpShape(n, conf) /\ UpLife(n, dmn[u])
    BY <1>8, <1>10 DEF UpShape, UpLife, Early, GaveUp
  <2>3. Undisrupted => UpSlot(u, n, rec, dmn) /\ Claimed(u, n, rec)
    BY <1>8, <1>10, <2>1, NoClaim DEF UpSlot, Claimed, Claims
  <2>4. KeyScene => UpKey(n, conf, scene.atomic) BY <1>2, <1>8, <1>10 DEF MayBe, UpKey
  <2> QED BY <1>1, <1>6, <1>8, <2>2, <2>3, <2>4, UpFrame DEF MayBe
<1> QED BY <1>4, <1>7, <1>9, <1>10

LEMMA MergeRenameStep ==
    ASSUME LifeInv, NEW u \in Ups, MergeRename(u)
    PROVE  LifeInv'
<1>1. /\ up[u].pc = "rename" /\ Undisturbed(u) /\ conf' = up[u].text /\ Go(u, up[u].back)
      /\ UNCHANGED <<scene, rec, store, dmn, ext, down, struck>>
  BY DEF MergeRename, At
<1>2. /\ up[u] \in UpState /\ up \in [Ups -> UpState]
      /\ MayBe(u, up[u], rec, conf, dmn)
  BY UpHas
<1>w. Writes(up[u]) BY <1>1 DEF Writes
<1>3. conf \in Config /\ conf' \in Config /\ conf # Absent /\ conf' # Absent
  BY <1>1, <1>2, AbsentAssumption DEF MayBe, UpShape
<1>4. KeyScene => /\ conf.key # Absent => conf'.key = conf.key
                  /\ ~scene.atomic => conf'.key # Absent
  BY <1>1, <1>2 DEF MayBe, UpKey
<1>5. KeyScene => \A k : k # Absent /\ HasKey(conf, k) => HasKey(conf', k)
  BY <1>3, <1>4 DEF HasKey
<1>6. Moved(up[u], up[u].back) \in UpState /\ MayBe(u, Moved(up[u], up[u].back), rec, conf', dmn)
  BY <1>w, <1>3, <1>5, WriteReturns
<1>7. up' = [up EXCEPT ![u] = Moved(up[u], up[u].back)] BY <1>1, <1>2, GoIs
<1> QED BY <1>1, <1>3, <1>4, <1>6, <1>7, ConfFrame

LEMMA ReadBackStep ==
    ASSUME LifeInv, NEW u \in Ups, ReadBack(u)
    PROVE  LifeInv'
<1> DEFINE pc == IF conf.key # Absent /\ conf.tok # Absent THEN "spawn" ELSE "giveup"
           n == [up[u] EXCEPT !.file = conf, !.pc = pc]
<1>1. up[u].pc = "reread" /\ Undisturbed(u) /\ OnlyUp BY DEF ReadBack, At
<1>2. /\ up[u] \in UpState /\ up \in [Ups -> UpState]
      /\ MayBe(u, up[u], rec, conf, dmn)
  BY UpHas
<1>3. conf \in Config BY <1>1, <1>2 DEF MayBe, UpShape
<1>4. up' = [up EXCEPT ![u] = n] BY <1>2 DEF ReadBack
<1>5. pc \in {"spawn", "giveup"} /\ (pc = "spawn" => conf.key \in Pids) BY <1>3 DEF Config
<1>6. pc \in UpPcs /\ conf \in ConfOr BY <1>3, <1>5 DEF UpPcs, ConfOr
<1> HIDE DEF pc
<1>7. n \in UpState /\ n.pc = pc /\ n.port = up[u].port /\ n.file = conf
  BY <1>2, <1>6, UpStateIs DEF UpT
<1> HIDE DEF n
<1>8. /\ UpLife(n, dmn[u]) /\ up[u].port \in Ports
      /\ Undisrupted => UpSlot(u, n, rec, dmn) /\ Claimed(u, n, rec)
  BY <1>1, <1>5, <1>7, InClaim DEF Claims
<1>9. UpShape(n, conf) BY <1>3, <1>5, <1>7, <1>8 DEF UpShape
<1>10. KeyScene => UpKey(n, conf, scene.atomic) BY <1>5, <1>7 DEF UpKey, HasKey
<1> QED BY <1>1, <1>4, <1>7, <1>8, <1>9, <1>10, UpFrame DEF MayBe
-----------------------------------------------------------------------------
(* The spawn, the wait, and what a found engine leads to.                  *)

\* The daemon of u is new; the others are as they were.
LEMMA Spawned ==
    ASSUME LifeInv, NEW u \in Ups, up[u].pc = "spawn"
    PROVE  LET q == [st |-> "boot", port |-> up[u].port,
                     key |-> up[u].file.key, tok |-> up[u].file.tok]
               dn == [dmn EXCEPT ![u] = q]
           IN  /\ dn \in DaemonsT /\ dn[u].st = "boot" /\ dn[u].port = up[u].port
               /\ dn[u].key = up[u].file.key /\ up[u].file.key \in Pids
               /\ \A p \in Pids \ {u} : dn[p] = dmn[p]
               /\ dmn[u].st = "none"
<1> DEFINE q == [st |-> "boot", port |-> up[u].port,
                 key |-> up[u].file.key, tok |-> up[u].file.tok]
           dn == [dmn EXCEPT ![u] = q]
<1>1. up[u] \in UpState /\ dmn \in DaemonsT /\ MayBe(u, up[u], rec, conf, dmn) BY UpHas
<1>2. /\ up[u].port \in Ports /\ up[u].file \in Config /\ up[u].file.key \in Pids
      /\ dmn[u].st = "none"
  BY <1>1 DEF MayBe, UpShape, UpLife, Early
<1>3. up[u].file.tok \in Pids \cup {Absent} BY <1>2 DEF Config
<1>4. q \in Daemon BY <1>2, <1>3 DEF Daemon
<1>5. q.st = "boot" /\ q.port = up[u].port /\ q.key = up[u].file.key OBVIOUS
<1> HIDE DEF q
<1>6. dn \in DaemonsT /\ dn[u] = q /\ \A p \in Pids \ {u} : dn[p] = dmn[p]
  BY <1>1, <1>4, UpPid DEF DaemonsT
<1> QED BY <1>2, <1>5, <1>6 DEF q

LEMMA SpawnEngineStep ==
    ASSUME LifeInv, NEW u \in Ups, SpawnEngine(u)
    PROVE  LifeInv'
<1>1. /\ up[u].pc = "spawn" /\ Undisturbed(u)
      /\ UNCHANGED <<scene, rec, conf, store, ext, down, struck>>
  BY DEF SpawnEngine, At
<1>2. /\ up[u] \in UpState /\ up \in [Ups -> UpState] /\ dmn \in DaemonsT
      /\ MayBe(u, up[u], rec, conf, dmn)
  BY UpHas
<1>c. Claims(up[u]) BY <1>1 DEF Claims
<1>3. CASE Go(u, "giveup") /\ dmn' = dmn
  <2>1. OnlyUp BY <1>1, <1>3 DEF OnlyUp
  <2> QED BY <1>1, <1>c, <1>3, <2>1, ClaimGivesUp
<1>4. CASE /\ dmn' = [dmn EXCEPT ![u] = [st |-> "boot", port |-> up[u].port,
                                        key |-> up[u].file.key, tok |-> up[u].file.tok]]
           /\ up' = [up EXCEPT ![u].pc = "pid", ![u].file = Absent, ![u].add = NoConfig,
                              ![u].text = Absent]
  <2> DEFINE n == [up[u] EXCEPT !.pc = "pid", !.file = Absent, !.add = NoConfig, !.text = Absent]
  <2>1. up' = [up EXCEPT ![u] = n] BY <1>2, <1>4
  <2>2. "pid" \in UpPcs /\ NoConfig \in Config /\ Absent \in ConfOr
    BY DEF UpPcs, NoConfig, Config, ConfOr
  <2>3. n \in UpState /\ n.pc = "pid" /\ n.port = up[u].port /\ n.file = Absent
    BY <1>2, <2>2, UpStateIs DEF UpT
  <2> HIDE DEF n
  <2>4. /\ dmn' \in DaemonsT /\ dmn'[u].st = "boot" /\ dmn'[u].port = up[u].port
        /\ dmn'[u].key = up[u].file.key /\ up[u].file.key \in Pids
        /\ \A p \in Pids \ {u} : dmn'[p] = dmn[p]
        /\ dmn[u].st = "none"
    BY <1>1, <1>4, Spawned
  <2>5. /\ OneStretch' /\ up' \in [Ups -> UpState]
        /\ up'[u] = n /\ \A v \in Ups \ {u} : up'[v] = up[v]
    BY <1>1, <2>1, <2>3, UpStretch
  <2>6. LifeTypeOK' BY <1>1, <2>4, <2>5 DEF LifeInv, LifeTypeOK, DaemonsT
  <2>7. SceneOK' BY <1>1 DEF LifeInv, SceneOK
  \* No record names a daemon that was not there.
  <2>8. \A r \in RunRecord \cup {Absent} : RecLife(r, dmn) => RecLife(r, dmn')
    <3> SUFFICES ASSUME NEW r \in RunRecord \cup {Absent}, RecLife(r, dmn), r # Absent, r.pid # Absent
                 PROVE  r.at = r.pid /\ dmn'[r.pid].st # "none" /\ dmn'[r.pid].port = r.port
      BY DEF RecLife
    <3>1. r.pid \in Pids BY DEF RunRecord
    <3>2. r.pid # u BY <2>4 DEF RecLife
    <3> QED BY <3>1, <3>2, <2>4 DEF RecLife
  <2>9. \A v \in Ups : UpShape(up'[v], conf') /\ UpLife(up'[v], dmn'[v])
    <3> SUFFICES ASSUME NEW v \in Ups PROVE UpShape(up'[v], conf) /\ UpLife(up'[v], dmn'[v])
      BY <1>1
    <3>1. CASE v = u
      <4>1. up[u].port \in Ports BY <1>1, <1>2 DEF MayBe, UpShape
      <4> QED BY <3>1, <4>1, <2>3, <2>4, <2>5 DEF UpShape, UpLife, Early, GaveUp
    <3>2. CASE v # u BY <3>2, <2>4, <2>5, UpPid DEF LifeInv
    <3> QED BY <3>1, <3>2
  <2>10. \A d \in Downs : DownLife(down'[d], dmn')
    <3> SUFFICES ASSUME NEW d \in Downs PROVE DownLife(down[d], dmn') BY <1>1
    <3> DEFINE s == down[d]
    <3>1. DownLife(s, dmn) BY DEF LifeInv
    <3>2. s.pc \in {"proof", "check", "unlink", "signal", "refuse", "escalate", "refuse2"} =>
             s.lost \in RunRecord /\ RecLife(s.lost, dmn')
      BY <3>1, <2>8 DEF DownLife
    <3>3. s.pc \in {"refuse", "escalate", "refuse2"} =>
             s.lost.pid \in Pids /\ s.lost.pid # u
      BY <3>1, <2>4 DEF DownLife, RunRecord
    <3>4. s.done => s.lost.pid \in Pids /\ s.lost.pid # u BY <3>1, <2>4 DEF DownLife
    <3> QED BY <3>1, <3>2, <3>3, <3>4, <2>4 DEF DownLife
  <2>11. ASSUME Undisrupted' PROVE SlotInv'
    <3>0. Undisrupted /\ scene.atomic BY <1>1, <2>11 DEF Undisrupted
    <3>1. SlotInv /\ UpSlot(u, up[u], rec, dmn) /\ Claimed(u, up[u], rec) BY <3>0, <1>2 DEF LifeInv, MayBe
    <3>2. rec # Absent /\ rec.at = u /\ rec.pid = Absent /\ ~rec.torn
      BY <1>1, <1>c, <3>1 DEF UpSlot, Claimed
    <3>3. SlotShared(rec, dmn')
      BY <2>4, <3>1, <3>2 DEF SlotInv, SlotShared
    <3>4. /\ \A v \in Ups \ {u} : up[v].pc \in Awaits
          /\ \A d \in Downs : down[d].pc \in Awaits
      BY <1>1, <3>0, OthersWait
    <3>5. \A v \in Ups : UpSlot(v, up'[v], rec, dmn') /\ Claimed(v, up'[v], rec)
      <4> SUFFICES ASSUME NEW v \in Ups PROVE UpSlot(v, up'[v], rec, dmn') /\ Claimed(v, up'[v], rec)
        OBVIOUS
      <4>1. CASE v = u BY <4>1, <3>2, <2>3, <2>5 DEF UpSlot, Claimed, Claims
      <4>2. CASE v # u
        <5>1. UpSlot(v, up[v], rec, dmn) /\ Claimed(v, up[v], rec) /\ UpShape(up[v], conf)
          BY <3>1 DEF SlotInv, LifeInv
        <5>2. up[v].pc \notin {"check", "unlink", "served"} /\ ~Claims(up[v])
          BY <3>4, <4>2 DEF Awaits, Claims
        <5>3. up[v].pc = "lost" => RecLife(up[v].lost, dmn')
          BY <5>1, <2>8 DEF UpSlot, UpShape
        <5>4. UpSlot(v, up[v], rec, dmn') BY <5>1, <5>2, <5>3 DEF UpSlot
        <5> QED BY <5>1, <5>4, <4>2, <2>5
      <4> QED BY <4>1, <4>2
    <3>6. \A d \in Downs : DownSlot(down[d], rec, dmn')
      <4> SUFFICES ASSUME NEW d \in Downs PROVE DownSlot(down[d], rec, dmn') OBVIOUS
      <4>1. DownSlot(down[d], rec, dmn) /\ DownLife(down[d], dmn) BY <3>1 DEF SlotInv, LifeInv
      <4>2. down[d].pc \notin {"check", "unlink"} BY <3>4 DEF Awaits
      <4>3. down[d].pc = "proof" => down[d].lost.pid \in Pids
        BY <4>1 DEF DownLife, RunRecord
      <4> QED BY <4>1, <4>2, <4>3, <2>4 DEF DownSlot
    <3> QED BY <1>1, <3>1, <3>3, <3>5, <3>6 DEF SlotInv
  <2>12. ASSUME KeyScene' PROVE KeyInv'
    <3>1. KeyScene /\ KeyInv BY <1>1, <2>12 DEF LifeInv, KeyScene
    <3>2. UpKey(up[u], conf, scene.atomic) /\ up[u].file \in Config
      BY <1>1, <1>2, <3>1 DEF MayBe, UpShape
    <3>3. HasKey(conf, up[u].file.key) /\ up[u].file.key # Absent
      BY <3>2, <2>4, AbsentAssumption DEF UpKey
    <3>4. KeyShared(conf, store, dmn', scene.atomic)
      BY <3>1, <3>3, <2>4 DEF KeyInv, KeyShared
    <3>5. UpKey(n, conf, scene.atomic) BY <2>3 DEF UpKey
    <3> QED BY <1>1, <3>1, <3>4, <3>5, <2>5 DEF KeyInv
  <2>13. RecLife(rec', dmn') BY <1>1, <2>8 DEF LifeInv, LifeTypeOK
  <2> QED BY <2>5, <2>6, <2>7, <2>9, <2>10, <2>11, <2>12, <2>13 DEF LifeInv
<1> QED BY <1>3, <1>4 DEF SpawnEngine

\* writeRunRecord, by the run whose record it is.
LEMMA WriteRecordFacts ==
    ASSUME LifeInv, NEW u \in Ups, WriteRecord(u), up[u].pc \in {"pid", "served"}
    PROVE  /\ rec' \in RunRecord /\ rec' # Absent /\ RecLife(rec', dmn)
           /\ rec'.at = u /\ rec'.pid = u
           /\ Undisrupted => SlotShared(rec', dmn) /\ RecSlot(rec')
<1>1. MayBe(u, up[u], rec, conf, dmn) BY UpHas
<1>2. up[u].port \in Ports /\ dmn[u].st # "none" /\ dmn[u].port = up[u].port
  BY <1>1 DEF MayBe, UpShape, UpLife
<1>3. rec' \in RunRecord BY <1>2, UpPid DEF WriteRecord, RunRecord
<1>4. rec'.at = u /\ rec'.pid = u /\ rec'.port = up[u].port BY DEF WriteRecord
<1>5. rec'.torn = FALSE /\ rec'.old = FALSE BY DEF WriteRecord
<1>6. rec' # Absent BY <1>3, AbsentAssumption
<1>7. RecLife(rec', dmn) BY <1>2, <1>4 DEF RecLife
<1>8. ASSUME Undisrupted PROVE SlotShared(rec', dmn) /\ RecSlot(rec')
  <2>1. SlotShared(rec, dmn) BY <1>8 DEF LifeInv, SlotInv
  <2>2. rec.at = u BY <1>1, <1>8 DEF MayBe, UpSlot, Claims
  <2>3. SlotShared(rec', dmn) BY <2>1, <2>2, <1>4, <1>6 DEF SlotShared
  <2>4. RecSlot(rec') BY <1>4, <1>5, UpPid DEF RecSlot
  <2> QED BY <2>3, <2>4
<1> QED BY <1>3, <1>4, <1>6, <1>7, <1>8

LEMMA WritePidStep ==
    ASSUME LifeInv, NEW u \in Ups, WritePid(u)
    PROVE  LifeInv'
<1>1. up[u].pc = "pid" /\ Undisturbed(u) /\ UpNoRec /\ WriteRecord(u) /\ Go(u, "wait")
  BY DEF WritePid, At
<1>2. /\ up[u] \in UpState /\ up \in [Ups -> UpState] /\ MayBe(u, up[u], rec, conf, dmn)
  BY UpHas
<1>3. /\ rec' \in RunRecord /\ rec' # Absent /\ RecLife(rec', dmn)
      /\ rec'.at = u /\ rec'.pid = u
      /\ Undisrupted => SlotShared(rec', dmn) /\ RecSlot(rec')
  BY <1>1, WriteRecordFacts
<1> DEFINE n == Moved(up[u], "wait")
<1>4. up' = [up EXCEPT ![u] = n] BY <1>1, <1>2, GoIs
<1>5. "wait" \in UpPcs /\ "wait" \notin Ended BY DEF UpPcs, Awaits, Ended
<1>6. n \in UpState /\ n.pc = "wait" /\ n.port = up[u].port /\ n.file = up[u].file
  BY <1>2, <1>5, MovedFacts
<1> HIDE DEF n
<1>7. UpShape(n, conf) /\ UpLife(n, dmn[u])
  BY <1>1, <1>2, <1>6 DEF MayBe, UpShape, UpLife, Early, GaveUp
<1>8. UpSlot(u, n, rec', dmn) /\ Claimed(u, n, rec')
  BY <1>3, <1>6, UpPid DEF UpSlot, Claimed, Claims
<1>9. KeyScene => UpKey(n, conf, scene.atomic) BY <1>2, <1>6 DEF MayBe, UpKey
<1> QED BY <1>1, <1>3, <1>4, <1>6, <1>7, <1>8, <1>9, RecFrame DEF MayBe

LEMMA WaitForReadyStep ==
    ASSUME LifeInv, NEW u \in Ups, WaitForReady(u)
    PROVE  LifeInv'
<1>1. up[u].pc = "wait" /\ Undisturbed(u) /\ OnlyUp BY DEF WaitForReady, At
<1>2. /\ up[u] \in UpState /\ dmn \in DaemonsT /\ MayBe(u, up[u], rec, conf, dmn)
  BY UpHas
<1>3. Undisrupted => (rec # Absent /\ rec.at = u => rec.pid # Absent)
  BY <1>1, NoClaim DEF Claims, GaveUp
<1>4. up[u].port \in Ports /\ dmn[u].st # "none" /\ dmn[u].port = up[u].port
  BY <1>1, <1>2 DEF MayBe, UpShape, UpLife
<1>5. CASE Go(u, "exit2") BY <1>1, <1>3, <1>5, UpEnds DEF Ended
<1>6. CASE dmn[u].st = "dead" /\ Go(u, "giveup")
  <2>1. ASSUME NEW n \in UpState, n.pc = "giveup", n.port = up[u].port, n.file = up[u].file
        PROVE  MayBe(u, n, rec, conf, dmn)
    <3>1. UpShape(n, conf) /\ UpLife(n, dmn[u])
      BY <1>4, <1>6, <2>1 DEF UpShape, UpLife, Early, GaveUp
    <3>2. Undisrupted => UpSlot(u, n, rec, dmn) /\ Claimed(u, n, rec)
      BY <1>3, <2>1 DEF UpSlot, Claimed, Claims
    <3>3. KeyScene => UpKey(n, conf, scene.atomic) BY <1>2, <2>1 DEF MayBe, UpKey
    <3> QED BY <3>1, <3>2, <3>3 DEF MayBe
  <2>2. "giveup" \in UpPcs \ Ended BY DEF UpPcs, Ended
  <2> QED BY <1>1, <1>6, <2>1, <2>2, UpGoes
<1>7. CASE dmn[u].st # "dead" /\ Go(u, "served")
  <2>1. ASSUME NEW n \in UpState, n.pc = "served", n.port = up[u].port, n.file = up[u].file
        PROVE  MayBe(u, n, rec, conf, dmn)
    <3>1. UpShape(n, conf) /\ UpLife(n, dmn[u])
      BY <1>4, <2>1 DEF UpShape, UpLife, Early, GaveUp
    <3>2. ASSUME Undisrupted PROVE rec # Absent /\ rec.at = u
      <4>1. dmn[u].st \in Live BY <1>2, <1>4, <1>7, UpPid, DaemonSt
      <4> QED BY <3>2, <4>1, UpPid DEF LifeInv, SlotInv, SlotShared
    <3>3. Undisrupted => UpSlot(u, n, rec, dmn) /\ Claimed(u, n, rec)
      BY <1>3, <2>1, <3>2 DEF UpSlot, Claimed, Claims
    <3>4. KeyScene => UpKey(n, conf, scene.atomic) BY <1>2, <2>1 DEF MayBe, UpKey
    <3> QED BY <3>1, <3>3, <3>4 DEF MayBe
  <2>2. "served" \in UpPcs \ Ended BY DEF UpPcs, Ended
  <2> QED BY <1>1, <1>7, <2>1, <2>2, UpGoes
<1> QED BY <1>5, <1>6, <1>7 DEF WaitForReady

\* The port is written to the config: outside the claim, with no key.
LEMMA PortMayBe ==
    ASSUME LifeInv, NEW u \in Ups, up[u].pc \in {"served", "found"}, NEW r,
           Undisrupted => (r # Absent /\ r.at = u => r.pid # Absent),
           KeyScene /\ ~scene.atomic => conf # Absent,
           NEW n, n.pc = (IF conf = Absent THEN "create" ELSE "merge"), n.back = "exit0",
           n.port = up[u].port, n.file = up[u].file
    PROVE  MayBe(u, n, r, conf, dmn)
<1>1. conf \in Config \cup {Absent} /\ MayBe(u, up[u], rec, conf, dmn) BY UpHas
<1>2. up[u].port \in Ports BY <1>1 DEF MayBe, UpShape
<1>3. UpShape(n, conf) /\ UpLife(n, dmn[u]) BY <1>1, <1>2 DEF UpShape, UpLife, Early, GaveUp
<1>4. Undisrupted => UpSlot(u, n, r, dmn) /\ Claimed(u, n, r)
  BY DEF UpSlot, Claimed, Claims
<1>5. KeyScene => UpKey(n, conf, scene.atomic) BY <1>1 DEF MayBe, UpKey
<1> QED BY <1>3, <1>4, <1>5 DEF MayBe

LEMMA PortWrite ==
    ASSUME LifeInv, NEW u \in Ups, up[u].pc \in {"served", "found"},
           up' = [up EXCEPT ![u].pc = IF conf = Absent THEN "create" ELSE "merge",
                            ![u].add = [NoConfig EXCEPT !.port = up[u].port], ![u].back = "exit0"]
    PROVE  \E n \in UpState :
              /\ up' = [up EXCEPT ![u] = n]
              /\ n.pc = (IF conf = Absent THEN "create" ELSE "merge") /\ n.back = "exit0"
              /\ n.port = up[u].port /\ n.file = up[u].file
<1> DEFINE pc == IF conf = Absent THEN "create" ELSE "merge"
           add == [NoConfig EXCEPT !.port = up[u].port]
           n == [up[u] EXCEPT !.pc = pc, !.add = add, !.back = "exit0"]
<1>1. up[u] \in UpState /\ up \in [Ups -> UpState] /\ MayBe(u, up[u], rec, conf, dmn) BY UpHas
<1>2. up[u].port \in Ports BY <1>1 DEF MayBe, UpShape
<1>3. add \in Config BY <1>2 DEF NoConfig, Config
<1>4. pc \in UpPcs /\ "exit0" \in Backs BY DEF UpPcs, Backs
<1>5. up' = [up EXCEPT ![u] = n] BY <1>1
<1> HIDE DEF add, pc
<1>6. /\ n \in UpState /\ n.pc = pc /\ n.back = "exit0" /\ n.port = up[u].port
      /\ n.file = up[u].file
  BY <1>1, <1>3, <1>4, UpStateIs DEF UpT
<1> HIDE DEF n
<1> QED BY <1>5, <1>6 DEF pc

LEMMA EngineServedStep ==
    ASSUME LifeInv, NEW u \in Ups, EngineServed(u)
    PROVE  LifeInv'
<1>1. up[u].pc = "served" /\ Undisturbed(u) /\ UpNoRec /\ WriteRecord(u)
  BY DEF EngineServed, At
<1>2. PICK n \in UpState :
              /\ up' = [up EXCEPT ![u] = n]
              /\ n.pc = (IF conf = Absent THEN "create" ELSE "merge") /\ n.back = "exit0"
              /\ n.port = up[u].port /\ n.file = up[u].file
  BY <1>1, PortWrite DEF EngineServed
<1>3. /\ rec' \in RunRecord /\ rec' # Absent /\ RecLife(rec', dmn)
      /\ rec'.at = u /\ rec'.pid = u
      /\ Undisrupted => SlotShared(rec', dmn) /\ RecSlot(rec')
  BY <1>1, WriteRecordFacts
<1>4. KeyScene => conf # Absent
  <2>1. dmn[u].st # "none" BY <1>1, UpHas DEF MayBe, UpLife
  <2> QED BY <2>1, UpPid DEF LifeInv, KeyInv, KeyShared, HasKey
<1>5. MayBe(u, n, rec', conf, dmn) BY <1>1, <1>2, <1>3, <1>4, UpPid, PortMayBe
<1> QED BY <1>1, <1>2, <1>3, <1>5, RecFrame

LEMMA WaitOnOtherRunStep ==
    ASSUME LifeInv, NEW u \in Ups, WaitOnOtherRun(u)
    PROVE  LifeInv'
<1>1. up[u].pc = "other" /\ Undisturbed(u) /\ OnlyUp BY DEF WaitOnOtherRun, At
<1>2. MayBe(u, up[u], rec, conf, dmn) BY UpHas
<1>3. Undisrupted => (rec # Absent /\ rec.at = u => rec.pid # Absent)
  BY <1>1, NoClaim DEF Claims, GaveUp
<1>4. CASE Go(u, "exit2") BY <1>1, <1>3, <1>4, UpEnds DEF Ended
<1>5. CASE Go(u, "found")
  <2>1. ASSUME NEW n \in UpState, n.pc = "found", n.port = up[u].port, n.file = up[u].file
        PROVE  MayBe(u, n, rec, conf, dmn)
    <3>1. UpShape(n, conf) /\ UpLife(n, dmn[u])
      BY <1>1, <1>2, <2>1 DEF MayBe, UpShape, UpLife, Early, GaveUp
    <3>2. Undisrupted => UpSlot(u, n, rec, dmn) /\ Claimed(u, n, rec)
      BY <1>3, <2>1 DEF UpSlot, Claimed, Claims
    <3>3. KeyScene => UpKey(n, conf, scene.atomic) BY <1>2, <2>1 DEF MayBe, UpKey
    <3> QED BY <3>1, <3>2, <3>3 DEF MayBe
  <2>2. "found" \in UpPcs \ Ended BY DEF UpPcs, Awaits, Ended
  <2> QED BY <1>1, <1>5, <2>1, <2>2, UpGoes
<1> QED BY <1>4, <1>5 DEF WaitOnOtherRun

LEMMA FoundEngineStep ==
    ASSUME LifeInv, NEW u \in Ups, NEW yes \in BOOLEAN, FoundEngine(u, yes)
    PROVE  LifeInv'
<1>1. up[u].pc = "found" /\ Undisturbed(u) /\ OnlyUp BY DEF FoundEngine, At
<1>2. MayBe(u, up[u], rec, conf, dmn) BY UpHas
<1>3. Undisrupted => (rec # Absent /\ rec.at = u => rec.pid # Absent)
  BY <1>1, NoClaim DEF Claims, GaveUp
<1>4. CASE Go(u, "exit0") BY <1>1, <1>3, <1>4, UpEnds DEF Ended
<1>5. CASE Go(u, "exit1") BY <1>1, <1>3, <1>5, UpEnds DEF Ended
<1>6. ASSUME yes, Accepts(up[u].port, conf, yes),
             up' = [up EXCEPT ![u].pc = IF conf = Absent THEN "create" ELSE "merge",
                              ![u].add = [NoConfig EXCEPT !.port = up[u].port], ![u].back = "exit0"]
      PROVE  LifeInv'
  <2>1. PICK n \in UpState :
              /\ up' = [up EXCEPT ![u] = n]
              /\ n.pc = (IF conf = Absent THEN "create" ELSE "merge") /\ n.back = "exit0"
              /\ n.port = up[u].port /\ n.file = up[u].file
    BY <1>1, <1>6, PortWrite
  <2>2. ~scene.atomic => conf # Absent
    <3> HAVE ~scene.atomic
    <3>1. up[u].port \in Ports BY <1>1, <1>2 DEF MayBe, UpShape
    <3>2. ext[up[u].port] = "none" BY <3>1 DEF LifeInv, SceneOK
    <3>3. \E d \in HoldersOf(up[u].port) : yes = (conf # Absent /\ dmn[d].tok = conf.tok)
      BY <1>6, <3>2 DEF Accepts
    <3> QED BY <1>6, <3>3
  <2>3. MayBe(u, n, rec, conf, dmn) BY <1>1, <1>3, <2>1, <2>2, PortMayBe
  <2> QED BY <1>1, <2>1, <2>3, UpFrame
<1> QED BY <1>4, <1>5, <1>6 DEF FoundEngine
LEMMA UpKilledStep ==
    ASSUME LifeInv, NEW u \in Ups, UpKilled(u)
    PROVE  LifeInv'
<1>1. /\ Go(u, "killed") /\ struck' = TRUE /\ scene.trouble = "kill"
      /\ UNCHANGED <<scene, rec, conf, store, dmn, ext, down>>
  BY DEF UpKilled, Strikes
<1>2. up[u] \in UpState /\ up \in [Ups -> UpState] BY UpHas
<1> DEFINE n == Moved(up[u], "killed")
<1>3. "killed" \in UpPcs /\ "killed" \in Ended /\ "killed" \in Awaits BY DEF UpPcs, Awaits, Ended
<1>4. n \in UpState /\ n.pc = "killed" /\ n.file = Absent BY <1>2, <1>3, MovedFacts
<1>5. up' = [up EXCEPT ![u] = n] BY <1>1, <1>2, GoIs
<1> HIDE DEF n
<1>6. up' \in [Ups -> UpState] /\ up'[u] = n /\ \A v \in Ups \ {u} : up'[v] = up[v]
  BY <1>2, <1>4, <1>5
<1>7. ~Undisrupted' BY <1>1 DEF Undisrupted
<1>8. OneStretch'
  <2>1. \A v \in Ups : up'[v].pc \in Awaits \/ up'[v].pc = up[v].pc BY <1>3, <1>4, <1>6
  <2> QED BY <1>1, <2>1 DEF LifeInv, OneStretch
<1>9. LifeTypeOK' BY <1>1, <1>6 DEF LifeInv, LifeTypeOK
<1>10. SceneOK' BY <1>1 DEF LifeInv, SceneOK
<1>11. UpShape(n, conf) /\ UpLife(n, dmn[u]) /\ UpKey(n, conf, scene.atomic)
  BY <1>4 DEF UpShape, UpLife, Early, GaveUp, UpKey
<1>12. \A v \in Ups : UpShape(up'[v], conf') /\ UpLife(up'[v], dmn'[v])
  BY <1>1, <1>6, <1>11 DEF LifeInv
<1>13. KeyScene' => KeyInv'
  BY <1>1, <1>6, <1>11 DEF LifeInv, KeyScene, KeyInv
<1>14. RecLife(rec', dmn') /\ \A d \in Downs : DownLife(down'[d], dmn') BY <1>1 DEF LifeInv
<1> QED BY <1>7, <1>8, <1>9, <1>10, <1>12, <1>13, <1>14 DEF LifeInv

-----------------------------------------------------------------------------
(* Steps of a down.                                                        *)

DownPcs == Awaits \cup {"check", "unlink", "signal", "escalate"}

DownT == [pc: DownPcs, lost: RecOr, alive: BOOLEAN, done: BOOLEAN]

LEMMA DownStateIs == DownState = DownT
BY DEF DownState, DownT, DownPcs, RecOr

LEMMA DownHas ==
    ASSUME LifeInv, NEW d \in Downs
    PROVE  /\ down[d] \in DownState /\ down \in [Downs -> DownState]
           /\ dmn \in DaemonsT /\ rec \in RunRecord \cup {Absent}
           /\ DownLife(down[d], dmn)
           /\ Undisrupted => DownSlot(down[d], rec, dmn)
BY DEF LifeInv, LifeTypeOK, DaemonsT, SlotInv

\* DownGo: what it did stays known, a down that did nothing forgets.
DownMoved(s, pc) ==
    IF pc \in Ended /\ ~s.done THEN [IdleDown EXCEPT !.pc = pc] ELSE [s EXCEPT !.pc = pc]

LEMMA DownMovedFacts ==
    ASSUME NEW s \in DownState, NEW pc \in DownPcs
    PROVE  LET n == DownMoved(s, pc) IN
           /\ n \in DownState /\ n.pc = pc
           /\ ~(pc \in Ended /\ ~s.done) => n.lost = s.lost
           /\ ~(pc \in Ended /\ ~s.done) => n.alive = s.alive
           /\ n.done = s.done
<1> DEFINE n == DownMoved(s, pc)
<1>1. IdleDown \in DownState /\ IdleDown.done = FALSE BY DEF IdleDown, DownState, Awaits
<1>b. s.done \in BOOLEAN /\ s.alive \in BOOLEAN BY DEF DownState
<1>2. CASE pc \in Ended /\ ~s.done
  <2>1. n = [IdleDown EXCEPT !.pc = pc] BY <1>2 DEF DownMoved
  <2>2. n \in DownState /\ n.pc = pc /\ n.done = IdleDown.done BY <1>1, <2>1, DownStateIs DEF DownT
  <2> QED BY <1>1, <1>2, <1>b, <2>2
<1>3. CASE ~(pc \in Ended /\ ~s.done)
  <2>1. n = [s EXCEPT !.pc = pc] BY <1>3 DEF DownMoved
  <2>2. n \in DownState /\ n.pc = pc BY <2>1, DownStateIs DEF DownT
  <2>3. n.lost = s.lost /\ n.alive = s.alive /\ n.done = s.done BY <2>1, DownStateIs DEF DownT
  <2> QED BY <1>3, <2>2, <2>3
<1> QED BY <1>2, <1>3

LEMMA DownGoIs ==
    ASSUME NEW d \in Downs, down \in [Downs -> DownState], NEW pc, DownGo(d, pc)
    PROVE  down' = [down EXCEPT ![d] = DownMoved(down[d], pc)]
BY DEF DownGo, DownMoved

LEMMA DownFrameOnly ==
    ASSUME LifeInv, NEW d \in Downs, Undisturbed(d), NEW s \in DownState,
           down' = [down EXCEPT ![d] = s], OnlyDown, DownLife(s, dmn),
           Undisrupted => DownSlot(s, rec, dmn)
    PROVE  LifeInv'
<1>1. UNCHANGED <<scene, rec, conf, store, dmn, ext, up, struck>> BY DEF OnlyDown
<1>2. dmn \in DaemonsT BY DownHas
<1> QED BY <1>1, <1>2, MovesRefl, DownFrame

\* A down that ends, with nothing done or with its daemon gone.
LEMMA DownEnded ==
    ASSUME NEW s \in DownState, NEW e \in Ended, NEW dm, NEW r,
           s.done => s.lost \in RunRecord /\ s.lost.pid \in Pids /\ dm[s.lost.pid].st = "dead"
    PROVE  LET n == DownMoved(s, e) IN
           n \in DownState /\ DownLife(n, dm) /\ DownSlot(n, r, dm)
<1> DEFINE n == DownMoved(s, e)
<1>1. e \in DownPcs BY DEF DownPcs, Awaits, Ended
<1>2. n \in DownState /\ n.pc = e /\ n.done = s.done BY <1>1, DownMovedFacts
<1>3. s.done => n.lost = s.lost BY <1>1, DownMovedFacts
<1> HIDE DEF n
<1>4. DownLife(n, dm) BY <1>2, <1>3 DEF DownLife, Ended
<1>5. DownSlot(n, r, dm) BY <1>2 DEF DownSlot, Ended
<1> QED BY <1>2, <1>4, <1>5 DEF n

LEMMA AtRestDown ==
    ASSUME LifeInv, NEW d \in Downs, Undisturbed(d), Undisrupted, rec # Absent
    PROVE  ~rec.torn /\ rec.pid # Absent /\ rec.pid = rec.at
<1>1. SlotInv /\ scene.atomic BY DEF LifeInv, Undisrupted
<1>2. RecSlot(rec) /\ RecLife(rec, dmn) BY <1>1 DEF SlotInv, LifeInv
<1>3. ASSUME rec.pid = Absent PROVE FALSE
  <2>1. rec.at \in Ups BY <1>2, <1>3 DEF RecSlot
  <2>3. up[rec.at].pc \in Awaits BY <2>1, <1>1, OthersWaitDown
  <2>4. Claimed(rec.at, up[rec.at], rec) BY <1>1, <2>1 DEF SlotInv
  <2> QED BY <1>3, <2>3, <2>4, AwaitClaimed
<1> QED BY <1>2, <1>3 DEF RecSlot, RecLife

\* Under the slot's conditions a pid that is not ours any more is of a dead daemon.
LEMMA NotOursIsDead ==
    ASSUME LifeInv, Undisrupted, NEW p \in Pids, dmn[p].st # "none", ~pidIsOurs(p)
    PROVE  dmn[p].st = "dead"
<1>1. dmn \in DaemonsT BY DEF LifeInv, LifeTypeOK, DaemonsT
<1>2. dmn[p].st # "stranded" BY DEF LifeInv, SlotInv, SlotShared
<1> QED BY <1>1, <1>2, DaemonSt DEF pidIsOurs, Live

LEMMA StartDownStep ==
    ASSUME LifeInv, NEW d \in Downs, StartDown(d)
    PROVE  LifeInv'
<1> DEFINE s(pc, alive) == [IdleDown EXCEPT !.pc = pc, !.lost = rec, !.alive = alive]
<1>1. down[d].pc = "idle" /\ Undisturbed(d) /\ OnlyDown BY DEF StartDown, DownAt
<1>2. /\ down \in [Downs -> DownState] /\ dmn \in DaemonsT /\ rec \in RunRecord \cup {Absent}
  BY DownHas
<1>3. ASSUME NEW pc \in DownPcs, NEW alive \in BOOLEAN
      PROVE  s(pc, alive) \in DownState /\ s(pc, alive).pc = pc /\ s(pc, alive).lost = rec
             /\ s(pc, alive).alive = alive /\ s(pc, alive).done = FALSE
  <2>1. IdleDown \in DownState /\ IdleDown.done = FALSE BY DEF IdleDown, DownState, Awaits
  <2>2. rec \in RecOr BY <1>2 DEF RecOr
  <2> QED BY <2>1, <2>2, DownStateIs DEF DownT
<1> HIDE DEF s
<1>4. RecLife(rec, dmn) BY DEF LifeInv
<1>5. CASE rec = Absent /\ down' = [down EXCEPT ![d] = [IdleDown EXCEPT !.pc = "exit0"]]
  <2> DEFINE n == [IdleDown EXCEPT !.pc = "exit0"]
  <2>1. n \in DownState BY DEF IdleDown, DownState, Awaits
  <2>2. n.pc = "exit0" /\ n.done = FALSE BY DEF IdleDown
  <2> HIDE DEF n
  <2>3. DownLife(n, dmn) /\ DownSlot(n, rec, dmn) BY <2>2 DEF DownLife, DownSlot
  <2> QED BY <1>1, <1>5, <2>1, <2>3, DownFrameOnly DEF n
<1>6. ASSUME rec # Absent, NEW pc \in {"check", "exit1"}, rec.torn \/ rec.pid = Absent,
             down' = [down EXCEPT ![d] = s(pc, FALSE)]
      PROVE  LifeInv'
  <2>1. pc \in DownPcs BY DEF DownPcs, Awaits
  <2>2. s(pc, FALSE) \in DownState /\ s(pc, FALSE).pc = pc /\ s(pc, FALSE).lost = rec
        /\ s(pc, FALSE).done = FALSE
    BY <1>3, <2>1
  <2>3. DownLife(s(pc, FALSE), dmn) BY <1>2, <1>4, <1>6, <2>2 DEF DownLife
  <2>4. ~Undisrupted BY <1>1, <1>6, AtRestDown
  <2> QED BY <1>1, <1>6, <2>2, <2>3, <2>4, DownFrameOnly
<1>7. ASSUME rec # Absent, ~rec.torn, rec.pid # Absent,
             down' = [down EXCEPT ![d] = s("proof", pidIsOurs(rec.pid))]
      PROVE  LifeInv'
  <2> DEFINE n == s("proof", pidIsOurs(rec.pid))
  <2>1. "proof" \in DownPcs /\ pidIsOurs(rec.pid) \in BOOLEAN BY DEF DownPcs, Awaits, pidIsOurs
  <2>2. /\ n \in DownState /\ n.pc = "proof" /\ n.lost = rec
        /\ n.alive = pidIsOurs(rec.pid) /\ n.done = FALSE
    BY <1>3, <2>1
  <2> HIDE DEF n
  <2>3. rec.pid \in Pids /\ dmn[rec.pid].st # "none" BY <1>2, <1>4, <1>7 DEF RunRecord, RecLife
  <2>4. DownLife(n, dmn) BY <1>2, <1>4, <1>7, <2>2 DEF DownLife
  <2>5. Undisrupted /\ ~n.alive => dmn[rec.pid].st = "dead"
    BY <2>2, <2>3, NotOursIsDead
  <2>6. Undisrupted => DownSlot(n, rec, dmn) BY <1>7, <2>2, <2>5 DEF DownSlot
  <2> QED BY <1>1, <1>7, <2>2, <2>4, <2>6, DownFrameOnly DEF n
<1>8. \/ rec = Absent /\ down' = [down EXCEPT ![d] = [IdleDown EXCEPT !.pc = "exit0"]]
      \/ rec # Absent /\ rec.torn /\ down' = [down EXCEPT ![d] = s("check", FALSE)]
      \/ /\ rec # Absent /\ ~rec.torn /\ rec.pid = Absent
         /\ down' = [down EXCEPT ![d] = s(IF rec.old THEN "check" ELSE "exit1", FALSE)]
      \/ /\ rec # Absent /\ ~rec.torn /\ rec.pid # Absent
         /\ down' = [down EXCEPT ![d] = s("proof", pidIsOurs(rec.pid))]
  BY DEF StartDown, s
<1> QED BY <1>5, <1>6, <1>7, <1>8

LEMMA ProveOwnershipStep ==
    ASSUME LifeInv, NEW d \in Downs, NEW cls \in Classes, ProveOwnership(d, cls)
    PROVE  LifeInv'
<1>1. down[d].pc = "proof" /\ Undisturbed(d) /\ OnlyDown BY DEF ProveOwnership, DownAt
<1>2. /\ down[d] \in DownState /\ down \in [Downs -> DownState] /\ dmn \in DaemonsT
      /\ DownLife(down[d], dmn) /\ (Undisrupted => DownSlot(down[d], rec, dmn))
  BY DownHas
<1>3. ~down[d].done BY <1>1, <1>2 DEF DownLife
<1>4. CASE DownGo(d, "exit1")
  <2> DEFINE n == DownMoved(down[d], "exit1")
  <2>1. n \in DownState /\ DownLife(n, dmn) /\ DownSlot(n, rec, dmn)
    BY <1>2, <1>3, DownEnded DEF Ended
  <2>2. down' = [down EXCEPT ![d] = n] BY <1>2, <1>4, DownGoIs
  <2> QED BY <1>1, <2>1, <2>2, DownFrameOnly
<1>5. ASSUME NEW pc \in {"signal", "check"}, DownGo(d, pc), pc = "check" => ~down[d].alive
      PROVE  LifeInv'
  <2> DEFINE n == DownMoved(down[d], pc)
  <2>1. pc \in DownPcs /\ pc \notin Ended BY DEF DownPcs, Ended
  <2>2. n \in DownState /\ n.pc = pc /\ n.lost = down[d].lost /\ n.done = down[d].done
    BY <1>2, <2>1, DownMovedFacts
  <2>3. down' = [down EXCEPT ![d] = n] BY <1>2, <1>5, DownGoIs
  <2> HIDE DEF n
  <2>4. DownLife(n, dmn) BY <1>1, <1>2, <1>3, <2>2 DEF DownLife
  <2>5. Undisrupted => DownSlot(n, rec, dmn) BY <1>1, <1>2, <1>5, <2>2 DEF DownSlot
  <2> QED BY <1>1, <2>2, <2>3, <2>4, <2>5, DownFrameOnly
<1> QED BY <1>4, <1>5 DEF ProveOwnership

SetSt(dm, p, x) == [dm EXCEPT ![p].st = x]

LEMMA Stops ==
    ASSUME NEW dm \in DaemonsT, NEW p \in Pids, NEW x \in {"stopping", "stranded", "dead"},
           dm[p].st # "none", dm[p].st = "dead" => x = "dead"
    PROVE  /\ SetSt(dm, p, x) \in DaemonsT /\ Moves(dm, SetSt(dm, p, x))
           /\ SetSt(dm, p, x)[p].st = x
           /\ \A q \in Pids \ {p} : SetSt(dm, p, x)[q] = dm[q]
<1>1. x \in Live \cup {"none", "dead"} /\ x # "none" BY DEF Live
<1> QED BY <1>1, OneMoves DEF SetSt

\* Signal and Escalate: the daemon that was proven ours.
LEMMA Signalled ==
    ASSUME LifeInv, NEW d \in Downs, Undisturbed(d), down[d].pc \in {"signal", "escalate"},
           NEW pc \in {"refuse", "refuse2"}, DownGo(d, pc),
           UNCHANGED <<scene, rec, conf, store, ext, up, struck>>,
           NEW x \in {"stopping", "stranded", "dead"},
           dmn' = SetSt(dmn, down[d].lost.pid, x),
           dmn[down[d].lost.pid].st = "dead" => x = "dead",
           x = "stranded" => dmn[down[d].lost.pid].st = "stranded"
    PROVE  LifeInv'
<1>2. /\ down[d] \in DownState /\ down \in [Downs -> DownState] /\ dmn \in DaemonsT
      /\ DownLife(down[d], dmn)
  BY DownHas
<1>3. /\ ~down[d].done /\ down[d].lost \in RunRecord /\ down[d].lost.pid # Absent
      /\ down[d].lost # Absent /\ RecLife(down[d].lost, dmn)
  BY <1>2, AbsentAssumption DEF DownLife
<1>4. down[d].lost.pid \in Pids /\ dmn[down[d].lost.pid].st # "none"
  BY <1>3 DEF RunRecord, RecLife
<1>5. /\ dmn' \in DaemonsT /\ Moves(dmn, dmn') /\ dmn'[down[d].lost.pid].st = x
      /\ \A q \in Pids \ {down[d].lost.pid} : dmn'[q] = dmn[q]
  BY <1>2, <1>4, Stops
<1>6. \A p \in Pids : dmn'[p].st = "stranded" => dmn[p].st = "stranded" BY <1>5
<1> DEFINE n == DownMoved(down[d], pc)
<1>7. pc \in DownPcs /\ pc \notin Ended BY DEF DownPcs, Awaits, Ended
<1>8. n \in DownState /\ n.pc = pc /\ n.lost = down[d].lost /\ n.done = down[d].done
  BY <1>2, <1>7, DownMovedFacts
<1>9. down' = [down EXCEPT ![d] = n] BY <1>2, DownGoIs
<1> HIDE DEF n
<1>10. RecLife(down[d].lost, dmn') BY <1>2, <1>3, <1>5, RecLifeMoves
<1>11. DownLife(n, dmn') BY <1>3, <1>5, <1>8, <1>10 DEF DownLife
<1>12. Undisrupted => DownSlot(n, rec, dmn') BY <1>3, <1>8, DownHas DEF DownSlot
<1> QED BY <1>5, <1>6, <1>8, <1>9, <1>11, <1>12, DownFrame

LEMMA SignalStep ==
    ASSUME LifeInv, NEW d \in Downs, Signal(d)
    PROVE  LifeInv'
<1> DEFINE p == down[d].lost.pid
           x == CASE dmn[p].st = "serving" -> "stopping"
                  [] dmn[p].st \in {"boot", "silent"} -> "dead"
                  [] OTHER -> dmn[p].st
<1>1. /\ down[d].pc = "signal" /\ Undisturbed(d) /\ DownGo(d, "refuse")
      /\ UNCHANGED <<scene, rec, conf, store, ext, up, struck>>
  BY DEF Signal, DownAt
<1>2. dmn \in DaemonsT /\ DownLife(down[d], dmn) BY DownHas
<1>3. p \in Pids /\ dmn[p].st # "none"
  <2>1. /\ down[d].lost \in RunRecord /\ down[d].lost.pid # Absent
        /\ down[d].lost # Absent /\ RecLife(down[d].lost, dmn)
    BY <1>1, <1>2, AbsentAssumption DEF DownLife
  <2> QED BY <2>1 DEF RunRecord, RecLife
<1>4. dmn' = [dmn EXCEPT ![p].st = x] BY <1>2, <1>3 DEF Signal, DaemonsT
<1> HIDE DEF p
<1>5. dmn[p].st \in Live \cup {"none", "dead"} BY <1>2, <1>3, DaemonSt
<1>6. x \in {"stopping", "stranded", "dead"} /\ (dmn[p].st = "dead" => x = "dead")
      /\ (x = "stranded" => dmn[p].st = "stranded")
  BY <1>3, <1>5 DEF Live
<1> HIDE DEF x
<1>7. dmn' = SetSt(dmn, p, x) BY <1>4 DEF SetSt
<1> QED BY <1>1, <1>6, <1>7, Signalled DEF p

LEMMA EscalateStep ==
    ASSUME LifeInv, NEW d \in Downs, Escalate(d)
    PROVE  LifeInv'
<1> DEFINE p == down[d].lost.pid
<1>1. /\ down[d].pc = "escalate" /\ Undisturbed(d) /\ DownGo(d, "refuse2")
      /\ UNCHANGED <<scene, rec, conf, store, ext, up, struck>>
  BY DEF Escalate, DownAt
<1>2. dmn \in DaemonsT /\ DownLife(down[d], dmn) BY DownHas
<1>3. p \in Pids /\ dmn[p].st # "none"
  BY <1>1, <1>2 DEF DownLife, RunRecord
<1>4. dmn' = [dmn EXCEPT ![p].st = "dead"] BY <1>2, <1>3 DEF Escalate, DaemonsT
<1>5. dmn' = SetSt(dmn, p, "dead") BY <1>4 DEF SetSt
<1> QED BY <1>1, <1>5, Signalled

LEMMA WaitForPortToRefuseStep ==
    ASSUME LifeInv, NEW d \in Downs, WaitForPortToRefuse(d)
    PROVE  LifeInv'
<1>1. down[d].pc \in {"refuse", "refuse2"} /\ Undisturbed(d) /\ OnlyDown
  BY DEF WaitForPortToRefuse
<1>2. /\ down[d] \in DownState /\ down \in [Downs -> DownState] /\ dmn \in DaemonsT
      /\ DownLife(down[d], dmn)
  BY DownHas
<1>3. /\ ~down[d].done /\ down[d].lost \in RunRecord /\ down[d].lost.pid # Absent
      /\ down[d].lost # Absent /\ RecLife(down[d].lost, dmn)
      /\ dmn[down[d].lost.pid].st \in {"stopping", "stranded", "dead"}
  BY <1>1, <1>2, AbsentAssumption DEF DownLife
<1>4. down[d].lost.pid \in Pids /\ dmn[down[d].lost.pid].port = down[d].lost.port
  BY <1>3 DEF RunRecord, RecLife
<1>5. CASE Free(down[d].lost.port) /\ down' = [down EXCEPT ![d].pc = "check", ![d].done = TRUE]
  <2> DEFINE n == [down[d] EXCEPT !.pc = "check", !.done = TRUE]
  <2>1. down' = [down EXCEPT ![d] = n] BY <1>2, <1>5
  <2>2. "check" \in DownPcs BY DEF DownPcs
  <2>3. n \in DownState /\ n.pc = "check" /\ n.lost = down[d].lost
    BY <1>2, <2>2, DownStateIs DEF DownT
  <2> HIDE DEF n
  \* The port refuses: the daemon, which kept it to the end, is gone.
  <2>4. dmn[down[d].lost.pid].st = "dead"
    BY <1>3, <1>4, <1>5 DEF Free, HoldersOf
  <2>5. DownLife(n, dmn) BY <1>3, <1>4, <2>3, <2>4 DEF DownLife
  <2>6. Undisrupted => ~down[d].lost.torn BY <1>1, DownHas DEF DownSlot
  <2>7. Undisrupted => DownSlot(n, rec, dmn) BY <1>3, <2>3, <2>4, <2>6 DEF DownSlot
  <2> QED BY <1>1, <2>1, <2>3, <2>5, <2>7, DownFrameOnly
<1>6. CASE DownGo(d, "escalate") /\ down[d].pc = "refuse"
  <2> DEFINE n == DownMoved(down[d], "escalate")
  <2>1. "escalate" \in DownPcs /\ "escalate" \notin Ended BY DEF DownPcs, Ended
  <2>2. n \in DownState /\ n.pc = "escalate" /\ n.lost = down[d].lost /\ n.done = down[d].done
    BY <1>2, <2>1, DownMovedFacts
  <2>3. down' = [down EXCEPT ![d] = n] BY <1>2, <1>6, DownGoIs
  <2> HIDE DEF n
  <2>4. DownLife(n, dmn) BY <1>3, <2>2 DEF DownLife
  <2>5. Undisrupted => DownSlot(n, rec, dmn) BY <1>1, <1>3, <2>2, DownHas DEF DownSlot
  <2> QED BY <1>1, <2>2, <2>3, <2>4, <2>5, DownFrameOnly
<1>7. CASE DownGo(d, "exit1")
  <2> DEFINE n == DownMoved(down[d], "exit1")
  <2>1. n \in DownState /\ DownLife(n, dmn) /\ DownSlot(n, rec, dmn)
    BY <1>2, <1>3, DownEnded DEF Ended
  <2>2. down' = [down EXCEPT ![d] = n] BY <1>2, <1>7, DownGoIs
  <2> QED BY <1>1, <2>1, <2>2, DownFrameOnly
<1> QED BY <1>5, <1>6, <1>7 DEF WaitForPortToRefuse
LEMMA DownChecksStep ==
    ASSUME LifeInv, NEW d \in Downs, DownChecks(d)
    PROVE  LifeInv'
<1>1. down[d].pc = "check" /\ Undisturbed(d) /\ OnlyDown BY DEF DownChecks, DownAt
<1>2. /\ down[d] \in DownState /\ down \in [Downs -> DownState] /\ dmn \in DaemonsT
      /\ DownLife(down[d], dmn) /\ (Undisrupted => DownSlot(down[d], rec, dmn))
  BY DownHas
<1>3. CASE DownGo(d, "exit0")
  <2> DEFINE n == DownMoved(down[d], "exit0")
  <2>1. n \in DownState /\ DownLife(n, dmn) /\ DownSlot(n, rec, dmn)
    BY <1>2, DownEnded DEF Ended, DownLife
  <2>2. down' = [down EXCEPT ![d] = n] BY <1>2, <1>3, DownGoIs
  <2> QED BY <1>1, <2>1, <2>2, DownFrameOnly
<1>4. CASE Unchanged(down[d].lost) /\ DownGo(d, "unlink")
  <2> DEFINE n == DownMoved(down[d], "unlink")
  <2>1. "unlink" \in DownPcs /\ "unlink" \notin Ended BY DEF DownPcs, Ended
  <2>2. n \in DownState /\ n.pc = "unlink" /\ n.lost = down[d].lost /\ n.done = down[d].done
    BY <1>2, <2>1, DownMovedFacts
  <2>3. down' = [down EXCEPT ![d] = n] BY <1>2, <1>4, DownGoIs
  <2> HIDE DEF n
  <2>4. DownLife(n, dmn) BY <1>1, <1>2, <2>2 DEF DownLife
  <2>5. Matches(rec, down[d].lost) BY <1>4 DEF Matches, Unchanged
  <2>6. Undisrupted => DownSlot(n, rec, dmn) BY <1>1, <1>2, <2>2, <2>5 DEF DownSlot
  <2> QED BY <1>1, <2>2, <2>3, <2>4, <2>6, DownFrameOnly
<1> QED BY <1>3, <1>4 DEF DownChecks

LEMMA DownUnlinksStep ==
    ASSUME LifeInv, NEW d \in Downs, DownUnlinks(d)
    PROVE  LifeInv'
<1>1. /\ down[d].pc = "unlink" /\ Undisturbed(d) /\ rec' = Absent /\ DownGo(d, "exit0")
      /\ UNCHANGED <<scene, conf, store, dmn, ext, up, struck>>
  BY DEF DownUnlinks, DownAt
<1>2. /\ down[d] \in DownState /\ down \in [Downs -> DownState] /\ dmn \in DaemonsT
      /\ DownLife(down[d], dmn) /\ (Undisrupted => DownSlot(down[d], rec, dmn))
  BY DownHas
<1> DEFINE n == DownMoved(down[d], "exit0")
<1>3. n \in DownState /\ DownLife(n, dmn) /\ DownSlot(n, Absent, dmn)
  BY <1>2, DownEnded DEF Ended, DownLife
<1>4. down' = [down EXCEPT ![d] = n] BY <1>1, <1>2, DownGoIs
<1>5. ASSUME Undisrupted, NEW p \in Pids, dmn[p].st \in Live PROVE FALSE
  <2>1. p = rec.at BY <1>5 DEF LifeInv, SlotInv, SlotShared
  <2>2. /\ Matches(rec, down[d].lost) /\ ~down[d].lost.torn /\ down[d].lost.pid # Absent
        /\ dmn[down[d].lost.pid].st = "dead"
    BY <1>1, <1>2, <1>5 DEF DownSlot
  <2>3. down[d].lost.at = down[d].lost.pid
    BY <1>1, <1>2, <2>2, AbsentAssumption DEF DownLife, RecLife
  <2>4. rec.at = down[d].lost.at BY <2>2 DEF Matches
  <2> QED BY <2>1, <2>2, <2>3, <2>4, <1>5 DEF Live
<1> QED BY <1>1, <1>2, <1>3, <1>4, <1>5, MovesRefl, DownFrame

-----------------------------------------------------------------------------
(* The daemons and everybody else.                                         *)

LEMMA DaemonStep ==
    ASSUME LifeInv, NEW d \in Pids,
           DaemonBoots(d) \/ RuntimeDies(d) \/ DaemonExits(d) \/ SupervisorDies(d)
    PROVE  LifeInv'
<1>0. OnlyDaemons /\ scene' = scene
  BY DEF DaemonBoots, RuntimeDies, DaemonExits, SupervisorDies, OnlyDaemons
<1>1. dmn \in DaemonsT /\ struck \in BOOLEAN BY DEF LifeInv, LifeTypeOK, DaemonsT
<1>2. PICK x \in Live \cup {"dead"} :
        /\ dmn' = [dmn EXCEPT ![d].st = x]
        /\ dmn[d].st \notin {"none", "dead", "stranded"}
        /\ dmn[d].st = "stopping" => x = "dead"
        /\ x = "stranded" => Strikes("strand")
  BY DEF DaemonBoots, RuntimeDies, DaemonExits, SupervisorDies, Live
<1>3. /\ dmn' \in DaemonsT /\ Moves(dmn, dmn') /\ dmn'[d].st = x
      /\ \A q \in Pids \ {d} : dmn'[q] = dmn[q]
  <2>1. /\ x \in Live \cup {"none", "dead"}
        /\ x = "none" <=> dmn[d].st = "none"
        /\ dmn[d].st = "dead" => x = "dead"
        /\ dmn[d].st \in {"stopping", "stranded", "dead"} => x \in {"stopping", "stranded", "dead"}
    BY <1>2 DEF Live
  <2>2. LET dn == [dmn EXCEPT ![d].st = x] IN
        /\ dn \in DaemonsT /\ Moves(dmn, dn) /\ dn[d].st = x
        /\ \A q \in Pids \ {d} : dn[q] = dmn[q]
    BY <1>1, <2>1, OneMoves
  <2> QED BY <1>2, <2>2
<1>4. struck' \in BOOLEAN /\ (struck' = struck \/ struck' = TRUE)
  BY <1>1 DEF DaemonBoots, RuntimeDies, DaemonExits, SupervisorDies, Strikes
<1>5. ASSUME Undisrupted'
      PROVE  Undisrupted /\ \A p \in Pids : dmn'[p].st = "stranded" => dmn[p].st = "stranded"
  <2>1. Undisrupted BY <1>0, <1>1, <1>4, <1>5 DEF Undisrupted
  <2>2. x # "stranded" BY <1>0, <1>2, <1>5 DEF Undisrupted, Strikes
  <2> QED BY <1>3, <2>1, <2>2
<1>6. store' = store \/ \E p \in Pids : dmn[p].st # "none" /\ store' = store \cup {dmn[p].key}
  BY DEF DaemonBoots, RuntimeDies, DaemonExits, SupervisorDies
<1> QED BY <1>0, <1>3, <1>4, <1>5, <1>6, DaemonFrame

LEMMA OthersListenStep ==
    ASSUME LifeInv, NEW p \in Ports, NEW what \in {"engine", "listener"}, OthersListen(p, what)
    PROVE  LifeInv'
<1>1. /\ UNCHANGED <<scene, rec, conf, store, dmn, up, down>>
      /\ struck' = TRUE /\ scene.trouble = what /\ ext' = [ext EXCEPT ![p] = what]
  BY DEF OthersListen, Strikes
<1>2. LifeTypeOK' BY <1>1 DEF LifeInv, LifeTypeOK
<1>3. SceneOK' BY <1>1 DEF LifeInv, SceneOK
<1>4. Undisrupted' => Undisrupted BY <1>1 DEF Undisrupted
<1> QED BY <1>1, <1>2, <1>3, <1>4 DEF LifeInv, OneStretch, SlotInv, KeyScene, KeyInv

LEMMA ClaimAgesStep ==
    ASSUME LifeInv, ClaimAges
    PROVE  LifeInv'
<1>1. /\ rec # Absent /\ rec.pid = Absent /\ rec.at \in Ups /\ up[rec.at].pc \in Ended
      /\ rec' = [rec EXCEPT !.old = TRUE]
      /\ UNCHANGED <<scene, conf, store, dmn, ext, up, down, struck>>
  BY DEF ClaimAges
<1>2. rec \in RunRecord BY <1>1 DEF LifeInv, LifeTypeOK
<1>3. rec' \in RunRecord /\ rec'.pid = Absent BY <1>1, <1>2 DEF RunRecord
<1>4. LifeTypeOK' BY <1>1, <1>3 DEF LifeInv, LifeTypeOK
<1>5. RecLife(rec', dmn') BY <1>3 DEF RecLife
<1>6. ~Undisrupted
  BY <1>1, AwaitClaimed DEF LifeInv, SlotInv, Ended, Awaits
<1>7. ~Undisrupted' BY <1>1, <1>6 DEF Undisrupted
<1>8. SceneOK' BY <1>1 DEF LifeInv, SceneOK
<1> QED BY <1>1, <1>4, <1>5, <1>7, <1>8 DEF LifeInv, OneStretch, KeyScene, KeyInv

LEMMA LifeInitInv == LifeInit => LifeInv
<1> SUFFICES ASSUME LifeInit PROVE LifeInv OBVIOUS
<1> DEFINE ran == scene.from \in {"stale", "serving"}
<1>1. scene \in SceneT /\ (~scene.atomic => scene.trouble = "none")
  <2>1. scene \in [atomic: {TRUE}, from: Origins, trouble: Troubles]
                  \cup [atomic: {FALSE}, from: Interleaved, trouble: {"none"}]
    BY DEF LifeInit
  <2>2. CASE scene \in [atomic: {TRUE}, from: Origins, trouble: Troubles]
    <3>1. scene.atomic = TRUE BY <2>2
    <3>2. scene \in SceneT BY <2>2 DEF SceneT
    <3> QED BY <3>1, <3>2
  <2>3. CASE scene \in [atomic: {FALSE}, from: Interleaved, trouble: {"none"}]
    <3>1. scene.trouble = "none" BY <2>3
    <3>2. scene \in SceneT BY <2>3, InterleavedAssumption DEF SceneT, Troubles
    <3> QED BY <3>1, <3>2
  <2> QED BY <2>1, <2>2, <2>3
<1>2. ext = [p \in Ports |-> "none"] /\ struck = FALSE BY DEF LifeInit
<1>3. up = [u \in Ups |-> IdleUp] /\ down = [d \in Downs |-> IdleDown] BY DEF LifeInit
<1>4. rec = IF ran THEN OldRun ELSE Absent BY DEF LifeInit
<1>5. conf = CASE ran -> [key |-> "old", tok |-> "old", port |-> 1]
               [] scene.from = "edited" -> NoConfig
               [] OTHER -> Absent
  BY DEF LifeInit
<1>6. store = IF ran THEN {"old"} ELSE {} BY DEF LifeInit
<1>7. dmn = [p \in Pids |-> IF ran /\ p = "old"
                THEN [NoDaemon EXCEPT !.key = "old", !.tok = "old", !.st =
                        IF scene.from = "stale" THEN "dead" ELSE "serving"]
                ELSE NoDaemon]
  BY DEF LifeInit
<1>8. "old" \in Pids /\ "old" # Absent /\ 1 \in Ports
  BY AbsentAssumption, MaxPortAssumption DEF Pids, Ports
<1>9. OldRun \in RunRecord BY <1>8 DEF OldRun, RunRecord
<1>10. OldRun.at = "old" /\ OldRun.pid = "old" /\ OldRun.port = 1 BY DEF OldRun
<1>11. OldRun.torn = FALSE /\ OldRun.old = FALSE BY DEF OldRun
<1>12. NoConfig \in Config /\ [key |-> "old", tok |-> "old", port |-> 1] \in Config
  BY <1>8 DEF NoConfig, Config
<1>13. conf \in Config \cup {Absent} /\ (ran => conf \in Config /\ conf.key = "old")
       /\ (~ran /\ scene.from # "edited" => conf = Absent)
  BY <1>5, <1>12
<1>14. NoDaemon \in Daemon /\ NoDaemon.st = "none" BY <1>8 DEF NoDaemon, Daemon
<1>15. ASSUME ran
       PROVE  /\ dmn["old"] \in Daemon /\ dmn["old"].st \in {"dead", "serving"}
              /\ dmn["old"].key = "old" /\ dmn["old"].port = 1
  <2>1. dmn["old"] = [NoDaemon EXCEPT !.key = "old", !.tok = "old", !.st =
                        IF scene.from = "stale" THEN "dead" ELSE "serving"]
    BY <1>7, <1>8, <1>15
  <2> QED BY <2>1, <1>8 DEF NoDaemon, Daemon
<1>16. \A p \in Pids : ~(ran /\ p = "old") => dmn[p] = NoDaemon BY <1>7
<1>17. dmn \in DaemonsT BY <1>7, <1>14, <1>15, <1>16 DEF DaemonsT
<1>18. IdleUp \in UpState /\ IdleUp.pc = "idle" /\ IdleUp.file = Absent
  BY MaxPortAssumption DEF IdleUp, UpState, NoConfig, Config, Ports, Awaits
<1>19. IdleDown \in DownState /\ IdleDown.pc = "idle" BY DEF IdleDown, DownState, Awaits
<1>20. IdleDown.done = FALSE BY DEF IdleDown
<1>21. rec \in RunRecord \cup {Absent} /\ (ran => rec = OldRun /\ rec # Absent) /\ (~ran => rec = Absent)
  BY <1>4, <1>9, AbsentAssumption
<1> HIDE DEF ran
<1>22. LifeTypeOK
  <2>1. store \subseteq Pids \cup {Absent} BY <1>6, <1>8
  <2>2. up \in [Ups -> UpState] /\ down \in [Downs -> DownState] BY <1>3, <1>18, <1>19
  <2>3. ext \in [Ports -> {"none", "engine", "listener"}] BY <1>2
  <2> QED BY <1>2, <1>13, <1>17, <1>21, <2>1, <2>2, <2>3 DEF LifeTypeOK, DaemonsT
<1>23. SceneOK BY <1>1, <1>2 DEF SceneOK
<1>24. \A u \in Ups : up[u] = IdleUp /\ up[u].pc = "idle" /\ up[u].file = Absent /\ dmn[u].st = "none"
  BY <1>3, <1>14, <1>16, <1>18, UpPid
<1>25. \A d \in Downs : down[d].pc = "idle" /\ down[d].done = FALSE BY <1>3, <1>19, <1>20
<1>26. OneStretch BY <1>24, <1>25 DEF OneStretch, Awaits
<1>27. RecLife(rec, dmn) BY <1>10, <1>15, <1>21 DEF RecLife
<1>28. \A u \in Ups : UpShape(up[u], conf) /\ UpLife(up[u], dmn[u])
  BY <1>24 DEF UpShape, UpLife, GaveUp
<1>29. \A d \in Downs : DownLife(down[d], dmn) BY <1>25 DEF DownLife
<1>30. SlotInv
  <2>1. SlotShared(rec, dmn)
    BY <1>10, <1>14, <1>15, <1>16, <1>21 DEF SlotShared, Live
  <2>2. RecSlot(rec) BY <1>8, <1>10, <1>11, <1>21 DEF RecSlot
  <2>3. \A u \in Ups : UpSlot(u, up[u], rec, dmn) BY <1>24 DEF UpSlot, Claims
  <2>4. \A u \in Ups : Claimed(u, up[u], rec) BY <1>8, <1>10, <1>21, UpPid DEF Claimed
  <2>5. \A d \in Downs : DownSlot(down[d], rec, dmn) BY <1>25 DEF DownSlot
  <2> QED BY <2>1, <2>2, <2>3, <2>4, <2>5 DEF SlotInv
<1>31. KeyScene => KeyInv
  <2>1. conf # Absent => conf \in Config BY <1>13
  <2>2. KeyScene => KeyShared(conf, store, dmn, scene.atomic)
    <3>1. ran => conf # Absent BY <1>13, AbsentAssumption
    <3>2. \A p \in Pids : dmn[p].st # "none" => dmn[p].key # Absent /\ HasKey(conf, dmn[p].key)
      BY <1>8, <1>13, <1>14, <1>15, <1>16, <3>1 DEF HasKey
    <3>3. \A k \in store : k # Absent /\ HasKey(conf, k) BY <1>6, <1>8, <1>13, <3>1 DEF HasKey
    <3>4. KeyScene => (~scene.atomic /\ conf # Absent => conf.key # Absent)
      BY <1>8, <1>13 DEF KeyScene
    <3> QED BY <3>2, <3>3, <3>4 DEF KeyShared
  <2>3. \A u \in Ups : UpKey(up[u], conf, scene.atomic) BY <1>24 DEF UpKey
  <2> QED BY <2>2, <2>3 DEF KeyInv
<1> QED BY <1>22, <1>23, <1>26, <1>27, <1>28, <1>29, <1>30, <1>31 DEF LifeInv

LEMMA LifeStep == LifeInv /\ [LifeNext]_lifeVars => LifeInv'
<1> SUFFICES ASSUME LifeInv, [LifeNext]_lifeVars PROVE LifeInv' OBVIOUS
<1>1. ASSUME NEW u \in Ups, NEW env \in Ports \cup {Absent}, StartUp(u, env) PROVE LifeInv'
  BY <1>1, StartUpStep
<1>2. ASSUME NEW u \in Ups, UpStep(u) PROVE LifeInv'
  BY <1>2, ResolvePortStep, ScanPortStep, ClassifyPortStep, LoseClaimStep, ClaimRunSlotStep,
     FillClaimStep, CheckRecordStep, UnlinkRecordStep, GiveUpStep, CheckGuardsStep,
     CreateConfigStep, MergeReadStep, MergeRenameStep, ReadBackStep, SpawnEngineStep,
     WritePidStep, WaitForReadyStep, EngineServedStep, WaitOnOtherRunStep, FoundEngineStep
     DEF UpStep
<1>3. ASSUME NEW u \in Ups, UpKilled(u) PROVE LifeInv' BY <1>3, UpKilledStep
<1>4. ASSUME NEW d \in Downs, StartDown(d) \/ DownStep(d) PROVE LifeInv'
  BY <1>4, StartDownStep, ProveOwnershipStep, SignalStep, WaitForPortToRefuseStep,
     EscalateStep, DownChecksStep, DownUnlinksStep DEF DownStep
<1>5. ASSUME NEW d \in Pids,
             DaemonBoots(d) \/ RuntimeDies(d) \/ DaemonExits(d) \/ SupervisorDies(d)
      PROVE  LifeInv'
  BY <1>5, DaemonStep
<1>6. ASSUME NEW p \in Ports, NEW what \in {"engine", "listener"}, OthersListen(p, what)
      PROVE  LifeInv'
  BY <1>6, OthersListenStep
<1>7. CASE ClaimAges BY <1>7, ClaimAgesStep
<1>8. CASE UNCHANGED lifeVars
  BY <1>8 DEF lifeVars, LifeInv, LifeTypeOK, SceneOK, OneStretch, Undisrupted, SlotInv, KeyScene, KeyInv
<1> QED BY <1>1, <1>2, <1>3, <1>4, <1>5, <1>6, <1>7, <1>8 DEF LifeNext

\* Only the record's run may have a daemon, and it has one.
LEMMA LifeOneEngine == LifeInv => OneEngine
<1> SUFFICES ASSUME LifeInv PROVE OneEngine OBVIOUS
<1>1. LifeTypeOK BY DEF LifeInv
<1>2. ASSUME Undisrupted PROVE Cardinality(Running) <= 1
  <2>1. \A p \in Running : rec # Absent /\ p = rec.at
    BY <1>2 DEF LifeInv, SlotInv, SlotShared, Running, Live
  <2>2. CASE Running = {} BY <2>2, FS_EmptySet
  <2>3. CASE Running # {}
    <3>1. Running = {rec.at} BY <2>1, <2>3
    <3>2. \A x : Cardinality({x}) = 1 BY FS_Singleton
    <3>3. Cardinality(Running) = 1 BY <3>1, <3>2
    <3> QED BY <3>3
  <2> QED BY <2>2, <2>3
<1>3. StoreKey
  BY DEF LifeInv, KeyScene, KeyInv, KeyShared, HasKey, StoreKey
<1> QED BY <1>1, <1>2, <1>3 DEF OneEngine, OneDaemon

LEMMA LifeDownWorks == LifeInv => DownWorks
<1> SUFFICES ASSUME LifeInv PROVE DownWorks OBVIOUS
<1>1. Stoppable
  <2> SUFFICES ASSUME Undisrupted,
                      \A u \in Ups : up[u].pc \in Ended \cup {"idle"},
                      NEW d \in Running
               PROVE  rec # Absent /\ rec.pid = d
    BY DEF Stoppable
  <2>1. SlotInv BY DEF LifeInv
  <2>2. rec # Absent /\ d = rec.at BY <2>1 DEF SlotInv, SlotShared, Running, Live
  <2>3. rec.pid # Absent
    <3> SUFFICES ASSUME rec.pid = Absent PROVE FALSE OBVIOUS
    <3>1. rec.at \in Ups /\ Claimed(rec.at, up[rec.at], rec) BY <2>1, <2>2 DEF SlotInv, RecSlot
    <3> QED BY <2>2, <3>1, AwaitClaimed DEF Ended, Awaits
  <2> QED BY <2>2, <2>3 DEF LifeInv, RecLife
<1>2. StoppedIsGone
  BY DEF LifeInv, DownLife, StoppedIsGone, Running
<1> QED BY <1>1, <1>2 DEF DownWorks

\* One daemon per persist root while nobody is killed, and one key over a
\* store whatever is killed: for any number of ups and downs and any range of
\* ports, started from any state an earlier run or the user left.
THEOREM OneEnginePerRoot == LifeSpec => []OneEngine
BY LifeInitInv, LifeStep, LifeOneEngine, PTL DEF LifeSpec

\* What up left running down can stop, and what down calls stopped is gone.
THEOREM DownStopsTheEngine == LifeSpec => []DownWorks
BY LifeInitInv, LifeStep, LifeDownWorks, PTL DEF LifeSpec
=============================================================================
