------------------------------ MODULE AuditChain ------------------------------
(***************************************************************************)
(* The hash-chained audit log and the commands that check it:              *)
(* `insertRow` and `closeDecisionEntryInTxn` write the rows, the engine    *)
(* serves them newest first in pages, `habenula log verify` walks the      *)
(* pages and recomputes the chain, `habenula log dump` writes them to a    *)
(* file and `log verify --file` checks the file.  The log is written while *)
(* it is walked, the clock may go back over midnight, a stored row may be  *)
(* damaged, and a dump may be cut short.                                   *)
(*                                                                         *)
(* A hash is the tuple of the fields it is computed from (the framing of   *)
(* the fields is injective), so two hashes are equal exactly when their    *)
(* fields are.  Row contents are abstracted to the row's kind.             *)
(***************************************************************************)
EXTENDS Integers, Sequences, FiniteSets, SequencesExt

CONSTANTS
    Days,        \* what the wall clock may read, as ordered day numbers
    PageSize,    \* rows of a page of GET /api/audit
    MaxPages,    \* AUDIT_MAX_PAGES
    BatchSize,   \* READ_BATCH_SIZE
    MaxWrites,   \* bound: rows written
    MaxHarm,     \* bound: damages to stored rows
    MaxWalks     \* bound: wire walks

ASSUME ChainAssumption ==
    /\ Days \subseteq Nat /\ Days # {}
    /\ {PageSize, MaxPages, BatchSize, MaxWrites, MaxWalks} \subseteq Nat \ {0}
    /\ MaxHarm \in Nat

VARIABLES
    log,         \* audit_log in the order of its (epoch_id, sequence_num) index
    written,     \* rows written so far; a row's number is its id
    decisions,   \* ids of the rows written as decisions that owe a closer
    harms,       \* damages done to stored rows
    file,        \* the dump file: its data lines and what it was taken from
    walk,        \* the command that is running or has ended
    walks        \* wire walks started

chainVars == <<log, written, decisions, harms, file, walk, walks>>
logVars == <<log, written, decisions>>

GENESIS_SENTINEL == <<"GENESIS">>
Null == <<>>
NoRef == 0
Torn == [torn |-> TRUE]                 \* a line that does not parse as an entry

\* LIFECYCLE_TOOLS rows and `deny` rows owe no closer; `pending` and `allow` do.
Kinds == {"decision", "closer", "lifecycle"}

-----------------------------------------------------------------------------
(* Writing. *)

computeEntryHash(r) == <<r.epoch, r.seq, r.prev, r.id, r.kind, r.ref>>

Below(r, s) == r.epoch < s.epoch \/ (r.epoch = s.epoch /\ r.seq < s.seq)

\* How many rows of the index come before row r.
Rank(r) == Max({0} \union {i \in DOMAIN log : Below(log[i], r)})

(* Wrong: the epoch is whatever day the clock reads. *)
EpochOfClock(today) == today

\* deriveMonotonicEpochId: never earlier than the newest stored epoch.
deriveMonotonicEpochId(today) ==
    IF log # <<>> /\ Last(log).epoch > today THEN Last(log).epoch ELSE today

\* insertRow: link to the epoch's last row, or open an epoch with a genesis row.
insertRow(kind, ref, today) ==
    LET epoch  == deriveMonotonicEpochId(today)
        inEp   == {i \in DOMAIN log : log[i].epoch = epoch}
        opens  == inEp = {}
        latest == log[Max(inEp)]
        fields == [id |-> written + 1, epoch |-> epoch, kind |-> kind, ref |-> ref,
                   seq |-> IF opens THEN 0 ELSE latest.seq + 1,
                   prev |-> IF opens THEN GENESIS_SENTINEL ELSE latest.hash,
                   eprev |-> IF opens /\ log # <<>> THEN Last(log).hash ELSE Null,
                   hash |-> Null]
        row    == [fields EXCEPT !.hash = computeEntryHash(fields)]
    IN  /\ log' = InsertAt(log, Rank(row) + 1, row)
        /\ written' = written + 1

\* A command is under way.
Walking == walk.mode # "none" /\ walk.stop = "none"

\* Bound: the log changes until the last wire walk has ended; no step after it
\* reads the log.
Read == walks < MaxWalks \/ (Walking /\ walk.mode # "file")

Writes == /\ written < MaxWrites /\ Read
          /\ UNCHANGED <<harms, file, walk, walks>>

\* insertAuditEntryInTxn: a decision, or a row that owes nothing.
WriteEntry ==
    /\ Writes
    /\ \E today \in Days, kind \in {"decision", "lifecycle"} :
        /\ insertRow(kind, NoRef, today)
        /\ decisions' = IF kind = "decision" THEN decisions \union {written + 1}
                                             ELSE decisions

hasCloserInTxn(d) == \E i \in DOMAIN log : log[i].ref = d

\* closeDecisionEntryInTxn: an observed closer always writes, an inferred one
\* only where none is recorded.
CloseEntry ==
    /\ Writes
    /\ UNCHANGED decisions
    /\ \E today \in Days, d \in decisions, basis \in {"observed", "inferred"} :
        /\ basis = "inferred" => ~hasCloserInTxn(d)
        /\ insertRow("closer", d, today)

\* External: a stored row is lost, altered, or loses its cross-epoch link while
\* no command reads the log.  The newest row is never the lost one: no chain
\* tells a shorter log from it.
RowHarmed ==
    /\ harms < MaxHarm /\ ~Walking /\ Read
    /\ harms' = harms + 1
    /\ \E i \in DOMAIN log :
        \/ /\ i < Len(log)
           /\ log' = RemoveAt(log, i)
        \/ \E kind \in Kinds \ {"closer", log[i].kind} :
                log' = [log EXCEPT ![i].kind = kind]
        \/ /\ log[i].eprev # Null
           /\ log' = [log EXCEPT ![i].eprev = Null]
    /\ UNCHANGED <<written, decisions, file, walk, walks>>

-----------------------------------------------------------------------------
(* Checking one contiguous range, oldest row first. *)

Break(kind, r) == [kind |-> kind, epoch |-> r.epoch, seq |-> r.seq]

\* verifyChainRange, rules 2 and 3: row r directly after row p.
LinkBreaks(p, r) ==
    CASE p.epoch = r.epoch /\ r.seq # 0 /\ r.prev # p.hash -> {Break("prev_hash", r)}
      [] p.epoch # r.epoch /\ r.seq # 0                    -> {Break("prev_hash", r)}
      [] p.epoch # r.epoch /\ r.seq = 0 /\ r.eprev = Null  -> {Break("epoch_link_null", r)}
      [] p.epoch # r.epoch /\ r.seq = 0 /\ r.eprev \notin {Null, p.hash} -> {Break("epoch_link", r)}
      [] OTHER                                             -> {}

\* verifyChainRange, rule 1 and the genesis sentinel.
EntryBreaks(r) ==
    {b \in {Break("entry_hash", r)} : computeEntryHash(r) # r.hash}
      \union {b \in {Break("genesis_sentinel", r)} : r.seq = 0 /\ r.prev # GENESIS_SENTINEL}

\* verifyChainRange: every break of the range, its upper seam closed against
\* the boundary row of the range above it, when there is one.
verifyChainRange(rows, boundary) ==
    LET seam == rows \o boundary
    IN  (UNION {EntryBreaks(rows[i]) : i \in DOMAIN rows})
          \union (UNION {LinkBreaks(seam[i - 1], seam[i]) : i \in 2..Len(seam)})

GenesisShaped(r) == r.seq = 0 /\ r.eprev = Null

owesCloser(r) == r.ref = NoRef /\ r.kind = "decision"

\* checkDecisionClosure walks the range from its newest row to its oldest: the
\* closers of row i are those carried down and those above it in the range.
ClosersOf(rows, i, carry) ==
    {c \in carry \union {rows[j] : j \in (i + 1)..Len(rows)} : c.ref = rows[i].id}

Conflicted(rows, carry) ==
    {rows[i].id : i \in {j \in DOMAIN rows :
        owesCloser(rows[j]) /\ Cardinality(ClosersOf(rows, j, carry)) >= 2}}

Unresolved(rows, carry) ==
    {rows[i].id : i \in {j \in DOMAIN rows :
        owesCloser(rows[j]) /\ ClosersOf(rows, j, carry) = {}}}

(* Wrong: the closers of this range only are handed to the next one. *)
CarriesOwnClosers(rows, carry) ==
    {rows[i] : i \in {j \in DOMAIN rows :
        rows[j].ref # NoRef /\ \A k \in 1..(j - 1) : rows[k].id # rows[j].ref}}

\* The closers whose referent this range did not hold, for the older range.
CarriedDown(rows, carry) ==
    {c \in carry : \A i \in DOMAIN rows : rows[i].id # c.ref}
      \union {rows[i] : i \in {j \in DOMAIN rows :
                rows[j].ref # NoRef /\ \A k \in 1..(j - 1) : rows[k].id # rows[j].ref}}

-----------------------------------------------------------------------------
(* The walk. *)

\* last is the oldest row seen (previousOldest, and the next page's boundary);
\* of is the log as the first page found it, and harmed how often that log had
\* been damaged.
IdleWalk == [mode |-> "none", stop |-> "none", exit |-> -1, last |-> <<>>,
             carry |-> {}, breaks |-> {}, conflicted |-> {}, unresolved |-> {},
             pages |-> 0, read |-> 0, aborting |-> FALSE, begun |-> FALSE,
             of |-> <<>>, harmed |-> 0]

NoFile == [lines |-> <<>>, of |-> <<>>, harmed |-> 0]

ChainInit ==
    /\ log = <<>> /\ written = 0 /\ decisions = {} /\ harms = 0
    /\ file = NoFile /\ walk = IdleWalk /\ walks = 0

\* runLogVerify, runLogDump: a command starts.  A dump truncates its file; the
\* file of a dump is verified after it (not counted by MaxWalks).
StartWalk(mode) ==
    /\ ~Walking
    /\ \/ /\ mode = "file" /\ walk.mode = "dump"
          /\ UNCHANGED walks
       \/ /\ mode # "file" /\ walks < MaxWalks
          /\ walks' = walks + 1
    /\ walk' = [IdleWalk EXCEPT !.mode = mode]
    /\ file' = IF mode = "dump" THEN NoFile ELSE file
    /\ UNCHANGED <<logVars, harms>>

\* The range the walk has checked so far, extended by a page or a batch.
Checked(rows) ==
    [walk EXCEPT !.breaks = @ \union verifyChainRange(rows, walk.last),
                 !.conflicted = @ \union Conflicted(rows, walk.carry),
                 !.unresolved = @ \union Unresolved(rows, walk.carry),
                 !.carry = CarriedDown(rows, walk.carry),
                 !.last = <<Head(rows)>>,
                 !.read = @ + Len(rows)]

\* summarizeWalk: 3 over 5 over 130 over 4.
ExitCode(w, stop, exhausted) ==
    CASE w.breaks # {}                                     -> 3
      [] w.breaks = {} /\ w.conflicted # {}                -> 5
      [] w.breaks = {} /\ w.conflicted = {} /\ stop = "cancelled" -> 130
      [] OTHER ->
           IF \/ ~exhausted \/ stop = "partial_file"
              \/ w.mode # "dump" /\ w.last # <<>> /\ ~GenesisShaped(w.last[1])
           THEN 4 ELSE 0

Finished(w, stop, exhausted) ==
    [w EXCEPT !.stop = stop, !.exit = ExitCode(w, stop, exhausted)]

\* selectAuditChainPage and listAuditEntries: the newest rows below the cursor,
\* which is the last row served; oldest first here.
Page(cursor) ==
    LET left == IF cursor = <<>> THEN Len(log) ELSE Rank(cursor[1])
    IN  SubSeq(log, IF left <= PageSize THEN 1 ELSE left - PageSize + 1, left)

HasMore(page) == page # <<>> /\ \E i \in DOMAIN log : Below(log[i], Head(page))

\* walkAuditChain, one turn of its loop: the page the cursor names is served.
\* A cursor the engine cannot decode serves the first page again.
WalkPage ==
    /\ Walking /\ walk.mode \in {"verify", "dump"}
    /\ ~walk.aborting /\ walk.pages < MaxPages
    /\ \E cursor \in {walk.last, <<>>} :
        LET page  == Page(cursor)
            fresh == [walk EXCEPT !.begun = TRUE,
                        !.of = IF walk.begun THEN @ ELSE log,
                        !.harmed = IF walk.begun THEN @ ELSE harms]
            seen  == IF walk.mode = "verify" THEN Checked(page)
                                             ELSE [walk EXCEPT !.last = <<Head(page)>>]
            next  == [seen EXCEPT !.pages = @ + 1, !.begun = fresh.begun,
                                  !.of = fresh.of, !.harmed = fresh.harmed]
        IN  \/ /\ page = <<>>
               /\ walk' = Finished(fresh, "exhausted", TRUE)
               /\ UNCHANGED file
            \/ /\ page # <<>>
               /\ walk.last # <<>> /\ ~Below(Last(page), walk.last[1])
               /\ walk' = Finished(fresh, "cursor_stalled", FALSE)
               /\ UNCHANGED file
            \/ /\ page # <<>>
               /\ walk.last # <<>> => Below(Last(page), walk.last[1])
               /\ walk' = IF HasMore(page) THEN next ELSE Finished(next, "exhausted", TRUE)
               /\ file' = IF walk.mode = "verify" THEN file
                          ELSE [file EXCEPT !.lines = @ \o Reverse(page),
                                            !.of = next.of, !.harmed = next.harmed]
    /\ UNCHANGED <<logVars, harms, walks>>

\* walkAuditChain: the loop stops at a page boundary.
WalkStops ==
    /\ Walking /\ walk.mode \in {"verify", "dump"}
    /\ \/ /\ walk.aborting
          /\ walk' = Finished(walk, "cancelled", FALSE)
       \/ /\ ~walk.aborting /\ walk.pages >= MaxPages
          /\ walk' = Finished(walk, "page_ceiling", FALSE)
    /\ UNCHANGED <<logVars, harms, file, walks>>

\* The engine goes away mid-walk (exit 2), or the disk fills up (exit 1): the
\* command has no verdict and a dump leaves what it wrote.
WalkFails ==
    /\ Walking
    /\ \E code \in {1, 2} :
        /\ code = 1 => walk.mode = "dump"
        /\ code = 2 => walk.mode # "file"
        /\ walk' = [walk EXCEPT !.stop = "failed", !.exit = code]
    /\ UNCHANGED <<logVars, harms, file, walks>>

\* runWalkStandalone: the first Ctrl-C asks the walk to stop, the second one
\* leaves at once with the finding the walk has raised, if any.
Interrupt ==
    /\ Walking
    /\ walk' = IF ~walk.aborting THEN [walk EXCEPT !.aborting = TRUE]
               ELSE [walk EXCEPT !.stop = "forced",
                                 !.exit = IF walk.breaks # {} THEN 3
                                          ELSE IF walk.conflicted # {} THEN 5 ELSE 130]
    /\ UNCHANGED <<logVars, harms, file, walks>>

-----------------------------------------------------------------------------
(* The dump file. *)

\* External: a dump that is not being written loses its tail, possibly within
\* a line, or a line inside it is corrupted.
FileHarmed ==
    /\ ~Walking /\ walk.mode = "dump"
    /\ file.lines # <<>> /\ \A i \in DOMAIN file.lines : file.lines[i] # Torn
    /\ \/ \E n \in 0..(Len(file.lines) - 1), tail \in {<<>>, <<Torn>>} :
            file' = [file EXCEPT !.lines = SubSeq(@, 1, n) \o tail]
       \/ \E i \in 1..(Len(file.lines) - 1) : file' = [file EXCEPT !.lines[i] = Torn]
    /\ UNCHANGED <<logVars, harms, walk, walks>>

\* verifyDumpLines: the next batch of the file, or the lines before a torn one
\* or before a cancel.  A torn last line is truncation, a torn line with a
\* successor is corruption.
ReadBatch ==
    /\ Walking /\ walk.mode = "file"
    /\ LET lines == file.lines
           from  == walk.read + 1
           upto  == IF walk.read + BatchSize < Len(lines) THEN walk.read + BatchSize
                                                          ELSE Len(lines)
           bad   == {i \in from..upto : lines[i] = Torn}
           batch(n) == Reverse(SubSeq(lines, from, n))
           seen(n) == [IF n < from THEN walk ELSE Checked(batch(n))
                         EXCEPT !.of = file.of, !.harmed = file.harmed, !.begun = TRUE]
       IN  \/ /\ ~walk.aborting /\ bad = {}
              /\ walk' = IF upto < Len(lines) THEN seen(upto)
                                              ELSE Finished(seen(upto), "exhausted", TRUE)
           \/ \E i \in bad :
                /\ ~walk.aborting
                /\ walk' = IF i = Len(lines) THEN Finished(seen(i - 1), "partial_file", TRUE)
                           ELSE [walk EXCEPT !.stop = "failed", !.exit = 1]
           \/ \E n \in walk.read..upto :
                /\ walk.aborting /\ \A i \in bad : n < i
                /\ n < Len(lines)
                /\ walk' = Finished(seen(n), "cancelled", TRUE)
    /\ UNCHANGED <<logVars, harms, file, walks>>

-----------------------------------------------------------------------------

ChainNext ==
    \/ WriteEntry \/ CloseEntry \/ RowHarmed \/ FileHarmed
    \/ \E mode \in {"verify", "dump", "file"} : StartWalk(mode)
    \/ WalkPage \/ WalkStops \/ WalkFails \/ Interrupt \/ ReadBatch

ChainSpec == ChainInit /\ [][ChainNext]_chainVars

ChainTypeOK ==
    /\ written \in 0..MaxWrites /\ harms \in 0..MaxHarm /\ walks \in 0..MaxWalks
    /\ \A i \in DOMAIN log : log[i].epoch \in Days /\ log[i].seq \in Nat
    /\ \A i, j \in DOMAIN log : i < j => Below(log[i], log[j])
    /\ decisions \subseteq 1..written
    /\ walk.exit \in {-1, 0, 1, 2, 3, 4, 5, 130}
    /\ walk.pages \in 0..MaxPages

\* A log nobody damaged never reads as broken: whatever the clock did between
\* two writes, and whatever was written while the walk was under way, neither
\* the wire walk nor the file reports a break (deriveMonotonicEpochId).
HonestLogVerifies == walk.breaks # {} => harms > 0

\* What a walk that reached the end of its pages or of its file reports, with
\* the boundary and the closers carried from range to range, is what one check
\* of the same rows as one range reports, against the log as the first page
\* found it (walkAuditChain, verifyDumpLines).
PagedIsWhole ==
    walk.stop = "exhausted" /\ walk.mode \in {"verify", "file"} =>
        LET rows == SubSeq(walk.of, Len(walk.of) - walk.read + 1, Len(walk.of))
            closers(d) == {i \in DOMAIN rows : rows[i].ref = d}
            owed == {rows[i].id : i \in {j \in DOMAIN rows : owesCloser(rows[j])}}
        IN  /\ walk.mode = "verify" => walk.read = Len(walk.of)
            /\ walk.breaks = verifyChainRange(rows, <<>>)
            /\ walk.conflicted = {d \in owed : Cardinality(closers(d)) >= 2}
            /\ walk.unresolved = {d \in owed : closers(d) = {}}

\* Exit 0 from a verify that read at least one row is never the answer to one
\* fault: a walk or a file that reaches the oldest row passes only when no
\* stored row was lost, altered or cut off from its epoch, and over undamaged
\* rows only a walk or a file that reaches the oldest row passes, so a torn or
\* ceiling-stopped dump is never taken for a whole one.  (A dump cut exactly at
\* a genesis row that lost its cross-epoch link is genesis-shaped: two faults.)
OkMeansWhole ==
    walk.exit = 0 /\ walk.mode \in {"verify", "file"} /\ walk.last # <<>> =>
        LET whole == walk.last = <<Head(walk.of)>>
        IN  /\ whole => walk.harmed # 1
            /\ walk.harmed = 0 => whole

\* A verdict can be trusted both ways: an undamaged log is never called broken
\* and a damaged or cut one is never called whole.
VerdictsSound == ChainTypeOK /\ HonestLogVerifies /\ OkMeansWhole
=============================================================================
