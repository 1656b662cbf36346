----------------------------- MODULE PartsProofs -----------------------------
(***************************************************************************)
(* Proofs about three parts of the agent that share no state: the message  *)
(* list (Conversation), what may be paid for (Spending) and the audit      *)
(* chain with the commands that check it (AuditChain), for any number of   *)
(* rows, calls and turns, any quotes, prices, limits, holds, sessions and  *)
(* months, and any pages, batches, days, damages and walks.                *)
(***************************************************************************)
EXTENDS Conversation, Spending, AuditChain, FiniteSetTheorems, SequenceTheorems, TLAPS

(***************************************************************************)
(* The conversation. ConversationSound speaks of the list only when it is  *)
(* sent. In between, the list may end in a tool_use that is not answered   *)
(* yet: while its calls run, in a held row, and in the buffer a held turn  *)
(* or a throw left. WellFormed is what all of these keep, and the calls    *)
(* still to answer are exactly what that last message asks for (Waits).    *)
(***************************************************************************)
WellFormed(m) ==
    /\ m # <<>> => m[1].kind \in {"user", "hole"}
    /\ \A i \in 1..Len(m) :
         /\ m[i].kind = "use" => m[i].ids # {}
         /\ m[i].kind = "use" /\ i < Len(m) => m[i + 1] = Msg("results", m[i].ids)
         /\ m[i].kind = "results" => i > 1 /\ m[i - 1] = Msg("use", m[i].ids)

\* The list ends in a tool_use message that asks for ids.
Waits(m, ids) == m # <<>> /\ WellFormed(m) /\ m[Len(m)] = Msg("use", ids)

\* The list can be sent, or added to.
Complete(m) == WellFormed(m) /\ (m # <<>> => m[Len(m)].kind # "use")

Ids(s) == {s[i] : i \in 1..Len(s)}

\* The records and the calls to come are of different tool_uses, all given out.
Apart(recs, todo, uses) ==
    /\ \A i, j \in 1..Len(todo) : todo[i] = todo[j] => i = j
    /\ \A i \in 1..Len(todo) : todo[i] <= uses
    /\ \A i, j \in 1..Len(recs) : recs[i][1] = recs[j][1] => i = j
    /\ \A i \in 1..Len(recs) : /\ recs[i][1] <= uses
                               /\ \A j \in 1..Len(todo) : recs[i][1] # todo[j]

TurnOK(t, m, hold, uses) ==
    /\ t.pc = "llm" => m # <<>> /\ Complete(m)
    /\ t.pc = "tool" => t.todo # <<>> /\ Waits(m, t.done \cup Ids(t.todo))
    /\ t.pc = "send" => t.row \in Rows
    /\ t.row \in Rows => hold[t.row].st # "none"
    /\ Apart(t.recs, t.todo, uses)
    /\ \A i \in 1..Len(t.recs) : ~t.recs[i][2]

RowOK(s, uses) ==
    /\ s.st # "none" => s.held \in Uses /\ Waits(s.base, s.done \cup {s.held} \cup Ids(s.parked))
    /\ Apart(s.recs, s.parked, uses)
    /\ \A i \in 1..Len(s.recs) : s.recs[i][2] <=> s.recs[i][1] = s.held

TurnT == [pc: {"idle", "llm", "tool", "send"}, shared: BOOLEAN, own: Seq(Message),
          roll: Nat, iter: 0..MaxIter, todo: Seq(Uses), done: SUBSET Uses,
          row: Rows \cup {NoRow}, recs: Seq(Record)]

HoldT == [st: {"none", "parked", "dispatched", "answered", "gone"},
          shared: BOOLEAN, base: Seq(Message), held: 0..MaxUses,
          parked: Seq(Uses), done: SUBSET Uses, iter: 0..MaxIter, recs: Seq(Record)]

BufferOK(b) == b \in Seq(Message) /\ WellFormed(b)

RowsOK(hold, uses) == hold \in [Rows -> HoldT] /\ \A h \in Rows : RowOK(hold[h], uses)

\* The inductive invariant.
ConvInv ==
    /\ BufferOK(cvBuf)
    /\ cvTurn \in TurnT /\ TurnOK(cvTurn, Messages(cvTurn), cvHold, cvUses)
    /\ RowsOK(cvHold, cvUses)
    /\ cvUses \in 0..MaxUses /\ cvTurns \in 0..MaxTurns
-----------------------------------------------------------------------------
(* Lists of messages.                                                      *)

LEMMA MsgFacts ==
    ASSUME NEW kind \in {"user", "text", "use", "results", "hole"}, NEW ids \in SUBSET Uses
    PROVE  /\ Msg(kind, ids) \in Message
           /\ Msg(kind, ids).kind = kind /\ Msg(kind, ids).ids = ids
BY DEF Msg, Message

LEMMA MsgIs ==
    ASSUME NEW x \in Message PROVE x = Msg(x.kind, x.ids) /\ x.ids \in SUBSET Uses
BY DEF Msg, Message

LEMMA AppendFacts ==
    ASSUME NEW S, NEW m \in Seq(S), NEW x \in S
    PROVE  LET n == Append(m, x) IN
           /\ n \in Seq(S) /\ n # <<>> /\ Len(n) = Len(m) + 1 /\ n[Len(m) + 1] = x
           /\ \A i \in 1..Len(m) : n[i] = m[i]
           /\ Len(m) \in Nat
OBVIOUS

\* What an appended message must be for the list to stay well formed.
LEMMA AppendWellFormed ==
    ASSUME NEW m \in Seq(Message), WellFormed(m), NEW x \in Message,
           m = <<>> => x.kind \in {"user", "hole"},
           m # <<>> /\ m[Len(m)].kind = "use" => x = Msg("results", m[Len(m)].ids),
           x.kind = "use" => x.ids # {},
           x.kind = "results" => m # <<>> /\ m[Len(m)] = Msg("use", x.ids)
    PROVE  WellFormed(Append(m, x))
<1> DEFINE n == Append(m, x)
           k == Len(m)
<1>1. /\ n \in Seq(Message) /\ n # <<>> /\ Len(n) = k + 1 /\ n[k + 1] = x
      /\ \A i \in 1..k : n[i] = m[i]
      /\ k \in Nat
  BY AppendFacts
<1>2. m = <<>> <=> k = 0 OBVIOUS
<1> HIDE DEF n, k
<1>3. n[1].kind \in {"user", "hole"}
  <2>1. CASE k = 0 BY <1>1, <1>2, <2>1
  <2>2. CASE k # 0 BY <1>1, <1>2, <2>2 DEF WellFormed
  <2> QED BY <2>1, <2>2
<1>4. ASSUME NEW i \in 1..Len(n)
      PROVE  /\ n[i].kind = "use" => n[i].ids # {}
             /\ n[i].kind = "use" /\ i < Len(n) => n[i + 1] = Msg("results", n[i].ids)
             /\ n[i].kind = "results" => i > 1 /\ n[i - 1] = Msg("use", n[i].ids)
  <2>1. CASE i = k + 1
    <3>1. n[i] = x /\ ~(i < Len(n)) BY <1>1, <2>1
    <3>2. x.kind = "results" => k > 0 /\ n[k] = Msg("use", x.ids) BY <1>1, <1>2 DEF k
    <3>3. k > 0 => i > 1 /\ i - 1 = k BY <1>1, <2>1
    <3> QED BY <3>1, <3>2, <3>3
  <2>2. CASE i # k + 1
    <3>1. i \in 1..k /\ n[i] = m[i] BY <1>1, <2>2
    <3>2. n[i].kind = "use" => n[i].ids # {} BY <3>1 DEF WellFormed, k
    <3>3. n[i].kind = "results" => i > 1 /\ n[i - 1] = Msg("use", n[i].ids)
      <4>1. n[i].kind = "results" => i > 1 /\ m[i - 1] = Msg("use", m[i].ids)
        BY <3>1 DEF WellFormed, k
      <4>2. i > 1 => n[i - 1] = m[i - 1] BY <1>1, <3>1
      <4> QED BY <3>1, <4>1, <4>2
    <3>4. ASSUME n[i].kind = "use" PROVE n[i + 1] = Msg("results", n[i].ids)
      <4>1. CASE i = k BY <1>1, <1>2, <3>1, <3>4, <4>1 DEF k
      <4>2. CASE i < k
        <5>1. m[i + 1] = Msg("results", m[i].ids) BY <3>1, <3>4, <4>2 DEF WellFormed, k
        <5>2. n[i + 1] = m[i + 1] BY <1>1, <3>1, <4>2
        <5> QED BY <3>1, <5>1, <5>2
      <4> QED BY <1>1, <3>1, <4>1, <4>2
    <3> QED BY <3>2, <3>3, <3>4
  <2> QED BY <2>1, <2>2
<1>5. WellFormed(n) BY <1>3, <1>4 DEF WellFormed
<1> QED BY <1>5 DEF n

LEMMA AppendComplete ==
    ASSUME NEW m \in Seq(Message), Complete(m), NEW kind \in {"user", "text"},
           m # <<>> \/ kind = "user"
    PROVE  LET n == Append(m, Msg(kind, {})) IN n \in Seq(Message) /\ n # <<>> /\ Complete(n)
<1> DEFINE x == Msg(kind, {})
           n == Append(m, x)
<1>1. x \in Message /\ x.kind = kind BY MsgFacts
<1> HIDE DEF x
<1>2. WellFormed(n)
  BY <1>1, AppendWellFormed DEF Complete
<1>3. n \in Seq(Message) /\ n # <<>> /\ n[Len(n)] = x BY <1>1, AppendFacts
<1> HIDE DEF n
<1>4. Complete(n) BY <1>1, <1>2, <1>3 DEF Complete
<1> QED BY <1>3, <1>4 DEF n, x

LEMMA AppendUse ==
    ASSUME NEW m \in Seq(Message), m # <<>>, Complete(m), NEW ids \in SUBSET Uses, ids # {}
    PROVE  LET n == Append(m, Msg("use", ids)) IN n \in Seq(Message) /\ Waits(n, ids)
<1> DEFINE x == Msg("use", ids)
           n == Append(m, x)
<1>1. x \in Message /\ x.kind = "use" /\ x.ids = ids BY MsgFacts
<1> HIDE DEF x
<1>2. WellFormed(n) BY <1>1, AppendWellFormed DEF Complete
<1>3. n \in Seq(Message) /\ n # <<>> /\ n[Len(n)] = x BY <1>1, AppendFacts
<1> HIDE DEF n
<1>4. Waits(n, ids) BY <1>2, <1>3 DEF Waits, x
<1> QED BY <1>3, <1>4 DEF n, x

LEMMA AppendResults ==
    ASSUME NEW m \in Seq(Message), NEW ids, Waits(m, ids)
    PROVE  LET n == Append(m, Msg("results", ids)) IN
           n \in Seq(Message) /\ n # <<>> /\ Complete(n)
<1> DEFINE x == Msg("results", ids)
           n == Append(m, x)
           y == m[Len(m)]
<1>1. m # <<>> /\ y = Msg("use", ids) /\ WellFormed(m) BY DEF Waits
<1>2. y \in Message BY <1>1
<1> HIDE DEF y
<1>3. ids \in SUBSET Uses /\ y.kind = "use" /\ y.ids = ids
  BY <1>1, <1>2 DEF Msg, Message
<1>4. x \in Message /\ x.kind = "results" /\ x.ids = ids BY <1>3, MsgFacts
<1>5. y.kind = "use" => x = Msg("results", y.ids) BY <1>3
<1> HIDE DEF x
<1>6. WellFormed(n) BY <1>1, <1>3, <1>4, <1>5, AppendWellFormed DEF y
<1>7. n \in Seq(Message) /\ n # <<>> /\ n[Len(n)] = x BY <1>4, AppendFacts
<1> HIDE DEF n
<1>8. Complete(n) BY <1>4, <1>6, <1>7 DEF Complete
<1> QED BY <1>7, <1>8 DEF n, x

LEMMA RepairedComplete ==
    ASSUME NEW m \in Seq(Message), WellFormed(m)
    PROVE  Repaired(m) \in Seq(Message) /\ Complete(Repaired(m))
<1>1. CASE m # <<>> /\ m[Len(m)].kind = "use"
  <2> DEFINE y == m[Len(m)]
  <2>0. Len(m) \in 1..Len(m) BY <1>1
  <2>1. y \in Message /\ y.ids # {} /\ Trailing(m) = y.ids
    BY <1>1, <2>0 DEF WellFormed, Trailing
  <2>2. y = Msg("use", y.ids) BY <1>1, <2>1, MsgIs
  <2>3. Waits(m, y.ids) BY <1>1, <2>2 DEF Waits
  <2>4. Repaired(m) = Append(m, Msg("results", y.ids)) BY <2>1 DEF Repaired
  <2> HIDE DEF y
  <2> QED BY <2>3, <2>4, AppendResults
<1>2. CASE ~(m # <<>> /\ m[Len(m)].kind = "use")
  <2>1. Repaired(m) = m BY <1>2 DEF Repaired, Trailing
  <2> QED BY <1>2, <2>1 DEF Complete
<1> QED BY <1>1, <1>2

\* Cutting a complete list anywhere, or padding it with holes.
LEMMA ResizedWellFormed ==
    ASSUME NEW m \in Seq(Message), m # <<>>, Complete(m), NEW k \in Nat
    PROVE  Resized(m, k) \in Seq(Message) /\ WellFormed(Resized(m, k))
<1> DEFINE hole == Msg("hole", {})
           n == Resized(m, k)
           l == Len(m)
<1>1. hole \in Message /\ hole.kind = "hole" BY MsgFacts
<1>2. n = [i \in 1..k |-> IF i <= l THEN m[i] ELSE hole] BY DEF Resized
<1>3. l \in Nat /\ l >= 1 /\ \A i \in 1..l : m[i] \in Message OBVIOUS
<1>w. WellFormed(m) /\ m[l].kind # "use" BY DEF Complete
<1> HIDE DEF hole, n, l
<1>4. \A i \in 1..k : n[i] \in Message /\ n[i] = IF i <= l THEN m[i] ELSE hole
  BY <1>1, <1>2, <1>3
<1>5. n \in [1..k -> Message] BY <1>2, <1>4
<1>6. n \in Seq(Message) /\ Len(n) = k BY <1>5
<1>7. n # <<>> => n[1].kind \in {"user", "hole"}
  <2>1. n # <<>> => k >= 1 BY <1>6
  <2>2. m[1].kind \in {"user", "hole"} BY <1>w DEF WellFormed
  <2> QED BY <1>3, <1>4, <2>1, <2>2
<1>8. ASSUME NEW i \in 1..k
      PROVE  /\ n[i].kind = "use" => n[i].ids # {}
             /\ n[i].kind = "use" /\ i < k => n[i + 1] = Msg("results", n[i].ids)
             /\ n[i].kind = "results" => i > 1 /\ n[i - 1] = Msg("use", n[i].ids)
  <2>1. CASE i > l BY <1>1, <1>3, <1>4, <2>1
  <2>2. CASE i <= l
    <3>1. n[i] = m[i] /\ i \in 1..l BY <1>3, <1>4, <2>2
    <3>2. n[i].kind = "use" => n[i].ids # {} BY <1>w, <3>1 DEF WellFormed, l
    <3>3. n[i].kind = "results" => i > 1 /\ n[i - 1] = Msg("use", n[i].ids)
      <4>1. n[i].kind = "results" => i > 1 /\ m[i - 1] = Msg("use", m[i].ids)
        BY <1>w, <3>1 DEF WellFormed, l
      <4>2. i > 1 => n[i - 1] = m[i - 1] BY <1>3, <1>4, <3>1
      <4> QED BY <3>1, <4>1, <4>2
    <3>4. ASSUME n[i].kind = "use", i < k PROVE n[i + 1] = Msg("results", n[i].ids)
      <4>1. i < l BY <1>w, <1>3, <3>1, <3>4
      <4>2. m[i + 1] = Msg("results", m[i].ids) BY <1>w, <3>1, <3>4, <4>1 DEF WellFormed, l
      <4>3. n[i + 1] = m[i + 1] BY <1>3, <1>4, <3>1, <3>4, <4>1
      <4> QED BY <3>1, <4>2, <4>3
    <3> QED BY <3>2, <3>3, <3>4
  <2> QED BY <1>3, <2>1, <2>2
<1>9. WellFormed(n) BY <1>6, <1>7, <1>8 DEF WellFormed
<1> QED BY <1>6, <1>9 DEF n

LEMMA CompleteAcceptable ==
    ASSUME NEW m \in Seq(Message), m # <<>>, Complete(m) PROVE Acceptable(m)
<1>1. m[1].kind \in {"user", "hole"} BY DEF Complete, WellFormed
<1>2. ASSUME NEW i \in 1..Len(m)
      PROVE  /\ m[i].kind = "use" => i < Len(m) /\ m[i + 1] = Msg("results", m[i].ids)
             /\ m[i].kind = "results" => i > 1 /\ m[i - 1] = Msg("use", m[i].ids)
  BY DEF Complete, WellFormed
<1> QED BY <1>1, <1>2 DEF Acceptable
-----------------------------------------------------------------------------
(* The calls of a turn and their records.                                  *)

LEMMA HeadTail ==
    ASSUME NEW S, NEW s \in Seq(S), s # <<>>
    PROVE  /\ Head(s) \in S /\ Head(s) = s[1] /\ Tail(s) \in Seq(S)
           /\ Len(s) \in Nat \ {0} /\ Len(Tail(s)) = Len(s) - 1
           /\ \A i \in 1..Len(Tail(s)) : Tail(s)[i] = s[i + 1]
OBVIOUS

LEMMA IdsOfTail ==
    ASSUME NEW S, NEW s \in Seq(S), s # <<>>
    PROVE  Ids(s) = {Head(s)} \cup Ids(Tail(s))
<1> DEFINE t == Tail(s)
           k == Len(s)
<1>1. /\ Head(s) = s[1] /\ k \in Nat \ {0} /\ Len(t) = k - 1
      /\ \A i \in 1..Len(t) : t[i] = s[i + 1]
  BY HeadTail
<1> HIDE DEF t, k
<1>2. ASSUME NEW i \in 1..k PROVE s[i] \in {s[1]} \cup Ids(t)
  <2>1. CASE i = 1 BY <2>1
  <2>2. CASE i # 1
    <3>1. i - 1 \in 1..Len(t) BY <1>1, <2>2
    <3>2. t[i - 1] = s[i] BY <1>1, <3>1
    <3> QED BY <3>1, <3>2 DEF Ids
  <2> QED BY <2>1, <2>2
<1>3. ASSUME NEW i \in 1..Len(t) PROVE t[i] \in {s[j] : j \in 1..k}
  <2>1. i + 1 \in 1..k BY <1>1
  <2> QED BY <1>1, <2>1
<1>4. 1 \in 1..k BY <1>1
<1>5. Ids(s) = {s[j] : j \in 1..k} BY DEF Ids, k
<1>6. Ids(t) = {t[j] : j \in 1..Len(t)} BY DEF Ids
<1> QED BY <1>1, <1>2, <1>3, <1>4, <1>5, <1>6 DEF t

LEMMA IdsTyped ==
    ASSUME NEW s \in Seq(Uses) PROVE Ids(s) \in SUBSET Uses /\ (s = <<>> => Ids(s) = {})
BY DEF Ids

\* A call leaves the list of calls to come and gets its record.
LEMMA ApartStep ==
    ASSUME NEW recs \in Seq(Record), NEW todo \in Seq(Uses), todo # <<>>, NEW uses \in 0..MaxUses,
           Apart(recs, todo, uses), NEW b \in BOOLEAN
    PROVE  LET rs == Append(recs, <<Head(todo), b>>) IN
           /\ rs \in Seq(Record) /\ Len(rs) = Len(recs) + 1
           /\ rs[Len(rs)] = <<Head(todo), b>>
           /\ \A i \in 1..Len(recs) : rs[i] = recs[i] /\ recs[i][1] # Head(todo)
           /\ Apart(rs, Tail(todo), uses)
<1> DEFINE u == Head(todo)
           td == Tail(todo)
           k == Len(todo)
           r == <<u, b>>
           rs == Append(recs, r)
           l == Len(recs)
<1>1. /\ u \in Uses /\ u = todo[1] /\ td \in Seq(Uses)
      /\ k \in Nat \ {0} /\ Len(td) = k - 1
      /\ \A i \in 1..Len(td) : td[i] = todo[i + 1]
  BY HeadTail
<1>2. r \in Record /\ r[1] = u BY <1>1 DEF Record
<1>3. /\ rs \in Seq(Record) /\ Len(rs) = l + 1 /\ rs[l + 1] = r
      /\ \A i \in 1..l : rs[i] = recs[i]
      /\ l \in Nat
  <2> HIDE DEF r
  <2> QED BY <1>2, AppendFacts
<1>4. /\ \A i, j \in 1..k : todo[i] = todo[j] => i = j
      /\ \A i \in 1..k : todo[i] <= uses
      /\ \A i, j \in 1..l : recs[i][1] = recs[j][1] => i = j
      /\ \A i \in 1..l : recs[i][1] <= uses
      /\ \A i \in 1..l : \A j \in 1..k : recs[i][1] # todo[j]
  BY DEF Apart
<1> HIDE DEF u, td, k, r, rs, l
<1>5. 1 \in 1..k /\ \A i \in 1..Len(td) : i + 1 \in 1..k /\ i + 1 # 1 BY <1>1
<1>6. \A i, j \in 1..Len(td) : td[i] = td[j] => i = j
  <2> SUFFICES ASSUME NEW i \in 1..Len(td), NEW j \in 1..Len(td), td[i] = td[j] PROVE i = j
    OBVIOUS
  <2>1. i + 1 = j + 1 BY <1>1, <1>4, <1>5
  <2> QED BY <2>1
<1>7. \A i \in 1..Len(td) : td[i] <= uses BY <1>1, <1>4, <1>5
<1>8. \A i \in 1..l : rs[i][1] = recs[i][1] /\ recs[i][1] # u BY <1>1, <1>3, <1>4, <1>5
<1>9. \A i \in 1..Len(rs) : i \in 1..l \/ i = l + 1 BY <1>3
<1>10. \A i, j \in 1..Len(rs) : rs[i][1] = rs[j][1] => i = j
  <2> SUFFICES ASSUME NEW i \in 1..Len(rs), NEW j \in 1..Len(rs), rs[i][1] = rs[j][1]
               PROVE  i = j
    OBVIOUS
  <2>1. CASE i \in 1..l /\ j \in 1..l BY <1>4, <1>8, <2>1
  <2>2. CASE i \in 1..l /\ j = l + 1 BY <1>2, <1>3, <1>8, <2>2
  <2>3. CASE i = l + 1 /\ j \in 1..l BY <1>2, <1>3, <1>8, <2>3
  <2> QED BY <1>9, <2>1, <2>2, <2>3
<1>11. \A i \in 1..Len(rs) : rs[i][1] <= uses /\ \A j \in 1..Len(td) : rs[i][1] # td[j]
  <2> SUFFICES ASSUME NEW i \in 1..Len(rs)
               PROVE  rs[i][1] <= uses /\ \A j \in 1..Len(td) : rs[i][1] # td[j]
    OBVIOUS
  <2>1. CASE i \in 1..l
    <3>1. rs[i][1] = recs[i][1] /\ recs[i][1] <= uses BY <1>4, <1>8, <2>1
    <3>2. ASSUME NEW j \in 1..Len(td) PROVE recs[i][1] # td[j]
      <4>1. td[j] = todo[j + 1] /\ j + 1 \in 1..k BY <1>1, <1>5
      <4> QED BY <1>4, <2>1, <4>1
    <3> QED BY <3>1, <3>2
  <2>2. CASE i = l + 1
    <3>1. rs[i][1] = todo[1] BY <1>1, <1>2, <1>3, <2>2
    <3>2. ASSUME NEW j \in 1..Len(td) PROVE todo[1] # td[j]
      <4>1. td[j] = todo[j + 1] /\ j + 1 \in 1..k /\ j + 1 # 1 BY <1>1, <1>5
      <4> QED BY <1>4, <1>5, <4>1
    <3> QED BY <1>4, <1>5, <3>1, <3>2
  <2> QED BY <1>9, <2>1, <2>2
<1>12. Apart(rs, td, uses) BY <1>6, <1>7, <1>10, <1>11 DEF Apart
<1>13. rs[Len(rs)] = r BY <1>3
<1> QED BY <1>3, <1>4, <1>5, <1>1, <1>8, <1>12, <1>13 DEF u, td, r, rs, l

\* New ids are larger than any given out.
LEMMA ApartGrows ==
    ASSUME NEW recs \in Seq(Record), NEW todo \in Seq(Uses), NEW uses \in 0..MaxUses,
           NEW more \in 0..MaxUses, uses <= more, Apart(recs, todo, uses)
    PROVE  Apart(recs, todo, more)
<1>1. \A i \in 1..Len(recs) : recs[i][1] \in Uses BY DEF Record
<1>2. \A i \in 1..Len(todo) : todo[i] \in Uses OBVIOUS
<1>3. \A x \in Uses : x <= uses => x <= more BY ConvAssumption DEF Uses
<1> QED BY <1>1, <1>2, <1>3 DEF Apart

LEMMA ApartFresh ==
    ASSUME NEW recs \in Seq(Record), NEW todo \in Seq(Uses), NEW uses \in 0..MaxUses,
           NEW n \in 0..2, uses + n <= MaxUses, Apart(recs, todo, uses)
    PROVE  LET td == [i \in 1..n |-> uses + i] IN
           /\ td \in Seq(Uses) /\ Ids(td) = {uses + i : i \in 1..n}
           /\ n > 0 => td # <<>>
           /\ n > 0 => {uses + i : i \in 1..n} # {}
           /\ n = 0 => {uses + i : i \in 1..n} = {}
           /\ Apart(recs, td, uses + n)
<1> DEFINE td == [i \in 1..n |-> uses + i]
<1>1. \A i \in 1..n : uses + i \in Uses BY ConvAssumption DEF Uses
<1>2. td \in [1..n -> Uses] BY <1>1
<1>4. \A i \in 1..n : td[i] = uses + i /\ td[i] <= uses + n OBVIOUS
<1> HIDE DEF td
<1>3. td \in Seq(Uses) /\ Len(td) = n BY <1>2
<1>5. Ids(td) = {uses + i : i \in 1..n} BY <1>3, <1>4 DEF Ids
<1>6. n > 0 => 1 \in 1..n OBVIOUS
<1>7. n = 0 => 1..n = {} OBVIOUS
<1>8. n > 0 => td # <<>> BY <1>3
<1>9. \A i \in 1..Len(recs) : recs[i][1] \in Uses /\ recs[i][1] <= uses BY DEF Record, Apart
<1>10. \A x \in Uses : x <= uses => x <= uses + n /\ \A i \in 1..n : x # uses + i
  BY ConvAssumption DEF Uses
<1>11. \A i, j \in 1..n : td[i] = td[j] => i = j BY <1>4
<1>12. \A i \in 1..Len(recs) : recs[i][1] <= uses + n /\ \A j \in 1..n : recs[i][1] # td[j]
  BY <1>4, <1>9, <1>10
<1>13. Apart(recs, td, uses + n) BY <1>3, <1>4, <1>11, <1>12 DEF Apart
<1> QED BY <1>3, <1>5, <1>6, <1>7, <1>8, <1>13 DEF td

\* Resuming: no record reads `held` any more, the ids stay.
LEMMA ResolvedFacts ==
    ASSUME NEW recs \in Seq(Record), NEW todo \in Seq(Uses), NEW uses \in 0..MaxUses,
           NEW u \in Uses, Apart(recs, todo, uses),
           \A i \in 1..Len(recs) : recs[i][2] <=> recs[i][1] = u
    PROVE  LET rs == Resolved(recs, u) IN
           /\ rs \in Seq(Record) /\ Apart(rs, todo, uses)
           /\ \A i \in 1..Len(rs) : ~rs[i][2]
<1> DEFINE rs == Resolved(recs, u)
           k == Len(recs)
<1>1. DOMAIN recs = 1..k /\ k \in Nat /\ \A i \in 1..k : recs[i] \in Record OBVIOUS
<1>2. rs = [i \in 1..k |-> IF recs[i] = <<u, TRUE>> THEN <<u, FALSE>> ELSE recs[i]]
  BY <1>1 DEF Resolved
<1> HIDE DEF rs, k
<1>3. ASSUME NEW i \in 1..k
      PROVE  rs[i] \in Record /\ rs[i][1] = recs[i][1] /\ ~rs[i][2]
  <2>0. recs[i] \in Record /\ (recs[i][2] <=> recs[i][1] = u) BY <1>1 DEF k
  <2>1. CASE recs[i] = <<u, TRUE>>
    <3>1. rs[i] = <<u, FALSE>> BY <1>2, <2>1
    <3>2. <<u, FALSE>> \in Record BY DEF Record
    <3> QED BY <2>1, <3>1, <3>2
  <2>2. CASE recs[i] # <<u, TRUE>>
    <3>1. rs[i] = recs[i] BY <1>2, <2>2
    <3>2. recs[i][2] \in BOOLEAN /\ recs[i] = <<recs[i][1], recs[i][2]>> BY <2>0 DEF Record
    <3>3. ~recs[i][2] BY <2>0, <2>2, <3>2
    <3> QED BY <2>0, <3>1, <3>3
  <2> QED BY <2>1, <2>2
<1>4. rs \in [1..k -> Record] BY <1>2, <1>3
<1>5. rs \in Seq(Record) /\ Len(rs) = k BY <1>1, <1>4
<1>6. Apart(rs, todo, uses) BY <1>3, <1>5 DEF Apart, k
<1> QED BY <1>3, <1>5, <1>6 DEF rs
-----------------------------------------------------------------------------
(* The turn goes on, or ends; rows go.                                     *)

LEMMA GoesOnOK ==
    ASSUME NEW t \in TurnT, NEW m \in Seq(Message), WellFormed(m), BufferOK(cvBuf),
           NEW hold, NEW uses, TurnOK(t, m, hold, uses), GoesOn(t, m)
    PROVE  BufferOK(cvBuf') /\ cvTurn' \in TurnT /\ TurnOK(cvTurn', Messages(cvTurn)', hold, uses)
<1>1. CASE t.shared
  <2>1. cvTurn' = t /\ cvBuf' = m BY <1>1 DEF GoesOn
  <2>2. Messages(cvTurn)' = m BY <1>1, <2>1 DEF Messages
  <2> QED BY <2>1, <2>2 DEF BufferOK
<1>2. CASE ~t.shared
  <2> DEFINE u == [t EXCEPT !.own = m]
  <2>1. cvTurn' = u /\ cvBuf' = cvBuf BY <1>2 DEF GoesOn
  <2>2. /\ u \in TurnT /\ u.own = m /\ u.pc = t.pc /\ u.todo = t.todo /\ u.done = t.done
        /\ u.row = t.row /\ u.recs = t.recs
    BY DEF TurnT
  <2>3. ~u.shared BY <1>2 DEF TurnT
  <2>4. Messages(cvTurn)' = m BY <2>1, <2>2, <2>3 DEF Messages
  <2> HIDE DEF u
  <2>5. TurnOK(u, m, hold, uses) BY <2>2 DEF TurnOK
  <2> QED BY <2>1, <2>2, <2>4, <2>5
<1> QED BY <1>1, <1>2

LEMMA ApartNothing == ASSUME NEW uses PROVE Apart(<<>>, <<>>, uses)
BY DEF Apart

LEMMA EmptyWellFormed == BufferOK(<<>>) /\ Complete(<<>>)
BY DEF BufferOK, WellFormed, Complete

LEMMA IdleTyped ==
    /\ IdleTurn \in TurnT /\ IdleTurn.pc = "idle" /\ IdleTurn.row = NoRow /\ IdleTurn.shared
    /\ IdleTurn.recs = <<>> /\ IdleTurn.todo = <<>>
BY ConvAssumption DEF IdleTurn, TurnT

LEMMA IdleOK ==
    ASSUME NEW m, NEW hold, NEW uses PROVE TurnOK(IdleTurn, m, hold, uses)
<1>1. \A i \in 1..Len(IdleTurn.recs) : ~IdleTurn.recs[i][2] BY IdleTyped
<1> QED BY <1>1, IdleTyped, ApartNothing, ConvAssumption DEF TurnOK

LEMMA EndsOK ==
    ASSUME NEW t, NEW m, t.shared => BufferOK(m), BufferOK(cvBuf), NEW hold, NEW uses, Ends(t, m)
    PROVE  BufferOK(cvBuf') /\ cvTurn' \in TurnT /\ TurnOK(cvTurn', Messages(cvTurn)', hold, uses)
BY IdleTyped, IdleOK DEF Ends

LEMMA AfterAnswerOK ==
    ASSUME NEW t \in TurnT, NEW m \in Seq(Message), Waits(m, t.done \cup Ids(t.todo)),
           NEW hold, NEW uses, t.row \in Rows => hold[t.row].st # "none",
           Apart(t.recs, t.todo, uses), \A i \in 1..Len(t.recs) : ~t.recs[i][2],
           BufferOK(cvBuf), AfterAnswer(t, m)
    PROVE  BufferOK(cvBuf') /\ cvTurn' \in TurnT /\ TurnOK(cvTurn', Messages(cvTurn)', hold, uses)
<1>1. CASE t.todo = <<>>
  <2> DEFINE u == [t EXCEPT !.pc = "llm"]
             n == Append(m, Msg("results", t.done))
  <2>1. GoesOn(u, n) BY <1>1 DEF AfterAnswer
  <2>2. /\ u \in TurnT /\ u.pc = "llm" /\ u.todo = t.todo /\ u.done = t.done
        /\ u.row = t.row /\ u.recs = t.recs
    BY DEF TurnT
  <2>3. t.done \cup Ids(t.todo) = t.done BY <1>1 DEF Ids
  <2>4. n \in Seq(Message) /\ n # <<>> /\ Complete(n) BY <2>3, AppendResults
  <2> HIDE DEF u, n
  <2>5. TurnOK(u, n, hold, uses) BY <2>2, <2>4 DEF TurnOK
  <2>6. WellFormed(n) BY <2>4 DEF Complete
  <2> QED BY <2>1, <2>2, <2>4, <2>5, <2>6, GoesOnOK
<1>2. CASE t.todo # <<>>
  <2> DEFINE u == [t EXCEPT !.pc = "tool"]
  <2>1. GoesOn(u, m) BY <1>2 DEF AfterAnswer
  <2>2. /\ u \in TurnT /\ u.pc = "tool" /\ u.todo = t.todo /\ u.done = t.done
        /\ u.row = t.row /\ u.recs = t.recs
    BY DEF TurnT
  <2> HIDE DEF u
  <2>3. TurnOK(u, m, hold, uses) BY <1>2, <2>2 DEF TurnOK
  <2>4. WellFormed(m) BY DEF Waits
  <2> QED BY <2>1, <2>2, <2>3, <2>4, GoesOnOK
<1> QED BY <1>1, <1>2

LEMMA GoneOK ==
    ASSUME NEW hold, NEW uses, RowsOK(hold, uses), NEW H, \A h \in H : hold[h].st # "none"
    PROVE  /\ RowsOK(Gone(hold, H), uses)
           /\ \A h \in Rows : hold[h].st # "none" => Gone(hold, H)[h].st # "none"
<1> DEFINE g == Gone(hold, H)
<1>1. ASSUME NEW h \in Rows
      PROVE  g[h] \in HoldT /\ RowOK(g[h], uses) /\ (hold[h].st # "none" => g[h].st # "none")
  <2>0. hold[h] \in HoldT /\ RowOK(hold[h], uses) BY DEF RowsOK
  <2>1. CASE h \in H
    <3> DEFINE s == hold[h]
               v == [s EXCEPT !.st = "gone"]
    <3>1. g[h] = v BY <2>1 DEF Gone
    <3>2. /\ v \in HoldT /\ v.st = "gone" /\ v.base = s.base /\ v.held = s.held
          /\ v.parked = s.parked /\ v.done = s.done /\ v.recs = s.recs
      BY <2>0 DEF HoldT
    <3>3. s.st # "none" BY <2>1
    <3> HIDE DEF v, s, g
    <3>4. RowOK(v, uses) BY <2>0, <3>2, <3>3 DEF RowOK, s
    <3> QED BY <3>1, <3>2, <3>4
  <2>2. CASE h \notin H
    <3>1. g[h] = hold[h] BY <2>2 DEF Gone
    <3> QED BY <2>0, <3>1
  <2> QED BY <2>1, <2>2
<1>2. g \in [Rows -> HoldT] BY <1>1 DEF Gone
<1> QED BY <1>1, <1>2 DEF RowsOK

LEMMA RowsGrow ==
    ASSUME NEW hold, NEW uses \in 0..MaxUses, NEW more \in 0..MaxUses, uses <= more,
           RowsOK(hold, uses)
    PROVE  RowsOK(hold, more)
<1>1. ASSUME NEW h \in Rows PROVE RowOK(hold[h], more)
  <2>1. hold[h] \in HoldT /\ RowOK(hold[h], uses) BY DEF RowsOK
  <2>2. hold[h].recs \in Seq(Record) /\ hold[h].parked \in Seq(Uses) BY <2>1 DEF HoldT
  <2>3. Apart(hold[h].recs, hold[h].parked, uses) BY <2>1 DEF RowOK
  <2>4. Apart(hold[h].recs, hold[h].parked, more) BY <2>2, <2>3, ApartGrows
  <2> QED BY <2>1, <2>4 DEF RowOK
<1> QED BY <1>1 DEF RowsOK

\* A row that changes its status, and was there.
LEMMA StatusOK ==
    ASSUME NEW hold, NEW uses, RowsOK(hold, uses), NEW h \in Rows, hold[h].st # "none",
           NEW st \in {"dispatched", "answered", "gone"}
    PROVE  LET g == [hold EXCEPT ![h].st = st] IN
           RowsOK(g, uses) /\ \A k \in Rows : hold[k].st # "none" => g[k].st # "none"
<1> DEFINE s == hold[h]
           v == [s EXCEPT !.st = st]
           g == [hold EXCEPT ![h].st = st]
<1>0. hold \in [Rows -> HoldT] /\ \A k \in Rows : hold[k] \in HoldT /\ RowOK(hold[k], uses)
  BY DEF RowsOK
<1>1. g = [hold EXCEPT ![h] = v] OBVIOUS
<1>2. /\ v \in HoldT /\ v.st = st /\ v.base = s.base /\ v.held = s.held
      /\ v.parked = s.parked /\ v.done = s.done /\ v.recs = s.recs
  BY <1>0 DEF HoldT
<1>3. s.st # "none" OBVIOUS
<1> HIDE DEF v, s, g
<1>4. RowOK(v, uses) BY <1>0, <1>2, <1>3 DEF RowOK, s
<1>5. g \in [Rows -> HoldT] /\ g[h] = v /\ \A k \in Rows : k # h => g[k] = hold[k]
  BY <1>0, <1>1, <1>2
<1>6. RowsOK(g, uses)
  <2>1. \A k \in Rows : RowOK(g[k], uses) BY <1>0, <1>4, <1>5
  <2> QED BY <1>5, <2>1 DEF RowsOK
<1>7. \A k \in Rows : hold[k].st # "none" => g[k].st # "none" BY <1>2, <1>5
<1> QED BY <1>6, <1>7 DEF g
-----------------------------------------------------------------------------
(* One lemma per action.                                                   *)

LEMMA MessagesTyped ==
    ASSUME ConvInv
    PROVE  Messages(cvTurn) \in Seq(Message) /\ (cvTurn.shared => Messages(cvTurn) = cvBuf)
BY DEF ConvInv, BufferOK, TurnT, Messages

LEMMA ConvInitInv == ConvInit => ConvInv
<1> HAVE ConvInit
<1>1. NoHold \in HoldT /\ NoHold.st = "none" /\ NoHold.recs = <<>> /\ NoHold.parked = <<>>
  BY ConvAssumption DEF NoHold, HoldT
<1>2. RowOK(NoHold, 0) BY <1>1, ApartNothing DEF RowOK
<1>3. RowsOK(cvHold, cvUses)
  <2>1. cvHold = [h \in Rows |-> NoHold] /\ cvUses = 0 BY DEF ConvInit
  <2> QED BY <1>1, <1>2, <2>1 DEF RowsOK
<1> QED BY <1>3, EmptyWellFormed, IdleTyped, IdleOK, ConvAssumption DEF ConvInit, ConvInv

LEMMA ChatKeeps == ConvInv /\ ConvChat => ConvInv'
<1> SUFFICES ASSUME ConvInv, ConvChat PROVE ConvInv' OBVIOUS
<1> DEFINE H == {h \in Rows : cvHold[h].shared /\ cvHold[h].st = "dispatched"}
           healed == Gone(cvHold, H)
           ids == Trailing(cvBuf)
           D == {h \in Rows : healed[h].st = "answered" /\ healed[h].held \in ids}
           m == Repaired(cvBuf)
           t == [IdleTurn EXCEPT !.pc = "llm", !.roll = Len(m)]
           n == Append(m, Msg("user", {}))
<1>1. RowsOK(cvHold, cvUses) /\ BufferOK(cvBuf) BY DEF ConvInv
<1>2. RowsOK(healed, cvUses) /\ \A h \in Rows : cvHold[h].st # "none" => healed[h].st # "none"
  <2>1. \A h \in H : cvHold[h].st # "none" OBVIOUS
  <2> HIDE DEF H
  <2> QED BY <1>1, <2>1, GoneOK
<1>3. RowsOK(Discarded(healed, ids), cvUses)
  <2>1. \A h \in D : healed[h].st # "none" OBVIOUS
  <2>2. Discarded(healed, ids) = Gone(healed, D) BY DEF Discarded
  <2> HIDE DEF D, healed
  <2> QED BY <1>2, <2>1, <2>2, GoneOK
<1>4. m \in Seq(Message) /\ Complete(m) BY <1>1, RepairedComplete DEF BufferOK
<1>5. n \in Seq(Message) /\ n # <<>> /\ Complete(n)
  <2> HIDE DEF m
  <2> QED BY <1>4, AppendComplete
<1>6. /\ t \in TurnT /\ t.pc = "llm" /\ t.row = NoRow /\ t.recs = <<>> /\ t.todo = <<>>
  <2>1. Len(m) \in Nat BY <1>4
  <2> HIDE DEF m
  <2> QED BY <2>1, IdleTyped DEF TurnT
<1>7. \/ cvHold' = healed /\ UNCHANGED <<cvTurn, cvBuf, cvTurns>>
      \/ cvHold' = Discarded(healed, ids) /\ cvTurns' = cvTurns + 1 /\ GoesOn(t, n)
  BY DEF ConvChat
<1>8. cvUses' = cvUses /\ cvTurn.pc = "idle" /\ cvTurns < MaxTurns BY DEF ConvChat
<1> HIDE DEF H, D, healed, ids, m, t, n
<1>9. CASE cvHold' = healed /\ UNCHANGED <<cvTurn, cvBuf, cvTurns>>
  <2>1. Messages(cvTurn)' = Messages(cvTurn) BY <1>9 DEF Messages
  <2>2. TurnOK(cvTurn, Messages(cvTurn), healed, cvUses)
    <3>1. TurnOK(cvTurn, Messages(cvTurn), cvHold, cvUses) BY DEF ConvInv
    <3> QED BY <1>2, <3>1 DEF TurnOK
  <2> QED BY <1>2, <1>8, <1>9, <2>1, <2>2 DEF ConvInv
<1>10. CASE cvHold' = Discarded(healed, ids) /\ cvTurns' = cvTurns + 1 /\ GoesOn(t, n)
  <2>1. TurnOK(t, n, cvHold', cvUses)
    <3>1. \A i \in 1..Len(t.recs) : ~t.recs[i][2] BY <1>6
    <3> QED BY <1>5, <1>6, <3>1, ApartNothing, ConvAssumption DEF TurnOK
  <2>2. WellFormed(n) BY <1>5 DEF Complete
  <2>3. /\ BufferOK(cvBuf') /\ cvTurn' \in TurnT
        /\ TurnOK(cvTurn', Messages(cvTurn)', cvHold', cvUses)
    BY <1>1, <1>5, <1>6, <1>10, <2>1, <2>2, GoesOnOK
  <2>4. cvTurns' \in 0..MaxTurns BY <1>8, <1>10, ConvAssumption DEF ConvInv
  <2> QED BY <1>3, <1>8, <1>10, <2>3, <2>4 DEF ConvInv
<1> QED BY <1>7, <1>9, <1>10

LEMMA CommissionKeeps == ConvInv /\ ConvCommission => ConvInv'
<1> SUFFICES ASSUME ConvInv, ConvCommission PROVE ConvInv' OBVIOUS
<1> DEFINE t == [IdleTurn EXCEPT !.pc = "llm", !.shared = FALSE]
           n == <<Msg("user", {})>>
<1>1. n \in Seq(Message) /\ n # <<>> /\ Complete(n)
  <2>1. n = Append(<<>>, Msg("user", {})) OBVIOUS
  <2>2. <<>> \in Seq(Message) OBVIOUS
  <2> QED BY <2>1, <2>2, EmptyWellFormed, AppendComplete
<1>2. t \in TurnT /\ t.pc = "llm" /\ t.row = NoRow /\ t.recs = <<>> /\ t.todo = <<>>
  BY IdleTyped DEF TurnT
<1>3. GoesOn(t, n) /\ cvHold' = cvHold /\ cvUses' = cvUses /\ cvTurns' = cvTurns + 1
      /\ cvTurns < MaxTurns
  BY DEF ConvCommission
<1> HIDE DEF t, n
<1>4. TurnOK(t, n, cvHold', cvUses)
  <2>1. \A i \in 1..Len(t.recs) : ~t.recs[i][2] BY <1>2
  <2> QED BY <1>1, <1>2, <2>1, ApartNothing, ConvAssumption DEF TurnOK
<1>5. WellFormed(n) BY <1>1 DEF Complete
<1>6. BufferOK(cvBuf') /\ cvTurn' \in TurnT /\ TurnOK(cvTurn', Messages(cvTurn)', cvHold', cvUses)
  BY <1>1, <1>2, <1>3, <1>4, <1>5, GoesOnOK DEF ConvInv
<1>7. cvTurns' \in 0..MaxTurns BY <1>3, ConvAssumption DEF ConvInv
<1> QED BY <1>3, <1>6, <1>7 DEF ConvInv

\* The row a turn came from is there, so it may be dropped.
LEMMA FinalizedOK ==
    ASSUME ConvInv PROVE RowsOK(Finalized(cvTurn), cvUses)
<1> DEFINE H == {cvTurn.row} \cap Rows
<1>1. \A h \in H : cvHold[h].st # "none" BY DEF ConvInv, TurnOK
<1>2. Finalized(cvTurn) = Gone(cvHold, H) BY DEF Finalized
<1>3. RowsOK(cvHold, cvUses) BY DEF ConvInv
<1> HIDE DEF H
<1> QED BY <1>1, <1>2, <1>3, GoneOK

LEMMA ModelThrowsKeeps == ConvInv /\ ModelThrows => ConvInv'
<1> SUFFICES ASSUME ConvInv, ModelThrows PROVE ConvInv' OBVIOUS
<1> DEFINE m == Messages(cvTurn)
           n == Resized(m, cvTurn.roll)
<1>1. m \in Seq(Message) /\ m # <<>> /\ Complete(m)
  BY MessagesTyped DEF ConvInv, TurnOK, ModelThrows
<1>2. cvTurn.roll \in Nat BY DEF ConvInv, TurnT
<1>3. Ends(cvTurn, n) /\ cvHold' = cvHold /\ cvUses' = cvUses /\ cvTurns' = cvTurns
  BY DEF ModelThrows
<1> HIDE DEF m
<1>4. BufferOK(n) BY <1>1, <1>2, ResizedWellFormed DEF BufferOK
<1> HIDE DEF n
<1>5. BufferOK(cvBuf') /\ cvTurn' \in TurnT /\ TurnOK(cvTurn', Messages(cvTurn)', cvHold, cvUses)
  BY <1>3, <1>4, EndsOK DEF ConvInv
<1> QED BY <1>3, <1>5 DEF ConvInv

LEMMA LoopExhaustedKeeps == ConvInv /\ LoopExhausted => ConvInv'
<1> SUFFICES ASSUME ConvInv, LoopExhausted PROVE ConvInv' OBVIOUS
<1>1. /\ Ends(cvTurn, Messages(cvTurn)) /\ cvHold' = Finalized(cvTurn)
      /\ cvUses' = cvUses /\ cvTurns' = cvTurns
  BY DEF LoopExhausted
<1>2. cvTurn.shared => BufferOK(Messages(cvTurn)) BY MessagesTyped DEF ConvInv
<1>3. BufferOK(cvBuf') /\ cvTurn' \in TurnT /\ TurnOK(cvTurn', Messages(cvTurn)', cvHold', cvUses)
  BY <1>1, <1>2, EndsOK DEF ConvInv
<1>4. RowsOK(cvHold', cvUses) BY <1>1, FinalizedOK
<1> QED BY <1>1, <1>3, <1>4 DEF ConvInv
LEMMA ModelAnswersKeeps ==
    ASSUME ConvInv, NEW n \in 0..2, NEW toolUse \in BOOLEAN, ModelAnswers(n, toolUse)
    PROVE  ConvInv'
<1> DEFINE m == Messages(cvTurn)
           td == [i \in 1..n |-> cvUses + i]
           ids == {cvUses + i : i \in 1..n}
           x == Append(m, AssistantMessage(ids))
           t == [cvTurn EXCEPT !.pc = "tool", !.iter = @ + 1, !.done = {}, !.todo = td]
           more == cvUses + n
<1>1. m \in Seq(Message) /\ m # <<>> /\ Complete(m)
  BY MessagesTyped DEF ConvInv, TurnOK, ModelAnswers
<1>2. /\ cvTurn \in TurnT /\ cvTurn.recs \in Seq(Record) /\ cvTurn.todo \in Seq(Uses)
      /\ cvUses \in 0..MaxUses /\ cvTurn.pc = "llm" /\ cvTurn.iter \in 0..MaxIter
      /\ cvTurn.iter < MaxIter /\ more <= MaxUses
  BY DEF ConvInv, TurnT, ModelAnswers
<1>3. TurnOK(cvTurn, m, cvHold, cvUses) /\ RowsOK(cvHold, cvUses) /\ BufferOK(cvBuf)
  BY DEF ConvInv
<1>4. Apart(cvTurn.recs, cvTurn.todo, cvUses) BY <1>3 DEF TurnOK
<1>5. /\ td \in Seq(Uses) /\ Ids(td) = ids
      /\ n > 0 => td # <<>>
      /\ n > 0 => ids # {}
      /\ n = 0 => ids = {}
      /\ Apart(cvTurn.recs, td, more)
  BY <1>2, <1>4, ApartFresh
<1>6. ids \in SUBSET Uses
  <2> HIDE DEF ids, td
  <2> QED BY <1>5, IdsTyped
<1>7. more \in 0..MaxUses /\ cvUses <= more BY <1>2, ConvAssumption
<1>8. RowsOK(cvHold, more) BY <1>2, <1>3, <1>7, RowsGrow
<1>9. cvUses' = more /\ cvTurns' = cvTurns BY DEF ModelAnswers
<1>10. IF toolUse /\ n > 0 THEN GoesOn(t, x) /\ cvHold' = cvHold
       ELSE Ends(cvTurn, x) /\ cvHold' = Finalized(cvTurn)
  BY DEF ModelAnswers
<1>11. n > 0 \/ n = 0 OBVIOUS
<1>12. n > 0 => x \in Seq(Message) /\ Waits(x, ids)
  <2> HAVE n > 0
  <2>1. x = Append(m, Msg("use", ids)) BY <1>5 DEF AssistantMessage
  <2> HIDE DEF m, ids
  <2> QED BY <1>1, <1>5, <1>6, <2>1, AppendUse
<1>13. n = 0 => x \in Seq(Message) /\ Complete(x)
  <2> HAVE n = 0
  <2>1. x = Append(m, Msg("text", {})) BY <1>5 DEF AssistantMessage
  <2> HIDE DEF m
  <2> QED BY <1>1, <2>1, AppendComplete
<1>14. t \in TurnT /\ t.pc = "tool" /\ t.todo = td /\ t.done = {} /\ t.row = cvTurn.row
       /\ t.recs = cvTurn.recs
  <2>1. cvTurn.iter + 1 \in 0..MaxIter BY <1>2, ConvAssumption
  <2> HIDE DEF td
  <2> QED BY <1>2, <1>5, <2>1 DEF TurnT
<1> HIDE DEF m, td, ids, x, t, more
<1>15. BufferOK(x) BY <1>11, <1>12, <1>13 DEF BufferOK, Waits, Complete
<1>16. CASE toolUse /\ n > 0
  <2>1. GoesOn(t, x) /\ cvHold' = cvHold BY <1>10, <1>16
  <2>2. t.done \cup Ids(t.todo) = ids BY <1>5, <1>14
  <2>3. Waits(x, t.done \cup Ids(t.todo)) BY <1>12, <1>16, <2>2
  <2>4. TurnOK(t, x, cvHold, more) BY <1>3, <1>5, <1>14, <1>16, <2>3 DEF TurnOK
  <2>5. BufferOK(cvBuf') /\ cvTurn' \in TurnT /\ TurnOK(cvTurn', Messages(cvTurn)', cvHold, more)
    BY <1>3, <1>14, <1>15, <2>1, <2>4, GoesOnOK DEF BufferOK
  <2> QED BY <1>7, <1>8, <1>9, <2>1, <2>5 DEF ConvInv
<1>17. CASE ~(toolUse /\ n > 0)
  <2>1. Ends(cvTurn, x) /\ cvHold' = Finalized(cvTurn) BY <1>10, <1>17
  <2>2. RowsOK(cvHold', more) BY <1>2, <1>7, <2>1, FinalizedOK, RowsGrow
  <2>3. BufferOK(cvBuf') /\ cvTurn' \in TurnT /\ TurnOK(cvTurn', Messages(cvTurn)', cvHold', more)
    BY <1>3, <1>15, <2>1, EndsOK
  <2> QED BY <1>7, <1>9, <2>2, <2>3 DEF ConvInv
<1> QED BY <1>16, <1>17

LEMMA ToolAnswersKeeps == ConvInv /\ ToolAnswers => ConvInv'
<1> SUFFICES ASSUME ConvInv, ToolAnswers PROVE ConvInv' OBVIOUS
<1> DEFINE m == Messages(cvTurn)
           u == Head(cvTurn.todo)
           td == Tail(cvTurn.todo)
           rs == Append(cvTurn.recs, <<u, FALSE>>)
           t == [cvTurn EXCEPT !.todo = Tail(@), !.done = @ \cup {u}, !.recs = Append(@, <<u, FALSE>>)]
<1>1. /\ cvTurn \in TurnT /\ cvTurn.recs \in Seq(Record) /\ cvTurn.todo \in Seq(Uses)
      /\ cvUses \in 0..MaxUses /\ cvTurn.pc = "tool" /\ cvTurn.done \in SUBSET Uses
  BY DEF ConvInv, TurnT, ToolAnswers
<1>2. TurnOK(cvTurn, m, cvHold, cvUses) /\ RowsOK(cvHold, cvUses) /\ BufferOK(cvBuf)
      /\ m \in Seq(Message)
  BY MessagesTyped DEF ConvInv
<1>3. /\ cvTurn.todo # <<>> /\ Waits(m, cvTurn.done \cup Ids(cvTurn.todo))
      /\ Apart(cvTurn.recs, cvTurn.todo, cvUses)
      /\ \A i \in 1..Len(cvTurn.recs) : ~cvTurn.recs[i][2]
      /\ cvTurn.row \in Rows => cvHold[cvTurn.row].st # "none"
  BY <1>1, <1>2 DEF TurnOK
<1>4. /\ rs \in Seq(Record) /\ Len(rs) = Len(cvTurn.recs) + 1
      /\ rs[Len(rs)] = <<u, FALSE>>
      /\ \A i \in 1..Len(cvTurn.recs) : rs[i] = cvTurn.recs[i]
      /\ Apart(rs, td, cvUses)
  BY <1>1, <1>3, ApartStep
<1>5. u \in Uses /\ td \in Seq(Uses) BY <1>1, <1>3, HeadTail
<1>6. Ids(cvTurn.todo) = {u} \cup Ids(td) BY <1>1, <1>3, IdsOfTail
<1>7. AfterAnswer(t, m) /\ cvHold' = cvHold /\ cvUses' = cvUses /\ cvTurns' = cvTurns
  BY DEF ToolAnswers
<1>8. t = [cvTurn EXCEPT !.todo = td, !.done = cvTurn.done \cup {u}, !.recs = rs]
  BY <1>1 DEF TurnT
<1>9. Len(cvTurn.recs) \in Nat BY <1>1
<1> HIDE DEF m, u, td, rs, t
<1>10. t \in TurnT /\ t.todo = td /\ t.done = cvTurn.done \cup {u} /\ t.recs = rs
       /\ t.row = cvTurn.row
  BY <1>1, <1>4, <1>5, <1>8 DEF TurnT
<1>11. t.done \cup Ids(t.todo) = cvTurn.done \cup Ids(cvTurn.todo) BY <1>6, <1>10
<1>12. \A i \in 1..Len(t.recs) : ~t.recs[i][2]
  <2> SUFFICES ASSUME NEW i \in 1..Len(rs) PROVE ~rs[i][2] BY <1>10
  <2>1. CASE i = Len(rs)
    <3>1. rs[i] = <<u, FALSE>> BY <1>4, <2>1
    <3> QED BY <3>1
  <2>2. CASE i # Len(rs)
    <3>1. i \in 1..Len(cvTurn.recs) BY <1>4, <1>9, <2>2
    <3> QED BY <1>3, <1>4, <3>1
  <2> QED BY <2>1, <2>2
<1>13. BufferOK(cvBuf') /\ cvTurn' \in TurnT /\ TurnOK(cvTurn', Messages(cvTurn)', cvHold, cvUses)
  BY <1>2, <1>3, <1>4, <1>7, <1>10, <1>11, <1>12, AfterAnswerOK
<1> QED BY <1>2, <1>7, <1>13 DEF ConvInv

LEMMA ToolHoldsKeeps ==
    ASSUME ConvInv, NEW h \in Rows, ToolHolds(h) PROVE ConvInv'
<1> DEFINE m == Messages(cvTurn)
           u == Head(cvTurn.todo)
           td == Tail(cvTurn.todo)
           rs == Append(cvTurn.recs, <<u, TRUE>>)
           s == HeldTurnState(cvTurn, m)
<1>1. /\ cvTurn \in TurnT /\ cvTurn.recs \in Seq(Record) /\ cvTurn.todo \in Seq(Uses)
      /\ cvUses \in 0..MaxUses /\ cvTurn.pc = "tool" /\ cvTurn.done \in SUBSET Uses
      /\ cvTurn.shared \in BOOLEAN /\ cvTurn.iter \in 0..MaxIter
  BY DEF ConvInv, TurnT, ToolHolds
<1>2. TurnOK(cvTurn, m, cvHold, cvUses) /\ BufferOK(cvBuf) /\ m \in Seq(Message)
      /\ (cvTurn.shared => m = cvBuf)
  BY MessagesTyped DEF ConvInv
<1>3. /\ cvTurn.todo # <<>> /\ Waits(m, cvTurn.done \cup Ids(cvTurn.todo))
      /\ Apart(cvTurn.recs, cvTurn.todo, cvUses)
      /\ \A i \in 1..Len(cvTurn.recs) : ~cvTurn.recs[i][2]
  BY <1>1, <1>2 DEF TurnOK
<1>4. /\ rs \in Seq(Record) /\ Len(rs) = Len(cvTurn.recs) + 1
      /\ rs[Len(rs)] = <<u, TRUE>>
      /\ \A i \in 1..Len(cvTurn.recs) : rs[i] = cvTurn.recs[i] /\ cvTurn.recs[i][1] # u
      /\ Apart(rs, td, cvUses)
  BY <1>1, <1>3, ApartStep
<1>5. u \in Uses /\ td \in Seq(Uses) BY <1>1, <1>3, HeadTail
<1>6. Ids(cvTurn.todo) = {u} \cup Ids(td) BY <1>1, <1>3, IdsOfTail
<1>7. /\ cvHold' = [Finalized(cvTurn) EXCEPT ![h] = s]
      /\ Ends(cvTurn, m) /\ cvUses' = cvUses /\ cvTurns' = cvTurns
  BY DEF ToolHolds
<1>8. s = [st |-> "parked", shared |-> cvTurn.shared, base |-> m, held |-> u,
           parked |-> td, done |-> cvTurn.done, iter |-> cvTurn.iter, recs |-> rs]
  BY DEF HeldTurnState
<1>9. Len(cvTurn.recs) \in Nat /\ u \in 0..MaxUses BY <1>1, <1>5, ConvAssumption DEF Uses
<1> HIDE DEF m, u, td, rs, s
<1>10. /\ s \in HoldT /\ s.st = "parked" /\ s.base = m /\ s.held = u /\ s.parked = td
       /\ s.done = cvTurn.done /\ s.recs = rs
  BY <1>1, <1>2, <1>4, <1>5, <1>8, <1>9 DEF HoldT
<1>11. ASSUME NEW i \in 1..Len(rs) PROVE rs[i][2] <=> rs[i][1] = u
  <2>1. CASE i = Len(rs)
    <3>1. rs[i] = <<u, TRUE>> BY <1>4, <2>1
    <3> QED BY <3>1
  <2>2. CASE i # Len(rs)
    <3>1. i \in 1..Len(cvTurn.recs) BY <1>4, <1>9, <2>2
    <3> QED BY <1>3, <1>4, <3>1
  <2> QED BY <2>1, <2>2
<1>12. RowOK(s, cvUses)
  <2>1. s.done \cup {s.held} \cup Ids(s.parked) = cvTurn.done \cup Ids(cvTurn.todo)
    BY <1>6, <1>10
  <2>2. Waits(s.base, s.done \cup {s.held} \cup Ids(s.parked)) BY <1>3, <1>10, <2>1
  <2> QED BY <1>4, <1>5, <1>10, <1>11, <2>2 DEF RowOK
<1>13. RowsOK(Finalized(cvTurn), cvUses) BY FinalizedOK
<1>14. RowsOK(cvHold', cvUses) BY <1>7, <1>10, <1>12, <1>13 DEF RowsOK
<1>15. BufferOK(cvBuf') /\ cvTurn' \in TurnT /\ TurnOK(cvTurn', Messages(cvTurn)', cvHold', cvUses)
  BY <1>2, <1>7, EndsOK
<1> QED BY <1>7, <1>14, <1>15 DEF ConvInv
\* Both ways to resume: a decision, and a dispatched call that came back.
LEMMA ResumeKeeps ==
    ASSUME ConvInv, NEW h \in Rows, cvHold[h].st # "none", Answered(h), ResumeTurn(h),
           UNCHANGED <<cvUses, cvTurns>>
    PROVE  ConvInv'
<1> DEFINE s == cvHold[h]
           rs == Resolved(s.recs, s.held)
           back == IF s.shared THEN Len(cvBuf) ELSE 0
           ids == s.done \cup {s.held}
           t == [IdleTurn EXCEPT !.shared = s.shared, !.row = h, !.iter = s.iter, !.roll = back,
                                 !.todo = s.parked, !.done = ids, !.recs = rs]
           st == IF s.st = "gone" THEN "gone" ELSE "answered"
<1>1. RowsOK(cvHold, cvUses) /\ BufferOK(cvBuf) /\ cvUses \in 0..MaxUses BY DEF ConvInv
<1>2. s \in HoldT /\ RowOK(s, cvUses) BY <1>1 DEF RowsOK
<1>3. /\ s.recs \in Seq(Record) /\ s.parked \in Seq(Uses) /\ s.base \in Seq(Message)
      /\ s.done \in SUBSET Uses /\ s.iter \in 0..MaxIter /\ s.shared \in BOOLEAN
  BY <1>2 DEF HoldT
<1>4. /\ s.held \in Uses /\ Waits(s.base, ids \cup Ids(s.parked))
      /\ Apart(s.recs, s.parked, cvUses)
      /\ \A i \in 1..Len(s.recs) : s.recs[i][2] <=> s.recs[i][1] = s.held
  BY <1>2 DEF RowOK
<1>5. back \in Nat BY <1>1 DEF BufferOK
<1>6. AfterAnswer(t, s.base) BY DEF ResumeTurn
<1>7. cvHold \in [Rows -> HoldT] BY <1>1 DEF RowsOK
<1>8. cvHold' = [cvHold EXCEPT ![h].st = st] BY <1>7 DEF Answered
<1>9. s.st # "none" /\ st \in {"dispatched", "answered", "gone"} OBVIOUS
<1> HIDE DEF s, back, st
<1>10. rs \in Seq(Record) /\ Apart(rs, s.parked, cvUses) /\ \A i \in 1..Len(rs) : ~rs[i][2]
  BY <1>1, <1>3, <1>4, ResolvedFacts
<1>11. ids \in SUBSET Uses BY <1>3, <1>4
<1> HIDE DEF rs, ids
<1>12. t \in TurnT /\ t.todo = s.parked /\ t.done = ids /\ t.recs = rs /\ t.row = h
  BY <1>3, <1>5, <1>10, <1>11, IdleTyped DEF TurnT
<1> HIDE DEF t
<1>13. RowsOK(cvHold', cvUses) /\ \A k \in Rows : cvHold[k].st # "none" => cvHold'[k].st # "none"
  BY <1>1, <1>8, <1>9, StatusOK
<1>14. cvHold'[t.row].st # "none" BY <1>12, <1>13
<1>15. BufferOK(cvBuf') /\ cvTurn' \in TurnT /\ TurnOK(cvTurn', Messages(cvTurn)', cvHold', cvUses)
  BY <1>1, <1>3, <1>4, <1>6, <1>10, <1>12, <1>14, AfterAnswerOK
<1> QED BY <1>13, <1>15 DEF ConvInv

LEMMA ResolveKeeps == ASSUME ConvInv, NEW h \in Rows, ConvResolve(h) PROVE ConvInv'
<1>1. cvHold[h].st # "none" /\ Answered(h) /\ ResumeTurn(h) /\ UNCHANGED <<cvUses, cvTurns>>
  BY DEF ConvResolve
<1> QED BY <1>1, ResumeKeeps

LEMMA SendReturnsKeeps == ConvInv /\ SendReturns => ConvInv'
<1> SUFFICES ASSUME ConvInv, SendReturns PROVE ConvInv' OBVIOUS
<1>1. cvTurn.row \in Rows /\ cvHold[cvTurn.row].st # "none"
  BY DEF ConvInv, TurnOK, SendReturns
<1>2. Answered(cvTurn.row) /\ ResumeTurn(cvTurn.row) /\ UNCHANGED <<cvUses, cvTurns>>
  BY DEF SendReturns
<1> QED BY <1>1, <1>2, ResumeKeeps

LEMMA ApproveKeeps == ASSUME ConvInv, NEW h \in Rows, ConvApprove(h) PROVE ConvInv'
<1> DEFINE t == [IdleTurn EXCEPT !.pc = "send", !.row = h]
<1>1. cvHold[h].st # "none" /\ cvHold' = [cvHold EXCEPT ![h].st = "dispatched"]
      /\ cvTurn' = t /\ UNCHANGED <<cvBuf, cvUses, cvTurns>>
  BY DEF ConvApprove
<1>2. RowsOK(cvHold', cvUses) /\ \A k \in Rows : cvHold[k].st # "none" => cvHold'[k].st # "none"
  BY <1>1, StatusOK DEF ConvInv
<1>3. t \in TurnT /\ t.pc = "send" /\ t.row = h /\ t.recs = <<>> /\ t.todo = <<>>
  BY IdleTyped DEF TurnT
<1> HIDE DEF t
<1>4. \A i \in 1..Len(t.recs) : ~t.recs[i][2] BY <1>3
<1>5. \A m : TurnOK(t, m, cvHold', cvUses) BY <1>1, <1>2, <1>3, <1>4, ApartNothing DEF TurnOK
<1> QED BY <1>1, <1>2, <1>3, <1>5 DEF ConvInv

LEMMA ConvSweepKeeps == ASSUME ConvInv, NEW h \in Rows, ConvSweep(h) PROVE ConvInv'
<1>1. \A k \in {h} : cvHold[k].st # "none" BY DEF ConvSweep
<1>2. cvHold' = Gone(cvHold, {h}) /\ UNCHANGED <<cvBuf, cvTurn, cvUses, cvTurns>>
  BY DEF ConvSweep
<1>3. RowsOK(cvHold', cvUses) /\ \A k \in Rows : cvHold[k].st # "none" => cvHold'[k].st # "none"
  BY <1>1, <1>2, GoneOK DEF ConvInv
<1>4. Messages(cvTurn)' = Messages(cvTurn) BY <1>2 DEF Messages
<1>5. TurnOK(cvTurn, Messages(cvTurn), cvHold', cvUses)
  <2>1. TurnOK(cvTurn, Messages(cvTurn), cvHold, cvUses) BY DEF ConvInv
  <2> QED BY <1>3, <2>1 DEF TurnOK
<1> QED BY <1>2, <1>3, <1>4, <1>5 DEF ConvInv

LEMMA RestartKeeps == ConvInv /\ ConvRestart => ConvInv'
BY EmptyWellFormed, IdleTyped, IdleOK DEF ConvRestart, ConvInv

LEMMA ConvStep == ConvInv /\ [ConvNext]_cvVars => ConvInv'
<1> SUFFICES ASSUME ConvInv, [ConvNext]_cvVars PROVE ConvInv' OBVIOUS
<1>1. CASE ConvChat BY <1>1, ChatKeeps
<1>2. CASE ConvCommission BY <1>2, CommissionKeeps
<1>3. CASE ModelThrows BY <1>3, ModelThrowsKeeps
<1>4. CASE LoopExhausted BY <1>4, LoopExhaustedKeeps
<1>5. CASE \E n \in 0..2, toolUse \in BOOLEAN : ModelAnswers(n, toolUse)
  BY <1>5, ModelAnswersKeeps
<1>6. CASE ToolAnswers BY <1>6, ToolAnswersKeeps
<1>7. CASE SendReturns BY <1>7, SendReturnsKeeps
<1>8. CASE ConvRestart BY <1>8, RestartKeeps
<1>9. ASSUME NEW h \in Rows, ToolHolds(h) \/ ConvResolve(h) \/ ConvApprove(h) \/ ConvSweep(h)
      PROVE  ConvInv'
  BY <1>9, ToolHoldsKeeps, ResolveKeeps, ApproveKeeps, ConvSweepKeeps
<1>10. CASE UNCHANGED cvVars BY <1>10 DEF cvVars, ConvInv, Messages
<1> QED BY <1>1, <1>2, <1>3, <1>4, <1>5, <1>6, <1>7, <1>8, <1>9, <1>10 DEF ConvNext

LEMMA ConvInvSound == ConvInv => ConversationSound
<1> HAVE ConvInv
<1>1. ConvTypeOK BY DEF ConvInv, BufferOK, RowsOK, TurnT, HoldT, ConvTypeOK
<1>2. RequestsValid
  <2> SUFFICES ASSUME cvTurn.pc = "llm" PROVE Acceptable(Messages(cvTurn)) BY DEF RequestsValid
  <2>1. Messages(cvTurn) # <<>> /\ Complete(Messages(cvTurn)) BY DEF ConvInv, TurnOK
  <2> QED BY <2>1, MessagesTyped, CompleteAcceptable
<1>3. OneRecordPerCall
  <2>1. cvTurn.recs \in Seq(Record) BY DEF ConvInv, TurnT
  <2>2. DOMAIN cvTurn.recs = 1..Len(cvTurn.recs) BY <2>1
  <2>3. /\ \A i, j \in 1..Len(cvTurn.recs) : cvTurn.recs[i][1] = cvTurn.recs[j][1] => i = j
        /\ \A i \in 1..Len(cvTurn.recs) : ~cvTurn.recs[i][2]
    BY DEF ConvInv, TurnOK, Apart
  <2>4. ASSUME NEW h \in Rows
        PROVE  \A i \in DOMAIN cvHold[h].recs :
                 cvHold[h].recs[i][2] <=> cvHold[h].recs[i][1] = cvHold[h].held
    <3>1. cvHold[h] \in HoldT /\ RowOK(cvHold[h], cvUses) BY DEF ConvInv, RowsOK
    <3>2. cvHold[h].recs \in Seq(Record) BY <3>1 DEF HoldT
    <3>3. DOMAIN cvHold[h].recs = 1..Len(cvHold[h].recs) BY <3>2
    <3> QED BY <3>1, <3>3 DEF RowOK
  <2> QED BY <2>2, <2>3, <2>4 DEF OneRecordPerCall
<1> QED BY <1>1, <1>2, <1>3 DEF ConversationSound

\* Every request the loop sends is one the provider accepts, and a turn keeps
\* one record per tool_use, of which only the call that waits reads `held`,
\* through every order of holds, parked siblings, approvals, denials, sweeps,
\* throws, retries and restarts (conversation.ts runLoop, resumeHeldTurn,
\* answerAndDrainParkedCalls; user-agent.ts repairOrphanedToolUse).
THEOREM ConversationsStaySound == ConvSpec => []ConversationSound
BY ConvInitInv, ConvStep, ConvInvSound, PTL DEF ConvSpec
-----------------------------------------------------------------------------
(***************************************************************************)
(* Spending. A hold is closed by the step that dispatches on its answer,   *)
(* and no grant that names a hold survives the step that minted it         *)
(* (HoldsFresh, Entry); and the ledger the cap is computed from is the     *)
(* merchant's own list until a record is lost (LedgerIsPaid). What a sum   *)
(* over the ledger is does not matter: a hold shows the same sum the cap   *)
(* is computed from, so Total stays unexpanded.                            *)
(***************************************************************************)
\* What policy_entries holds between two steps: the floor and session grants.
Entry == {Floor} \cup {Grant("session", s, NoAsk) : s \in 0..MaxSession}

HoldRow == [st: {"none", "parked", "closed"}, quote: Quotes \cup {NoAsk}, session: 0..MaxSession,
            ctx: Context \cup {NoContext}]

TurnRow == [quote: Quotes \cup {NoAsk}, session: 0..MaxSession, ask: Asks \cup {NoAsk}]

NowRow == [session: 0..MaxSession, month: 0..MaxMonth, changes: 0..MaxChanges]

\* A hold that can still be answered has let nothing through.
HoldsFresh ==
    \A h \in Asks : /\ spUses[h] <= 1
                    /\ spHold[h].st # "closed" => spUses[h] = 0
                    /\ spHold[h].st = "parked" => spHold[h].quote \in Quotes

LedgerIsPaid == ~spLost => spLedger = spPaid

MoneyTyped ==
    /\ spLimit \in [Windows -> Limits] /\ spNow \in NowRow
    /\ spLedger \subseteq Priced /\ spPaid \subseteq Priced /\ spLost \in BOOLEAN

TurnTyped == spTurn \in TurnRow /\ (spTurn # SpendIdle => spTurn.quote \in Quotes)

EntriesTyped == Floor \in spEntries /\ spEntries \subseteq Entry

HoldsTyped == spHold \in [Asks -> HoldRow] /\ spUses \in [Asks -> 0..2]

SpendInv == MoneyTyped /\ TurnTyped /\ EntriesTyped /\ HoldsTyped /\ HoldsFresh /\ LedgerIsPaid

-----------------------------------------------------------------------------
(* Permission and the cap.                                                 *)

LEMMA EntryFields ==
    ASSUME NEW e \in Entry
    PROVE  /\ e.by = NoAsk /\ e.source # "task"
           /\ \/ e = Floor /\ e.priority = 0 /\ e.decision = "deny"
              \/ e.priority = 10 /\ e.decision = "allow"
BY DEF Entry, Floor, Grant

\* The evaluation picks one of the entries: a grant if there is one.
LEMMA PolicyPicks ==
    ASSUME NEW E \in SUBSET Entry, Floor \in E
    PROVE  evaluatePolicy(E) \in E
<1>1. \E e \in E : \A f \in E : \/ e.priority > f.priority
                               \/ /\ e.priority = f.priority
                                  /\ e.decision = "deny" \/ f.decision = "allow"
  <2>1. CASE E = {Floor}
    BY <2>1 DEF Floor
  <2>2. CASE E # {Floor}
    <3>1. PICK g \in E : g # Floor
      BY <2>2
    <3>2. g.priority = 10
      BY <3>1, EntryFields
    <3>3. \A f \in E : g.priority > f.priority \/ (f.priority = 10 /\ f.decision = "allow")
      BY <3>2, EntryFields
    <3> QED BY <3>1, <3>2, <3>3
  <2> QED BY <2>1, <2>2
<1> QED BY <1>1 DEF evaluatePolicy

LEMMA BreachesTyped ==
    ASSUME SpendInv, NEW q, NEW s
    PROVE  Breaches(q, spLedger, s) \in
             SUBSET [window: Windows, limit: Limits, spent: {Total(R) : R \in SUBSET Priced}]
<1>1. \A w \in Windows : spLimit[w] \in Limits
  BY DEF SpendInv, MoneyTyped
<1>2. \A w \in Windows : Spent(spLedger, w, s) \in {Total(R) : R \in SUBSET Priced}
  <2> TAKE w \in Windows
  <2> DEFINE R == {r \in spLedger : IF w = "session" THEN r.session = s ELSE r.month >= spNow.month}
  <2>1. R \in SUBSET Priced
    BY DEF SpendInv, MoneyTyped
  <2>2. Spent(spLedger, w, s) = Total(R)
    BY DEF Spent
  <2> HIDE DEF R
  <2> QED BY <2>1, <2>2
<1> QED BY <1>1, <1>2 DEF Breaches

\* The stage lets a call through only if it was priced and no window breaks.
LEMMA StageIs ==
    ASSUME SpendInv, NEW q \in Quotes, NEW s, NEW readable \in BOOLEAN
    PROVE  LET ctx == runSpendStage(q, s, readable) IN
           /\ ctx \in Context \cup {NoContext}
           /\ ctx = NoContext => Cents[q] # NoPrice /\ Breaches(q, spLedger, s) = {}
           /\ ctx # NoContext /\ ctx.reason = "over_limit" => ctx.breaches = Breaches(q, spLedger, s)
<1> DEFINE B == Breaches(q, spLedger, s)
           made(r, X) == [reason |-> r, breaches |-> X]
<1>1. /\ made("unpriced", {}) \in Context /\ made("totals_unavailable", {}) \in Context
      /\ made("over_limit", B) \in Context
  BY BreachesTyped DEF Context
<1>2. runSpendStage(q, s, readable) =
        IF Cents[q] = NoPrice THEN made("unpriced", {})
        ELSE IF ~readable THEN made("totals_unavailable", {})
        ELSE IF B = {} THEN NoContext ELSE made("over_limit", B)
  BY DEF runSpendStage
<1>3. \A r, X : made(r, X).reason = r /\ made(r, X).breaches = X
  OBVIOUS
<1> HIDE DEF B, made
<1>4. CASE Cents[q] = NoPrice
  BY <1>1, <1>2, <1>3, <1>4, ContextAssumption
<1>5. CASE Cents[q] # NoPrice /\ ~readable
  BY <1>1, <1>2, <1>3, <1>5, ContextAssumption
<1>6. CASE Cents[q] # NoPrice /\ readable /\ B = {}
  BY <1>2, <1>6 DEF B
<1>7. CASE Cents[q] # NoPrice /\ readable /\ B # {}
  BY <1>1, <1>2, <1>3, <1>7, ContextAssumption DEF B
<1> QED BY <1>4, <1>5, <1>6, <1>7

-----------------------------------------------------------------------------
(* What the steps are made of.                                             *)

\* The entry an order is decided by.
Decider == evaluatePolicy(queryPolicyEntries(spNow.session))

LEMMA DeciderIs ==
    ASSUME SpendInv
    PROVE  Decider \in spEntries /\ Decider.by = NoAsk /\ Consumed(spEntries, Decider) = spEntries
<1>1. queryPolicyEntries(spNow.session) \in SUBSET Entry /\ Floor \in queryPolicyEntries(spNow.session)
      /\ queryPolicyEntries(spNow.session) \subseteq spEntries
  BY DEF SpendInv, EntriesTyped, queryPolicyEntries, Floor
<1>2. Decider \in spEntries /\ Decider \in Entry
  BY <1>1, PolicyPicks DEF Decider
<1> QED BY <1>2, EntryFields DEF Consumed

LEMMA ParkKeeps ==
    ASSUME SpendInv, NEW h \in Asks, spHold[h].st # "closed", NEW q \in Quotes,
           NEW s \in 0..MaxSession, NEW ctx \in Context \cup {NoContext},
           Parks(h, q, s, ctx), UNCHANGED spUses
    PROVE  HoldsTyped' /\ HoldsFresh'
<1> DEFINE x == [st |-> "parked", quote |-> q, session |-> s, ctx |-> ctx]
<1>1. x \in HoldRow /\ x.st = "parked" /\ x.quote = q
  BY DEF HoldRow
<1>2. spHold' = [spHold EXCEPT ![h] = x]
  BY DEF Parks
<1> HIDE DEF x
<1>3. spHold'[h] = x /\ \A j \in Asks \ {h} : spHold'[j] = spHold[j]
  BY <1>2 DEF SpendInv, HoldsTyped
<1>4. HoldsTyped'
  BY <1>1, <1>2 DEF SpendInv, HoldsTyped
<1> QED BY <1>1, <1>3, <1>4 DEF SpendInv, HoldsFresh

\* A hold answered: it is closed, and its one call goes out.
LEMMA AnswerDispatches ==
    ASSUME SpendInv, NEW h \in Asks, spHold[h].st = "parked", NEW q \in Quotes, NEW s \in 0..MaxSession,
           spHold' = [spHold EXCEPT ![h] = Closed], Dispatches(q, s, h)
    PROVE  HoldsTyped' /\ HoldsFresh' /\ TurnTyped'
<1>0. Closed \in HoldRow /\ Closed.st = "closed"
  <2>1. 0 \in 0..MaxSession
    BY SpendAssumption
  <2> QED BY <2>1 DEF Closed, NotParked, HoldRow
<1>1. spHold'[h] = Closed /\ \A j \in Asks \ {h} : spHold'[j] = spHold[j]
  BY DEF SpendInv, HoldsTyped
<1>2. spUses[h] = 0 /\ spUses \in [Asks -> 0..2]
  BY DEF SpendInv, HoldsFresh, HoldsTyped
<1>3. /\ spUses' \in [Asks -> 0..2] /\ spUses'[h] <= 1
      /\ \A j \in Asks \ {h} : spUses'[j] = spUses[j]
  BY <1>2 DEF Dispatches
<1>4. HoldsTyped'
  BY <1>0, <1>3 DEF SpendInv, HoldsTyped
<1>5. HoldsFresh'
  BY <1>0, <1>1, <1>3 DEF SpendInv, HoldsFresh
<1>6. TurnTyped'
  BY DEF TurnTyped, Dispatches, TurnRow
<1> QED BY <1>4, <1>5, <1>6

LEMMA OrderKeeps ==
    ASSUME SpendInv, NEW q \in Quotes, NEW readable \in BOOLEAN, Order(q, readable)
    PROVE  SpendInv'
<1> DEFINE ctx == runSpendStage(q, spNow.session, readable)
           shown == IF Decider.decision = "deny" THEN NoContext ELSE ctx
<1>1. spEntries' = spEntries /\ UNCHANGED Money
  BY DeciderIs DEF Order, Decider
<1>2. EntriesTyped' /\ MoneyTyped' /\ LedgerIsPaid'
  BY <1>1 DEF SpendInv, EntriesTyped, MoneyTyped, LedgerIsPaid, Money
<1>3. spNow.session \in 0..MaxSession
  BY DEF SpendInv, MoneyTyped, NowRow
<1>4. shown \in Context \cup {NoContext}
  BY StageIs
<1>5. \/ /\ \E h \in Asks : spHold[h].st = "none" /\ Parks(h, q, spNow.session, shown)
         /\ UNCHANGED <<spTurn, spUses>>
      \/ Dispatches(q, spNow.session, Decider.by) /\ UNCHANGED spHold
  BY DEF Order, Decider
<1> HIDE DEF shown
<1>6. HoldsTyped' /\ HoldsFresh' /\ TurnTyped'
  <2>1. CASE \E h \in Asks : spHold[h].st = "none" /\ Parks(h, q, spNow.session, shown)
             /\ UNCHANGED <<spTurn, spUses>>
    <3>1. HoldsTyped' /\ HoldsFresh'
      BY <1>3, <1>4, <2>1, ParkKeeps
    <3> QED BY <2>1, <3>1 DEF SpendInv, TurnTyped
  <2>2. CASE Dispatches(q, spNow.session, Decider.by) /\ UNCHANGED spHold
    <3>1. spTurn' = [quote |-> q, session |-> spNow.session, ask |-> NoAsk] /\ UNCHANGED spUses
      BY <2>2, DeciderIs DEF Dispatches
    <3>2. TurnTyped'
      BY <1>3, <3>1 DEF TurnTyped, TurnRow
    <3> QED BY <2>2, <3>1, <3>2 DEF SpendInv, HoldsTyped, HoldsFresh
  <2> QED BY <1>5, <2>1, <2>2
<1> QED BY <1>2, <1>6 DEF SpendInv

LEMMA ParkedFields ==
    ASSUME SpendInv, NEW h \in Asks, spHold[h].st = "parked"
    PROVE  spHold[h].quote \in Quotes /\ spHold[h].session \in 0..MaxSession
BY DEF SpendInv, HoldsFresh, HoldsTyped, HoldRow

LEMMA AnswerAskKeeps ==
    ASSUME SpendInv, NEW h \in Asks, NEW choice \in {"task", "session"}, NEW readable \in BOOLEAN,
           AnswerAsk(h, choice, readable)
    PROVE  SpendInv'
<1> DEFINE q == spHold[h].quote
           s == spHold[h].session
           ctx == runSpendStage(q, s, readable)
<1>1. spHold[h].st = "parked" /\ UNCHANGED Money
  BY DEF AnswerAsk
<1>2. q \in Quotes /\ s \in 0..MaxSession
  BY <1>1, ParkedFields
<1>3. ctx \in Context \cup {NoContext}
  BY <1>2, StageIs
<1>4. EntriesTyped'
  BY <1>2 DEF AnswerAsk, Granting, SpendInv, EntriesTyped, Entry
<1>5. IF ctx # NoContext THEN Parks(h, q, s, ctx) /\ UNCHANGED <<spTurn, spUses>>
      ELSE spHold' = [spHold EXCEPT ![h] = Closed] /\ Dispatches(q, s, h)
  BY DEF AnswerAsk
<1> HIDE DEF q, s, ctx
<1>6. HoldsTyped' /\ HoldsFresh' /\ TurnTyped'
  <2>1. CASE Parks(h, q, s, ctx) /\ UNCHANGED <<spTurn, spUses>>
    <3>1. HoldsTyped' /\ HoldsFresh'
      BY <1>1, <1>2, <1>3, <2>1, ParkKeeps
    <3> QED BY <2>1, <3>1 DEF SpendInv, TurnTyped
  <2>2. CASE spHold' = [spHold EXCEPT ![h] = Closed] /\ Dispatches(q, s, h)
    BY <1>1, <1>2, <2>2, AnswerDispatches
  <2> QED BY <1>5, <2>1, <2>2
<1> QED BY <1>1, <1>4, <1>6 DEF SpendInv, MoneyTyped, LedgerIsPaid, Money

LEMMA ApproveOnceKeeps ==
    ASSUME SpendInv, NEW h \in Asks, NEW readable \in BOOLEAN, ApproveOnce(h, readable)
    PROVE  SpendInv'
<1> DEFINE q == spHold[h].quote
           s == spHold[h].session
           ctx == runSpendStage(q, s, readable)
<1>1. spHold[h].st = "parked" /\ UNCHANGED <<spEntries, spLimit, spLedger, spNow, spPaid, spLost>>
  BY DEF ApproveOnce
<1>2. q \in Quotes /\ s \in 0..MaxSession
  BY <1>1, ParkedFields
<1>3. ctx \in Context \cup {NoContext}
  BY <1>2, StageIs
<1>5. \/ Parks(h, q, s, ctx) /\ UNCHANGED <<spTurn, spUses>>
      \/ spHold' = [spHold EXCEPT ![h] = Closed] /\ Dispatches(q, s, h)
  BY DEF ApproveOnce
<1> HIDE DEF q, s, ctx
<1>6. HoldsTyped' /\ HoldsFresh' /\ TurnTyped'
  <2>1. CASE Parks(h, q, s, ctx) /\ UNCHANGED <<spTurn, spUses>>
    <3>1. HoldsTyped' /\ HoldsFresh'
      BY <1>1, <1>2, <1>3, <2>1, ParkKeeps
    <3> QED BY <2>1, <3>1 DEF SpendInv, TurnTyped
  <2>2. CASE spHold' = [spHold EXCEPT ![h] = Closed] /\ Dispatches(q, s, h)
    BY <1>1, <1>2, <2>2, AnswerDispatches
  <2> QED BY <1>5, <2>1, <2>2
<1> QED BY <1>1, <1>6 DEF SpendInv, MoneyTyped, LedgerIsPaid, EntriesTyped

LEMMA ClosedIs == Closed \in HoldRow /\ Closed.st = "closed"
<1>1. 0 \in 0..MaxSession
  BY SpendAssumption
<1> QED BY <1>1 DEF Closed, NotParked, HoldRow

\* Holds are closed, by a denial or by the end of their session.
LEMMA SweepKeeps ==
    ASSUME SpendInv, UNCHANGED spUses, spHold' \in [Asks -> HoldRow],
           \A h \in Asks : spHold'[h] = spHold[h] \/ spHold'[h] = Closed
    PROVE  HoldsTyped' /\ HoldsFresh'
BY ClosedIs DEF SpendInv, HoldsTyped, HoldsFresh

LEMMA DenyAskKeeps ==
    ASSUME SpendInv, NEW h \in Asks, DenyAsk(h)
    PROVE  SpendInv'
<1>1. /\ spHold' = [spHold EXCEPT ![h] = Closed] /\ UNCHANGED <<spTurn, spUses, spEntries>>
      /\ UNCHANGED Money
  BY DEF DenyAsk
<1>2. spHold' \in [Asks -> HoldRow] /\ \A j \in Asks : spHold'[j] = spHold[j] \/ spHold'[j] = Closed
  BY <1>1, ClosedIs DEF SpendInv, HoldsTyped
<1>3. HoldsTyped' /\ HoldsFresh'
  BY <1>1, <1>2, SweepKeeps
<1> QED BY <1>1, <1>3 DEF SpendInv, MoneyTyped, TurnTyped, EntriesTyped, LedgerIsPaid, Money

LEMMA SpendSessionEndsKeeps ==
    ASSUME SpendInv, NEW kill \in BOOLEAN, SpendSessionEnds(kill)
    PROVE  SpendInv'
<1>1. /\ spHold' = [h \in Asks |-> IF spHold[h].st = "parked" THEN Closed ELSE spHold[h]]
      /\ UNCHANGED <<spLimit, spLedger, spTurn, spPaid, spLost, spUses>>
      /\ spNow.session < MaxSession /\ spNow' = [spNow EXCEPT !.session = @ + 1]
  BY DEF SpendSessionEnds
<1>2. spHold' \in [Asks -> HoldRow] /\ \A j \in Asks : spHold'[j] = spHold[j] \/ spHold'[j] = Closed
  BY <1>1, ClosedIs DEF SpendInv, HoldsTyped
<1>3. HoldsTyped' /\ HoldsFresh'
  BY <1>1, <1>2, SweepKeeps
<1>4. EntriesTyped'
  BY DEF SpendSessionEnds, SpendInv, EntriesTyped, Entry
<1>5. spNow' \in NowRow
  BY <1>1, SpendAssumption DEF SpendInv, MoneyTyped, NowRow
<1> QED BY <1>1, <1>3, <1>4, <1>5 DEF SpendInv, MoneyTyped, TurnTyped, LedgerIsPaid

LEMMA LimitAndMonthKeep ==
    ASSUME SpendInv, (\E w \in Windows, cents \in Limits : SetLimit(w, cents)) \/ MonthTurns
    PROVE  SpendInv'
<1>1. UNCHANGED <<spLedger, spEntries, spHold, spTurn, spPaid, spLost, spUses>>
  BY DEF SetLimit, MonthTurns
<1>2. spNow' \in NowRow /\ spLimit' \in [Windows -> Limits]
  <2>1. CASE MonthTurns
    BY <2>1, SpendAssumption DEF SpendInv, MoneyTyped, NowRow, MonthTurns
  <2>2. ASSUME NEW w \in Windows, NEW cents \in Limits, SetLimit(w, cents)
        PROVE  spNow' \in NowRow /\ spLimit' \in [Windows -> Limits]
    BY <2>2, SpendAssumption DEF SpendInv, MoneyTyped, NowRow, SetLimit
  <2> QED BY <2>1, <2>2
<1> QED BY <1>1, <1>2 DEF SpendInv, MoneyTyped, TurnTyped, EntriesTyped, HoldsTyped, HoldsFresh, LedgerIsPaid

\* An order ends, recorded or not.
LEMMA OrderEndsKeeps ==
    ASSUME SpendInv, (\E recorded \in BOOLEAN : OrderLands(recorded)) \/ OrderFails \/ SpendCrash
    PROVE  SpendInv'
<1>1. spTurn' = SpendIdle /\ spTurn # SpendIdle /\ UNCHANGED <<spLimit, spEntries, spHold, spNow, spUses>>
  BY DEF OrderLands, OrderFails, SpendCrash, Money
<1>2. TurnTyped'
  <2>1. SpendIdle \in TurnRow
    BY SpendAssumption DEF SpendIdle, TurnRow
  <2> QED BY <1>1, <2>1 DEF TurnTyped
<1>3. Cents[spTurn.quote] # NoPrice => OrderRow \in Priced /\ Charged \subseteq Priced
  <2> SUFFICES ASSUME Cents[spTurn.quote] # NoPrice PROVE OrderRow \in Priced /\ Charged \subseteq Priced
    OBVIOUS
  <2>1. /\ spTurn.quote \in Quotes /\ spTurn.session \in 0..MaxSession /\ spNow.month \in 0..MaxMonth
    BY <1>1 DEF SpendInv, TurnTyped, TurnRow, MoneyTyped, NowRow
  <2>2. OrderRow \in Spend /\ OrderRow.quote = spTurn.quote
    BY <2>1 DEF OrderRow, Spend
  <2>3. OrderRow \in Priced
    BY <2>2 DEF Priced
  <2> QED BY <2>3 DEF Charged, SpendInv, MoneyTyped
<1>4. /\ spLedger' \subseteq Priced /\ spPaid' \subseteq Priced /\ spLost' \in BOOLEAN /\ LedgerIsPaid'
  <2>1. ASSUME NEW recorded \in BOOLEAN, OrderLands(recorded)
        PROVE  spLedger' \subseteq Priced /\ spPaid' \subseteq Priced /\ spLost' \in BOOLEAN /\ LedgerIsPaid'
    <3>1. spLedger' \subseteq Priced /\ spPaid' \subseteq Priced
      BY <1>3, <2>1 DEF OrderLands, SpendInv, MoneyTyped
    <3>2. spLost' \in BOOLEAN /\ (~spLost' => ~spLost /\ recorded)
      BY <2>1 DEF OrderLands
    <3>3. ~spLost /\ recorded => spLedger' = spPaid'
      BY <2>1 DEF OrderLands, Charged, SpendInv, LedgerIsPaid
    <3> QED BY <3>1, <3>2, <3>3 DEF LedgerIsPaid
  <2>2. CASE OrderFails
    BY <2>2 DEF OrderFails, Money, SpendInv, MoneyTyped, LedgerIsPaid
  <2>3. CASE SpendCrash
    BY <1>3, <2>3 DEF SpendCrash, SpendInv, MoneyTyped, LedgerIsPaid
  <2> QED BY <2>1, <2>2, <2>3
<1> QED BY <1>1, <1>2, <1>4 DEF SpendInv, MoneyTyped, EntriesTyped, HoldsTyped, HoldsFresh

-----------------------------------------------------------------------------
LEMMA SpendInvInit == SpendInit => SpendInv
<1> SUFFICES ASSUME SpendInit PROVE SpendInv
  OBVIOUS
<1>1. NotParked \in HoldRow /\ NotParked.st = "none" /\ SpendIdle \in TurnRow
  BY SpendAssumption DEF NotParked, HoldRow, SpendIdle, TurnRow
<1>2. MoneyTyped /\ LedgerIsPaid
  <2>1. 0 \in 0..MaxSession /\ 0 \in 0..MaxMonth /\ 0 \in 0..MaxChanges
    BY SpendAssumption
  <2>2. spNow \in NowRow
    BY <2>1 DEF SpendInit, NowRow
  <2>3. spLimit \in [Windows -> Limits]
    BY SpendAssumption DEF SpendInit
  <2> QED BY <2>2, <2>3 DEF SpendInit, MoneyTyped, LedgerIsPaid
<1>3. TurnTyped /\ EntriesTyped
  BY <1>1 DEF SpendInit, TurnTyped, EntriesTyped, Entry
<1>4. HoldsTyped /\ HoldsFresh
  BY <1>1 DEF SpendInit, HoldsTyped, HoldsFresh
<1> QED BY <1>2, <1>3, <1>4 DEF SpendInv

LEMMA SpendInvNext == SpendInv /\ [SpendNext]_spVars => SpendInv'
<1> SUFFICES ASSUME SpendInv, [SpendNext]_spVars PROVE SpendInv'
  OBVIOUS
<1>1. CASE SpendNext
  BY <1>1, OrderKeeps, AnswerAskKeeps, ApproveOnceKeeps, DenyAskKeeps, OrderEndsKeeps, LimitAndMonthKeep,
     SpendSessionEndsKeeps DEF SpendNext
<1>2. CASE UNCHANGED spVars
  BY <1>2 DEF spVars, SpendInv, MoneyTyped, TurnTyped, EntriesTyped, HoldsTyped, HoldsFresh, LedgerIsPaid
<1> QED BY <1>1, <1>2

LEMMA SpendInvSound == SpendInv => GrantsSound
<1> SUFFICES ASSUME SpendInv PROVE GrantsSound
  OBVIOUS
<1>1. Entry \subseteq {Floor} \cup {Grant(src, s, h) : src \in {"session", "task"},
                                                      s \in 0..MaxSession, h \in Asks \cup {NoAsk}}
  BY DEF Entry
<1>2. \A h \in Asks : /\ spHold[h].st \in {"none", "parked", "closed"}
                      /\ spHold[h].quote \in Quotes \cup {NoAsk}
                      /\ spHold[h].ctx = NoContext \/ spHold[h].ctx \in Context
  BY DEF SpendInv, HoldsTyped, HoldRow
<1>3. SpendTypeOK
  BY <1>1, <1>2 DEF SpendInv, MoneyTyped, TurnTyped, TurnRow, NowRow, EntriesTyped, HoldsTyped, SpendTypeOK
<1> QED BY <1>3 DEF GrantsSound, SingleUse, SpendInv, HoldsFresh

\* For any quotes, holds and sessions, whatever is changed or lost meanwhile:
\* policy_entries, holds, ledger and limits stay well formed, and an answer
\* that is good for one call lets one call through.
THEOREM GrantsStaySound == SpendSpec => []GrantsSound
<1>1. SpendSpec => []SpendInv
  BY SpendInvInit, SpendInvNext, PTL DEF SpendSpec
<1> QED BY <1>1, SpendInvSound, PTL

-----------------------------------------------------------------------------
\* A dispatch, and what the user had seen.
SeenStep ==
    spTurn = SpendIdle /\ spTurn' # SpendIdle /\ ~spLost /\ Cents[spTurn'.quote] # NoPrice =>
         LET over == Breaches(spTurn'.quote, spPaid, spTurn'.session)
         IN  \/ over = {}
             \/ \E h \in Asks : /\ h = spTurn'.ask /\ spHold[h].ctx # NoContext
                                /\ spHold[h].ctx.reason = "over_limit" => spHold[h].ctx.breaches = over

LEMMA ClearDispatch ==
    ASSUME SpendInv, NEW q \in Quotes, NEW s, NEW readable \in BOOLEAN, NEW h,
           runSpendStage(q, s, readable) = NoContext, Dispatches(q, s, h)
    PROVE  SeenStep
<1>1. spTurn'.quote = q /\ spTurn'.session = s
  BY DEF Dispatches
<1>2. Breaches(q, spLedger, s) = {}
  BY StageIs
<1>3. ~spLost => Breaches(q, spPaid, s) = {}
  BY <1>2 DEF SpendInv, LedgerIsPaid
<1> QED BY <1>1, <1>3 DEF SeenStep

LEMMA SeenHolds == SpendInv /\ [SpendNext]_spVars => SeenStep
<1> SUFFICES ASSUME SpendInv, [SpendNext]_spVars, spTurn = SpendIdle, spTurn' # SpendIdle PROVE SeenStep
  BY DEF SeenStep
<1>1. ASSUME NEW q \in Quotes, NEW readable \in BOOLEAN, Order(q, readable) PROVE SeenStep
  <2>1. /\ Dispatches(q, spNow.session, Decider.by)
        /\ runSpendStage(q, spNow.session, readable) = NoContext
    BY <1>1 DEF Order, Decider
  <2> QED BY <2>1, ClearDispatch
<1>2. ASSUME NEW h \in Asks, NEW choice \in {"task", "session"}, NEW readable \in BOOLEAN,
             AnswerAsk(h, choice, readable)
      PROVE  SeenStep
  <2> DEFINE q == spHold[h].quote
             s == spHold[h].session
  <2>1. Dispatches(q, s, h) /\ runSpendStage(q, s, readable) = NoContext /\ q \in Quotes
    BY <1>2, ParkedFields DEF AnswerAsk
  <2> HIDE DEF q, s
  <2> QED BY <2>1, ClearDispatch
<1>3. ASSUME NEW h \in Asks, NEW readable \in BOOLEAN, ApproveOnce(h, readable) PROVE SeenStep
  <2> DEFINE q == spHold[h].quote
             s == spHold[h].session
             ctx == runSpendStage(q, s, readable)
  <2>1. Dispatches(q, s, h) /\ Stands(h, ctx) /\ q \in Quotes /\ spHold[h].ctx # NoContext
    BY <1>3, ParkedFields DEF ApproveOnce
  <2>2. ctx # NoContext /\ ctx.reason = "over_limit" => ctx.breaches = Breaches(q, spLedger, s)
    BY <2>1, StageIs
  <2> HIDE DEF q, s
  <2>3. CASE ctx = NoContext
    BY <2>1, <2>3, ClearDispatch
  <2>4. CASE ctx # NoContext
    <3>1. ctx = spHold[h].ctx
      BY <2>1, <2>4 DEF Stands
    <3> HIDE DEF ctx
    <3>2. spTurn'.quote = q /\ spTurn'.session = s /\ spTurn'.ask = h
      BY <2>1 DEF Dispatches
    <3>3. ~spLost => Breaches(q, spPaid, s) = Breaches(q, spLedger, s)
      BY DEF SpendInv, LedgerIsPaid
    <3> QED BY <2>1, <2>2, <2>4, <3>1, <3>2, <3>3 DEF SeenStep
  <2> QED BY <2>3, <2>4
<1>4. CASE SpendNext
  BY <1>1, <1>2, <1>3, <1>4 DEF SpendNext, DenyAsk, OrderLands, OrderFails, SpendCrash, MonthTurns, SetLimit,
     SpendSessionEnds
<1> QED BY <1>4 DEF spVars

\* For any prices, limits and holds: while every payment made was recorded, an
\* order goes out above a limit only on an answer to exactly these limits and
\* these totals, or to the statement that they are unknown.
THEOREM OverCapIsAsSeen == SpendSpec => OverCapOnlyAsSeen
<1>1. SpendSpec => []SpendInv
  BY SpendInvInit, SpendInvNext, PTL DEF SpendSpec
<1>2. SpendInv /\ [SpendNext]_spVars => [SeenStep]_spVars
  BY SeenHolds
<1>3. SpendSpec => [][SeenStep]_spVars
  BY <1>1, <1>2, PTL DEF SpendSpec
<1> QED BY <1>3 DEF OverCapOnlyAsSeen, SeenStep

------------------------------------------------------------------------------
(***************************************************************************)
(* Lists of values of any kind: hashes hold hashes, so the rows form no    *)
(* set, and a list is one of some set.                                     *)
(***************************************************************************)
AList(s) == \E S : s \in Seq(S)

\* The length and the domain of a list.
LEMMA ListLaws ==
    ASSUME NEW s, AList(s)
    PROVE  /\ Len(s) \in Nat /\ DOMAIN s = 1..Len(s)
           /\ Len(s) = 0 <=> s = <<>>
<1>1. PICK S : s \in Seq(S)
    BY DEF AList
<1>2. Len(s) \in Nat /\ DOMAIN s = 1..Len(s)
    BY <1>1, LenProperties
<1>3. Len(s) = 0 <=> s = <<>>
    BY <1>1, EmptySeq
<1> QED
    BY <1>2, <1>3

\* The empty list.
LEMMA EmptyList == AList(<<>>) /\ Len(<<>>) = 0
<1>1. <<>> \in Seq({}) /\ Len(<<>>) = 0
    BY EmptySeq
<1> QED
    BY <1>1 DEF AList

\* A list of one element.
LEMMA OneList ==
    ASSUME NEW e
    PROVE  AList(<<e>>) /\ Len(<<e>>) = 1 /\ <<e>>[1] = e /\ <<e>> # <<>>
<1>1. <<e>> \in Seq({e})
    OBVIOUS
<1>2. Len(<<e>>) = 1 /\ <<e>>[1] = e
    OBVIOUS
<1> QED
    BY <1>1, <1>2, EmptyList DEF AList

\* Lists that agree at every position are equal.
LEMMA SameList ==
    ASSUME NEW s, NEW t, AList(s), AList(t), Len(s) = Len(t),
           \A i \in 1..Len(s) : s[i] = t[i]
    PROVE  s = t
<1>1. PICK S : s \in Seq(S)
    BY DEF AList
<1>2. PICK T : t \in Seq(T)
    BY DEF AList
<1>3. s \in Seq(S \cup T) /\ t \in Seq(S \cup T)
    BY <1>1, <1>2, SeqMonotonic
<1> QED
    BY <1>3, SeqEqual

\* A part of a list.
LEMMA PartList ==
    ASSUME NEW s, AList(s), NEW a \in Nat, NEW b \in Nat, 1 <= a, a <= b + 1, b <= Len(s)
    PROVE  /\ AList(SubSeq(s, a, b)) /\ Len(SubSeq(s, a, b)) = b + 1 - a
           /\ \A i \in 1..(b + 1 - a) : SubSeq(s, a, b)[i] = s[a + i - 1]
<1>1. PICK S : s \in Seq(S)
    BY DEF AList
<1>2. \A i \in a..b : s[i] \in S
  <2> TAKE i \in a..b
  <2>1. i \in 1..Len(s)
    BY ListLaws
  <2> QED
    BY <2>1, <1>1, ElementOfSeq
<1>3. /\ SubSeq(s, a, b) \in Seq(S)
      /\ Len(SubSeq(s, a, b)) = IF a <= b THEN b - a + 1 ELSE 0
      /\ \A i \in 1 .. b - a + 1 : SubSeq(s, a, b)[i] = s[a + i - 1]
    BY <1>2, SubSeqProperties
<1>4. AList(SubSeq(s, a, b))
    BY <1>3 DEF AList
<1>5. Len(SubSeq(s, a, b)) = b + 1 - a
    BY <1>3
<1>6. b + 1 - a = b - a + 1
    OBVIOUS
<1> QED
    BY <1>3, <1>4, <1>5, <1>6

\* Two lists joined.
LEMMA JoinList ==
    ASSUME NEW s, NEW t, AList(s), AList(t)
    PROVE  /\ AList(s \o t) /\ Len(s \o t) = Len(s) + Len(t)
           /\ \A i \in 1..Len(s) : (s \o t)[i] = s[i]
           /\ \A i \in 1..Len(t) : (s \o t)[Len(s) + i] = t[i]
<1>1. PICK S : s \in Seq(S)
    BY DEF AList
<1>2. PICK T : t \in Seq(T)
    BY DEF AList
<1>3. s \in Seq(S \cup T) /\ t \in Seq(S \cup T)
    BY <1>1, <1>2, SeqMonotonic
<1>4. /\ s \o t \in Seq(S \cup T)
      /\ Len(s \o t) = Len(s) + Len(t)
      /\ \A i \in 1 .. Len(s) + Len(t) : (s \o t)[i] = IF i <= Len(s) THEN s[i] ELSE t[i - Len(s)]
    BY <1>3, ConcatProperties
<1>5. AList(s \o t)
    BY <1>4 DEF AList
<1>6. Len(s) \in Nat /\ Len(t) \in Nat
    BY ListLaws
<1>7. \A i \in 1..Len(s) : (s \o t)[i] = s[i]
    BY <1>4, <1>6
<1>8. \A i \in 1..Len(t) : (s \o t)[Len(s) + i] = t[i]
  <2> TAKE i \in 1..Len(t)
  <2>1. /\ Len(s) + i \in 1..(Len(s) + Len(t)) /\ ~(Len(s) + i <= Len(s))
        /\ (Len(s) + i) - Len(s) = i
    BY <1>6
  <2> QED
    BY <2>1, <1>4
<1> QED
    BY <1>4, <1>5, <1>7, <1>8

\* A list read backwards.
LEMMA BackList ==
    ASSUME NEW s, AList(s)
    PROVE  /\ AList(Reverse(s)) /\ Len(Reverse(s)) = Len(s)
           /\ \A i \in 1..Len(s) : Reverse(s)[i] = s[Len(s) - i + 1]
<1>1. PICK S : s \in Seq(S)
    BY DEF AList
<1>2. Len(s) \in Nat
    BY ListLaws
<1>3. \A i \in 1..Len(s) : s[(Len(s) - i) + 1] \in S
  <2> TAKE i \in 1..Len(s)
  <2>1. (Len(s) - i) + 1 \in 1..Len(s)
    BY <1>2
  <2> QED
    BY <2>1, <1>1, ElementOfSeq
<1>4. Reverse(s) \in [1..Len(s) -> S]
    BY <1>3 DEF Reverse
<1>5. Reverse(s) \in Seq(S)
    BY <1>2, <1>4, SeqDef
<1>6. DOMAIN Reverse(s) = 1..Len(s)
    BY DEF Reverse
<1>7. Len(Reverse(s)) = Len(s)
  <2>1. Len(Reverse(s)) \in Nat /\ DOMAIN Reverse(s) = 1..Len(Reverse(s))
    BY <1>5, LenProperties
  <2> QED
    BY <2>1, <1>6, <1>2
<1>8. \A i \in 1..Len(s) : Reverse(s)[i] = s[Len(s) - i + 1]
    BY DEF Reverse
<1> QED
    BY <1>5, <1>7, <1>8 DEF AList

\* A list with one element replaced.
LEMMA PutList ==
    ASSUME NEW s, AList(s), NEW i \in 1..Len(s), NEW e
    PROVE  /\ AList([s EXCEPT ![i] = e]) /\ Len([s EXCEPT ![i] = e]) = Len(s)
           /\ [s EXCEPT ![i] = e][i] = e
           /\ \A j \in 1..Len(s) : j # i => [s EXCEPT ![i] = e][j] = s[j]
<1>1. PICK S : s \in Seq(S)
    BY DEF AList
<1>2. s \in Seq(S \cup {e}) /\ e \in S \cup {e}
    BY <1>1, SeqMonotonic
<1>3. /\ [s EXCEPT ![i] = e] \in Seq(S \cup {e})
      /\ Len([s EXCEPT ![i] = e]) = Len(s)
      /\ \A j \in 1 .. Len(s) : [s EXCEPT ![i] = e][j] = IF j = i THEN e ELSE s[j]
    BY <1>2, ExceptSeq
<1> QED
    BY <1>3 DEF AList

\* InsertAt past the end appends.
LEMMA AddList ==
    ASSUME NEW s, AList(s), NEW e
    PROVE  /\ AList(InsertAt(s, Len(s) + 1, e)) /\ Len(InsertAt(s, Len(s) + 1, e)) = Len(s) + 1
           /\ \A i \in 1..Len(s) : InsertAt(s, Len(s) + 1, e)[i] = s[i]
           /\ InsertAt(s, Len(s) + 1, e)[Len(s) + 1] = e
<1> DEFINE a == SubSeq(s, 1, Len(s) + 1 - 1)
           c == SubSeq(s, Len(s) + 1, Len(s))
<1>1. Len(s) \in Nat /\ Len(s) + 1 - 1 = Len(s)
    BY ListLaws
<1>2. AList(a) /\ Len(a) = Len(s) /\ \A i \in 1..Len(s) : a[i] = s[i]
  <2>1. /\ AList(SubSeq(s, 1, Len(s))) /\ Len(SubSeq(s, 1, Len(s))) = Len(s) + 1 - 1
        /\ \A i \in 1..(Len(s) + 1 - 1) : SubSeq(s, 1, Len(s))[i] = s[1 + i - 1]
    BY <1>1, PartList
  <2>2. \A i \in 1..Len(s) : 1 + i - 1 = i
    BY <1>1
  <2> QED
    BY <2>1, <2>2, <1>1
<1>3. AList(c) /\ Len(c) = 0
    BY <1>1, PartList
<1>4. AList(<<e>>) /\ Len(<<e>>) = 1 /\ <<e>>[1] = e
    BY OneList
<1>5. /\ AList(a \o <<e>>) /\ Len(a \o <<e>>) = Len(s) + 1
      /\ \A i \in 1..Len(s) : (a \o <<e>>)[i] = s[i]
      /\ (a \o <<e>>)[Len(s) + 1] = e
  <2> HIDE DEF a
  <2>1. /\ AList(a \o <<e>>) /\ Len(a \o <<e>>) = Len(a) + Len(<<e>>)
        /\ \A i \in 1..Len(a) : (a \o <<e>>)[i] = a[i]
        /\ \A i \in 1..Len(<<e>>) : (a \o <<e>>)[Len(a) + i] = <<e>>[i]
    BY <1>2, <1>4, JoinList
  <2>2. 1 \in 1..Len(<<e>>)
    BY <1>4
  <2> QED
    BY <2>1, <2>2, <1>2, <1>4
<1>6. InsertAt(s, Len(s) + 1, e) = (a \o <<e>>) \o c
    BY DEF InsertAt
<1>7. /\ AList((a \o <<e>>) \o c) /\ Len((a \o <<e>>) \o c) = Len(s) + 1
      /\ \A i \in 1..(Len(s) + 1) : ((a \o <<e>>) \o c)[i] = (a \o <<e>>)[i]
  <2> HIDE DEF a, c
  <2>1. /\ AList((a \o <<e>>) \o c) /\ Len((a \o <<e>>) \o c) = Len(a \o <<e>>) + Len(c)
        /\ \A i \in 1..Len(a \o <<e>>) : ((a \o <<e>>) \o c)[i] = (a \o <<e>>)[i]
    BY <1>3, <1>5, JoinList
  <2> QED
    BY <2>1, <1>1, <1>3, <1>5
<1>8. \A i \in 1..Len(s) : i \in 1..(Len(s) + 1)
    BY <1>1
<1>9. Len(s) + 1 \in 1..(Len(s) + 1)
    BY <1>1
<1> HIDE DEF a, c
<1> QED
    BY <1>5, <1>6, <1>7, <1>8, <1>9

\* RemoveAt moves the later elements down.
LEMMA DropList ==
    ASSUME NEW s, AList(s), NEW k \in 1..Len(s)
    PROVE  /\ AList(RemoveAt(s, k)) /\ Len(RemoveAt(s, k)) = Len(s) - 1
           /\ \A i \in 1..(k - 1) : RemoveAt(s, k)[i] = s[i]
           /\ \A i \in k..(Len(s) - 1) : RemoveAt(s, k)[i] = s[i + 1]
<1> DEFINE a == SubSeq(s, 1, k - 1)
           c == SubSeq(s, k + 1, Len(s))
<1>1. Len(s) \in Nat /\ k \in Nat /\ 1 <= k /\ k <= Len(s) /\ k - 1 \in Nat /\ k + 1 \in Nat
    BY ListLaws
<1>2. AList(a) /\ Len(a) = k - 1 /\ \A i \in 1..(k - 1) : a[i] = s[i]
  <2>1. /\ AList(SubSeq(s, 1, k - 1)) /\ Len(SubSeq(s, 1, k - 1)) = (k - 1) + 1 - 1
        /\ \A i \in 1..((k - 1) + 1 - 1) : SubSeq(s, 1, k - 1)[i] = s[1 + i - 1]
    BY <1>1, PartList
  <2>2. \A i \in 1..(k - 1) : 1 + i - 1 = i
    BY <1>1
  <2>3. (k - 1) + 1 - 1 = k - 1
    BY <1>1
  <2> QED
    BY <2>1, <2>2, <2>3
<1>3. AList(c) /\ Len(c) = Len(s) - k /\ \A i \in 1..(Len(s) - k) : c[i] = s[k + i]
  <2>1. /\ AList(SubSeq(s, k + 1, Len(s))) /\ Len(SubSeq(s, k + 1, Len(s))) = Len(s) + 1 - (k + 1)
        /\ \A i \in 1..(Len(s) + 1 - (k + 1)) : SubSeq(s, k + 1, Len(s))[i] = s[(k + 1) + i - 1]
    BY <1>1, PartList
  <2>2. \A i \in 1..(Len(s) - k) : (k + 1) + i - 1 = k + i
    BY <1>1
  <2>3. Len(s) + 1 - (k + 1) = Len(s) - k
    BY <1>1
  <2> QED
    BY <2>1, <2>2, <2>3
<1>4. RemoveAt(s, k) = a \o c
    BY DEF RemoveAt
<1> HIDE DEF a, c
<1>5. /\ AList(a \o c) /\ Len(a \o c) = Len(a) + Len(c)
      /\ \A i \in 1..Len(a) : (a \o c)[i] = a[i]
      /\ \A i \in 1..Len(c) : (a \o c)[Len(a) + i] = c[i]
  <2>1. AList(a) /\ AList(c)
    BY <1>2, <1>3
  <2> QED
    BY ONLY <2>1, JoinList
<1>6. Len(a \o c) = Len(s) - 1
    BY <1>1, <1>2, <1>3, <1>5
<1>7. \A i \in k..(Len(s) - 1) : (a \o c)[i] = s[i + 1]
  <2> TAKE i \in k..(Len(s) - 1)
  <2> DEFINE j == i + 1 - k
  <2>1. j \in 1..(Len(s) - k) /\ (k - 1) + j = i /\ k + j = i + 1
    BY <1>1
  <2> HIDE DEF j
  <2> QED
    BY <2>1, <1>2, <1>3, <1>5
<1> QED
    BY <1>2, <1>4, <1>5, <1>6, <1>7

(***************************************************************************)
(* The audit chain.  The rows stand in the order of their ids and of their *)
(* keys; a log nobody damaged is Clean, and one damaged once is Scarred: a *)
(* row of it, or the link above it, breaks, or its first row is no         *)
(* genesis.  What a walk has found (Seen) is what the log its first page   *)
(* found holds above the oldest row it has read, whatever the pages or     *)
(* batches it was read in.  ChainInv says so for the wire walk, for the    *)
(* dump, whose lines are that log's rows from the newest down, and for the *)
(* check of the file, which at most one torn line can spoil.               *)
(***************************************************************************)
RowFields == {"id", "epoch", "kind", "ref", "seq", "prev", "eprev", "hash"}

\* A stored row; a closer refers to an older row.
ChainRow(r) ==
    /\ DOMAIN r = RowFields
    /\ r.id \in Nat /\ r.ref \in Nat /\ r.ref < r.id
    /\ r.epoch \in Days /\ r.seq \in Nat

\* Stored rows, oldest first.
ChainRows(s) ==
    /\ AList(s)
    /\ \A i \in 1..Len(s) : ChainRow(s[i])
    /\ \A i, j \in 1..Len(s) : i < j => s[i].id < s[j].id /\ Below(s[i], s[j])

\* Row r is what insertRow writes after row p.
Follows(p, r) ==
    \/ r.epoch = p.epoch /\ r.seq = p.seq + 1 /\ r.prev = p.hash /\ r.eprev = Null
    \/ r.epoch # p.epoch /\ r.seq = 0 /\ r.prev = GENESIS_SENTINEL /\ r.eprev = p.hash

\* Row r is what insertRow writes first.
Opens(r) == r.seq = 0 /\ r.prev = GENESIS_SENTINEL /\ r.eprev = Null

\* Nobody damaged these rows.
Clean(s) ==
    /\ Len(s) > 0 => Opens(s[1])
    /\ \A i \in 1..Len(s) : s[i].hash = computeEntryHash(s[i])
    /\ \A i \in 2..Len(s) : Follows(s[i - 1], s[i])

\* What the rows above position n show: breaks, closers still without their
\* referent, the closers of a row, decisions closed twice, decisions not closed.
BreaksAbove(s, n) ==
    (UNION {EntryBreaks(s[i]) : i \in (n + 1)..Len(s)})
      \union (UNION {LinkBreaks(s[i - 1], s[i]) : i \in (n + 2)..Len(s)})

CarryAbove(s, n) ==
    {s[i] : i \in {j \in (n + 1)..Len(s) :
        s[j].ref # NoRef /\ \A k \in (n + 1)..Len(s) : s[k].id # s[j].ref}}

ClosersAt(s, p) == {s[i] : i \in {j \in (p + 1)..Len(s) : s[j].ref = s[p].id}}

ConflictedAbove(s, n) ==
    {s[i].id : i \in {j \in (n + 1)..Len(s) :
        owesCloser(s[j]) /\ Cardinality(ClosersAt(s, j)) >= 2}}

UnresolvedAbove(s, n) ==
    {s[i].id : i \in {j \in (n + 1)..Len(s) : owesCloser(s[j]) /\ ClosersAt(s, j) = {}}}

\* A check of these rows as a whole does not pass.
Scarred(s) == Len(s) > 0 /\ (~GenesisShaped(s[1]) \/ BreaksAbove(s, 0) # {})

\* The rows after h damages.
Marks(s, h) == /\ h \in Nat
               /\ h = 0 => Clean(s)
               /\ h = 1 => Scarred(s)

\* Rows are only added while a walk reads.
Prefix(s, t) == Len(s) <= Len(t) /\ \A i \in 1..Len(s) : s[i] = t[i]

\* The log.
LogInv ==
    /\ ChainRows(log) /\ Marks(log, harms)
    /\ written \in 0..MaxWrites /\ harms \in 0..MaxHarm /\ walks \in 0..MaxWalks
    /\ \A i \in 1..Len(log) : log[i].id <= written
    /\ decisions \subseteq 1..written

\* The file: the newest rows of the log it was taken from, one line torn at most.
FileOK(f, h) ==
    /\ DOMAIN f = {"lines", "of", "harmed"}
    /\ AList(f.lines) /\ ChainRows(f.of) /\ Marks(f.of, f.harmed) /\ f.harmed <= h
    /\ Len(f.lines) <= Len(f.of)
    /\ \A i \in 1..Len(f.lines) : f.lines[i] \in {Torn, f.of[Len(f.of) + 1 - i]}
    /\ \A i, j \in 1..Len(f.lines) : f.lines[i] = Torn /\ f.lines[j] = Torn => i = j

\* The fields of a walk.
WalkFields == {"mode", "stop", "exit", "last", "carry", "breaks", "conflicted", "unresolved",
               "pages", "read", "aborting", "begun", "of", "harmed"}

WalkShape(w) ==
    /\ DOMAIN w = WalkFields
    /\ w.mode \in {"none", "verify", "dump", "file"}
    /\ w.exit \in {-1, 0, 1, 2, 3, 4, 5, 130}
    /\ w.pages \in 0..MaxPages /\ w.read \in Nat
    /\ w.aborting \in BOOLEAN /\ w.begun \in BOOLEAN

\* The row the walk stands at when the rows above position n are read.
At(s, n) == IF n = Len(s) THEN <<>> ELSE <<s[n + 1]>>

\* Walk w has found what the rows above position n show.
Seen(w, s, n) ==
    /\ w.breaks = BreaksAbove(s, n)
    /\ w.conflicted = ConflictedAbove(s, n)
    /\ w.unresolved = UnresolvedAbove(s, n)
    /\ w.carry = CarryAbove(s, n)

\* A walk, running or ended.
WalkOK(w, h) ==
    /\ WalkShape(w)
    /\ ChainRows(w.of) /\ Marks(w.of, w.harmed) /\ w.harmed <= h
    /\ w.read <= Len(w.of)
    /\ Seen(w, w.of, Len(w.of) - w.read)
    /\ w.mode # "dump" => w.last = At(w.of, Len(w.of) - w.read)
    /\ w.mode = "dump" => w.read = 0
    /\ ~w.begun => w.of = <<>> /\ w.harmed = 0 /\ w.read = 0 /\ w.last = <<>>

Running(w) == w.mode # "none" /\ w.stop = "none"

\* A verdict, and what 0 rests on.
EndOK(w) ==
    /\ Running(w) => w.exit = -1
    /\ w.stop = "exhausted" /\ w.mode = "verify" => w.read = Len(w.of)
    /\ w.exit = 0 => /\ w.breaks = {}
                     /\ w.mode # "dump" /\ w.last # <<>> => GenesisShaped(w.last[1])

\* A wire walk under way over log l, a dump into file f, a check of file f.
VerifyOK(w, l) == w.begun => Prefix(w.of, l) /\ 0 < w.read /\ w.read < Len(w.of)

DumpOK(w, f, l) ==
    /\ w.begun => /\ Prefix(w.of, l) /\ 0 < Len(f.lines) /\ Len(f.lines) < Len(w.of)
                  /\ w.last = At(w.of, Len(w.of) - Len(f.lines))
                  /\ f.of = w.of /\ f.harmed = w.harmed
    /\ ~w.begun => f = NoFile
    /\ \A i \in 1..Len(f.lines) : f.lines[i] # Torn

CheckOK(w, f) ==
    /\ w.read <= Len(f.lines)
    /\ w.begun => w.of = f.of /\ w.harmed = f.harmed

WireOK(w, f, l) ==
    Running(w) => /\ w.mode = "verify" => VerifyOK(w, l)
                  /\ w.mode = "dump" => DumpOK(w, f, l)
                  /\ w.mode = "file" => CheckOK(w, f)

\* The inductive invariant.
ChainInv ==
    /\ LogInv
    /\ FileOK(file, harms) /\ WalkOK(walk, harms)
    /\ EndOK(walk) /\ WireOK(walk, file, log)

\* The rows of s after position m, up to position n.
IsPart(rows, s, m, n) ==
    /\ AList(rows) /\ Len(rows) = n - m
    /\ \A i \in 1..(n - m) : rows[i] = s[m + i]

\* A range and the row above it, if there is one.
WithSeam(u, s, m, n) ==
    /\ AList(u)
    /\ Len(u) = IF n = Len(s) THEN n - m ELSE n + 1 - m
    /\ \A i \in 1..Len(u) : u[i] = s[m + i]

\* A range with the boundary row above it is a longer part of the list.
LEMMA PartOfRange ==
    ASSUME NEW s, NEW rows, NEW m \in Nat, NEW n \in Nat, m < n, n <= Len(s), AList(s),
           IsPart(rows, s, m, n)
    PROVE  WithSeam(rows \o At(s, n), s, m, n)
<1>0. SUFFICES /\ AList(rows \o At(s, n))
               /\ Len(rows \o At(s, n)) = (IF n = Len(s) THEN n - m ELSE n + 1 - m)
               /\ \A i \in 1..Len(rows \o At(s, n)) : (rows \o At(s, n))[i] = s[m + i]
    BY DEF WithSeam
<1>1. Len(s) \in Nat /\ AList(rows) /\ Len(rows) = n - m
    BY ListLaws DEF IsPart
<1>2. CASE n = Len(s)
  <2>1. At(s, n) = <<>>
    BY <1>2 DEF At
  <2>2. PICK S : rows \in Seq(S)
    BY <1>1 DEF AList
  <2>3. rows \o <<>> = rows
    BY <2>2, ConcatEmptySeq
  <2> QED
    BY <1>1, <1>2, <2>1, <2>3 DEF IsPart
<1>3. CASE n # Len(s)
  <2>1. At(s, n) = <<s[n + 1]>>
    BY <1>3 DEF At
  <2>2. AList(<<s[n + 1]>>) /\ Len(<<s[n + 1]>>) = 1 /\ <<s[n + 1]>>[1] = s[n + 1]
    BY OneList
  <2> DEFINE b == <<s[n + 1]>>
  <2>3. AList(b) /\ Len(b) = 1 /\ b[1] = s[n + 1] /\ At(s, n) = b
    BY <2>1, <2>2
  <2> HIDE DEF b
  <2>4. /\ AList(rows \o b) /\ Len(rows \o b) = Len(rows) + Len(b)
        /\ \A i \in 1..Len(rows) : (rows \o b)[i] = rows[i]
        /\ \A i \in 1..Len(b) : (rows \o b)[Len(rows) + i] = b[i]
    <3>1. AList(rows) /\ AList(b)
      BY <1>1, <2>3
    <3> QED
      BY ONLY <3>1, JoinList
  <2>5. Len(rows \o b) = n + 1 - m
    BY <1>1, <2>3, <2>4
  <2>6. (rows \o b)[n - m + 1] = s[n + 1]
    BY <1>1, <2>3, <2>4
  <2>7. \A i \in 1..(n - m) : (rows \o b)[i] = s[m + i]
    BY <1>1, <2>4 DEF IsPart
  <2>8. ASSUME NEW i \in 1..(n + 1 - m) PROVE (rows \o b)[i] = s[m + i]
    <3>1. CASE i = n - m + 1
      <4>1. m + i = n + 1
        BY <3>1
      <4> QED
        BY <3>1, <4>1, <2>6
    <3>2. CASE i # n - m + 1
      <4>1. i \in 1..(n - m)
        BY <3>2
      <4> QED
        BY <4>1, <2>7
    <3> QED
      BY <3>1, <3>2
  <2> QED
    BY <1>3, <2>3, <2>4, <2>5, <2>8
<1> QED
    BY <1>2, <1>3

\* The breaks of a range whose upper seam is closed.
LEMMA InRange ==
    ASSUME NEW s, NEW rows, NEW m \in Nat, NEW n \in Nat, m < n, n <= Len(s), AList(s),
           IsPart(rows, s, m, n), NEW x
    PROVE  x \in verifyChainRange(rows, At(s, n)) <=>
             \/ \E i \in (m + 1)..n : x \in EntryBreaks(s[i])
             \/ \E i \in (m + 2)..(IF n = Len(s) THEN n ELSE n + 1) : x \in LinkBreaks(s[i - 1], s[i])
<1> DEFINE seam == rows \o At(s, n)
           top == IF n = Len(s) THEN n ELSE n + 1
<1>1. Len(s) \in Nat /\ DOMAIN rows = 1..(n - m) /\ top \in Nat /\ top > m
    BY ListLaws DEF IsPart
<1>2. Len(seam) = top - m /\ \A i \in 1..(top - m) : seam[i] = s[m + i]
  <2>1. /\ Len(seam) = (IF n = Len(s) THEN n - m ELSE n + 1 - m)
        /\ \A i \in 1..Len(seam) : seam[i] = s[m + i]
    <3>1. WithSeam(rows \o At(s, n), s, m, n)
      BY PartOfRange, Zenon
    <3>2. WithSeam(seam, s, m, n)
      BY <3>1
    <3> HIDE DEF seam
    <3> QED
      BY <3>2 DEF WithSeam
  <2> HIDE DEF seam
  <2>2. Len(seam) = top - m
    BY <2>1, <1>1
  <2> QED
    BY <2>1, <2>2
<1>3. x \in verifyChainRange(rows, At(s, n)) <=>
        \/ \E i \in DOMAIN rows : x \in EntryBreaks(rows[i])
        \/ \E i \in 2..Len(seam) : x \in LinkBreaks(seam[i - 1], seam[i])
  <2> DEFINE A == {EntryBreaks(rows[i]) : i \in DOMAIN rows}
             B == {LinkBreaks(seam[i - 1], seam[i]) : i \in 2..Len(seam)}
  <2>1. verifyChainRange(rows, At(s, n)) = (UNION A) \union (UNION B)
    BY DEF verifyChainRange
  <2>2. (\E a \in A : x \in a) <=> \E i \in DOMAIN rows : x \in EntryBreaks(rows[i])
    BY Zenon
  <2>3. (\E b \in B : x \in b) <=> \E i \in 2..Len(seam) : x \in LinkBreaks(seam[i - 1], seam[i])
    BY Zenon
  <2> HIDE DEF A, B
  <2>4. x \in (UNION A) \union (UNION B) <=> (\E a \in A : x \in a) \/ (\E b \in B : x \in b)
    OBVIOUS
  <2> QED
    BY <2>1, <2>2, <2>3, <2>4
<1> HIDE DEF seam, top
<1>4. (\E i \in DOMAIN rows : x \in EntryBreaks(rows[i])) <=> \E i \in (m + 1)..n : x \in EntryBreaks(s[i])
  <2>1. ASSUME NEW i \in 1..(n - m), x \in EntryBreaks(rows[i])
        PROVE  \E j \in (m + 1)..n : x \in EntryBreaks(s[j])
    <3>1. m + i \in (m + 1)..n /\ rows[i] = s[m + i]
      BY DEF IsPart
    <3> QED
      BY <3>1, <2>1
  <2>2. ASSUME NEW j \in (m + 1)..n, x \in EntryBreaks(s[j])
        PROVE  \E i \in 1..(n - m) : x \in EntryBreaks(rows[i])
    <3>1. j - m \in 1..(n - m) /\ m + (j - m) = j
      OBVIOUS
    <3>2. rows[j - m] = s[j]
      BY <3>1 DEF IsPart
    <3> QED
      BY <3>1, <3>2, <2>2
  <2> QED
    BY <2>1, <2>2, <1>1
<1>5. (\E i \in 2..Len(seam) : x \in LinkBreaks(seam[i - 1], seam[i]))
        <=> \E i \in (m + 2)..top : x \in LinkBreaks(s[i - 1], s[i])
  <2>1. ASSUME NEW i \in 2..(top - m), x \in LinkBreaks(seam[i - 1], seam[i])
        PROVE  \E j \in (m + 2)..top : x \in LinkBreaks(s[j - 1], s[j])
    <3>1. /\ m + i \in (m + 2)..top /\ (m + i) - 1 = m + (i - 1) /\ i \in 1..(top - m)
          /\ i - 1 \in 1..(top - m)
      BY <1>1
    <3>2. seam[i] = s[m + i] /\ seam[i - 1] = s[(m + i) - 1]
      BY <3>1, <1>2
    <3> QED
      BY <3>1, <3>2, <2>1
  <2>2. ASSUME NEW j \in (m + 2)..top, x \in LinkBreaks(s[j - 1], s[j])
        PROVE  \E i \in 2..(top - m) : x \in LinkBreaks(seam[i - 1], seam[i])
    <3>1. /\ j - m \in 2..(top - m) /\ j - m \in 1..(top - m) /\ (j - m) - 1 \in 1..(top - m)
          /\ m + (j - m) = j /\ m + ((j - m) - 1) = j - 1
      BY <1>1
    <3>2. seam[j - m] = s[j] /\ seam[(j - m) - 1] = s[j - 1]
      BY <3>1, <1>2
    <3> QED
      BY <3>1, <3>2, <2>2
  <2> QED
    BY <2>1, <2>2, <1>2
<1> QED
    BY <1>3, <1>4, <1>5 DEF top

\* The breaks of everything above a position, one by one.
LEMMA InBreaks ==
    ASSUME NEW s, NEW n, NEW x
    PROVE  x \in BreaksAbove(s, n) <=>
             \/ \E i \in (n + 1)..Len(s) : x \in EntryBreaks(s[i])
             \/ \E i \in (n + 2)..Len(s) : x \in LinkBreaks(s[i - 1], s[i])
<1> DEFINE A == {EntryBreaks(s[i]) : i \in (n + 1)..Len(s)}
           B == {LinkBreaks(s[i - 1], s[i]) : i \in (n + 2)..Len(s)}
<1>1. BreaksAbove(s, n) = (UNION A) \union (UNION B)
    BY DEF BreaksAbove
<1>2. (\E a \in A : x \in a) <=> \E i \in (n + 1)..Len(s) : x \in EntryBreaks(s[i])
    BY Zenon
<1>3. (\E b \in B : x \in b) <=> \E i \in (n + 2)..Len(s) : x \in LinkBreaks(s[i - 1], s[i])
    BY Zenon
<1> HIDE DEF A, B
<1>4. x \in (UNION A) \union (UNION B) <=> (\E a \in A : x \in a) \/ (\E b \in B : x \in b)
    OBVIOUS
<1> QED
    BY <1>1, <1>2, <1>3, <1>4

\* A range extends the breaks seen so far to those above its oldest row.
LEMMA BreaksJoin ==
    ASSUME NEW s, NEW rows, NEW m \in Nat, NEW n \in Nat, m < n, n <= Len(s), AList(s),
           IsPart(rows, s, m, n)
    PROVE  BreaksAbove(s, n) \union verifyChainRange(rows, At(s, n)) = BreaksAbove(s, m)
<1>1. Len(s) \in Nat
    BY ListLaws
<1>2. ASSUME NEW x
      PROVE  (x \in BreaksAbove(s, n) \/ x \in verifyChainRange(rows, At(s, n))) <=> x \in BreaksAbove(s, m)
  <2> DEFINE top == IF n = Len(s) THEN n ELSE n + 1
             E(i) == x \in EntryBreaks(s[i])
             L(i) == x \in LinkBreaks(s[i - 1], s[i])
  <2>1. x \in BreaksAbove(s, n) <=> (\E i \in (n + 1)..Len(s) : E(i)) \/ (\E i \in (n + 2)..Len(s) : L(i))
    BY InBreaks
  <2>2. x \in BreaksAbove(s, m) <=> (\E i \in (m + 1)..Len(s) : E(i)) \/ (\E i \in (m + 2)..Len(s) : L(i))
    BY InBreaks
  <2>3. x \in verifyChainRange(rows, At(s, n)) <=> (\E i \in (m + 1)..n : E(i)) \/ (\E i \in (m + 2)..top : L(i))
    BY InRange
  <2> HIDE DEF E, L
  <2>4. (\E i \in (m + 1)..Len(s) : E(i)) <=> (\E i \in (n + 1)..Len(s) : E(i)) \/ (\E i \in (m + 1)..n : E(i))
    BY <1>1
  <2>5. (\E i \in (m + 2)..Len(s) : L(i)) <=> (\E i \in (n + 2)..Len(s) : L(i)) \/ (\E i \in (m + 2)..top : L(i))
    BY <1>1
  <2> QED
    BY <2>1, <2>2, <2>3, <2>4, <2>5
<1> QED
    BY <1>2

\* A closer is written after the row it refers to, and ids only grow.
LEMMA RowsFacts ==
    ASSUME NEW s, ChainRows(s)
    PROVE  /\ AList(s) /\ Len(s) \in Nat /\ DOMAIN s = 1..Len(s)
           /\ \A i \in 1..Len(s) : s[i].id \in Nat /\ s[i].ref \in Nat /\ s[i].ref < s[i].id
           /\ \A i, j \in 1..Len(s) : s[i].id = s[j].id => i = j
           /\ \A i, j \in 1..Len(s) : s[i].ref = s[j].id => j < i
<1>1. /\ AList(s) /\ Len(s) \in Nat /\ DOMAIN s = 1..Len(s)
    BY ListLaws DEF ChainRows
<1>2. \A i \in 1..Len(s) : s[i].id \in Nat /\ s[i].ref \in Nat /\ s[i].ref < s[i].id
    BY DEF ChainRows, ChainRow
<1>3. ASSUME NEW i \in 1..Len(s), NEW j \in 1..Len(s)
      PROVE  (s[i].id = s[j].id => i = j) /\ (s[i].ref = s[j].id => j < i)
  <2>1. (i < j => s[i].id < s[j].id) /\ (j < i => s[j].id < s[i].id)
    BY DEF ChainRows
  <2>2. i < j \/ i = j \/ j < i
    BY <1>1
  <2> QED
    BY <2>1, <2>2, <1>2
<1> QED
    BY <1>1, <1>2, <1>3

\* With the closers carried down, a range finds every closer of its rows.
LEMMA ClosersJoin ==
    ASSUME NEW s, NEW rows, NEW m \in Nat, NEW n \in Nat, m < n, n <= Len(s), ChainRows(s),
           IsPart(rows, s, m, n), NEW i \in 1..(n - m)
    PROVE  ClosersOf(rows, i, CarryAbove(s, n)) = ClosersAt(s, m + i)
<1> DEFINE p == m + i
<1>1. /\ AList(s) /\ Len(s) \in Nat
      /\ \A a \in 1..Len(s) : s[a].id \in Nat /\ s[a].ref \in Nat /\ s[a].ref < s[a].id
      /\ \A a, b \in 1..Len(s) : s[a].id = s[b].id => a = b
    BY RowsFacts
<1>2. p \in 1..n /\ rows[i] = s[p] /\ Len(rows) = n - m /\ p \in 1..Len(s)
    BY <1>1 DEF IsPart
<1>3. ASSUME NEW c, c \in ClosersAt(s, p) PROVE c \in ClosersOf(rows, i, CarryAbove(s, n))
  <2>1. PICK j \in (p + 1)..Len(s) : c = s[j] /\ s[j].ref = s[p].id
    BY <1>3 DEF ClosersAt
  <2>2. CASE j <= n
    <3>1. j - m \in (i + 1)..Len(rows) /\ j - m \in 1..(n - m) /\ m + (j - m) = j
      <4>1. /\ m \in Nat /\ n \in Nat /\ i \in 1..(n - m) /\ Len(s) \in Nat
            /\ j \in (m + i + 1)..Len(s) /\ j <= n /\ Len(rows) = n - m
        BY <1>1, <1>2, <2>2
      <4> QED
        BY ONLY <4>1
    <3>2. c = rows[j - m]
      BY <3>1, <2>1 DEF IsPart
    <3> QED
      BY <3>1, <3>2, <2>1, <1>2 DEF ClosersOf
  <2>3. CASE j > n
    <3>1. j \in (n + 1)..Len(s) /\ j \in 1..Len(s)
      BY <1>1, <1>2, <2>1, <2>3
    <3>2. s[j].ref # NoRef
      BY <1>1, <1>2, <2>1 DEF NoRef
    <3>3. ASSUME NEW k \in (n + 1)..Len(s) PROVE s[k].id # s[j].ref
      <4>1. k \in 1..Len(s) /\ k # p
        <5>1. n \in Nat /\ Len(s) \in Nat /\ p \in 1..n /\ k \in (n + 1)..Len(s)
          BY <1>1, <1>2
        <5> HIDE DEF p
        <5> QED
          BY ONLY <5>1
      <4> QED
        BY <4>1, <1>1, <1>2, <2>1
    <3>4. c \in CarryAbove(s, n)
      BY <3>1, <3>2, <3>3, <2>1 DEF CarryAbove
    <3> QED
      BY <3>4, <2>1, <1>2 DEF ClosersOf
  <2> QED
    BY <1>1, <2>2, <2>3
<1>4. ASSUME NEW c, c \in ClosersOf(rows, i, CarryAbove(s, n)) PROVE c \in ClosersAt(s, p)
  <2>1. c.ref = s[p].id /\ (c \in CarryAbove(s, n) \/ c \in {rows[j] : j \in (i + 1)..Len(rows)})
    BY <1>4, <1>2 DEF ClosersOf
  <2>2. CASE c \in CarryAbove(s, n)
    <3>1. PICK j \in (n + 1)..Len(s) : c = s[j]
      BY <2>2 DEF CarryAbove
    <3>2. j \in (p + 1)..Len(s)
      BY <1>1, <1>2, <3>1
    <3> QED
      BY <3>1, <3>2, <2>1 DEF ClosersAt
  <2>3. CASE c \in {rows[j] : j \in (i + 1)..Len(rows)}
    <3>1. PICK j \in (i + 1)..Len(rows) : c = rows[j]
      BY <2>3
    <3>2. j \in 1..(n - m) /\ m + j \in (p + 1)..Len(s)
      BY <1>1, <1>2, <3>1
    <3>3. c = s[m + j]
      BY <3>1, <3>2 DEF IsPart
    <3> QED
      BY <3>2, <3>3, <2>1 DEF ClosersAt
  <2> QED
    BY <2>1, <2>2, <2>3
<1> QED
    BY <1>3, <1>4

\* The decisions found conflicted or unresolved, range by range.
LEMMA OwedJoin ==
    ASSUME NEW s, NEW rows, NEW m \in Nat, NEW n \in Nat, m < n, n <= Len(s), ChainRows(s),
           IsPart(rows, s, m, n)
    PROVE  /\ ConflictedAbove(s, n) \union Conflicted(rows, CarryAbove(s, n)) = ConflictedAbove(s, m)
           /\ UnresolvedAbove(s, n) \union Unresolved(rows, CarryAbove(s, n)) = UnresolvedAbove(s, m)
<1> DEFINE C(j) == owesCloser(s[j]) /\ Cardinality(ClosersAt(s, j)) >= 2
           U(j) == owesCloser(s[j]) /\ ClosersAt(s, j) = {}
<1>1. Len(s) \in Nat /\ DOMAIN rows = 1..(n - m)
    BY RowsFacts, ListLaws DEF IsPart
<1>2. ASSUME NEW j \in 1..(n - m)
      PROVE  /\ rows[j] = s[m + j] /\ m + j \in (m + 1)..n
             /\ (owesCloser(rows[j]) /\ Cardinality(ClosersOf(rows, j, CarryAbove(s, n))) >= 2) <=> C(m + j)
             /\ (owesCloser(rows[j]) /\ ClosersOf(rows, j, CarryAbove(s, n)) = {}) <=> U(m + j)
  <2>1. rows[j] = s[m + j] /\ m + j \in (m + 1)..n
    BY <1>1 DEF IsPart
  <2>2. ClosersOf(rows, j, CarryAbove(s, n)) = ClosersAt(s, m + j)
    BY ClosersJoin
  <2> QED
    BY <2>1, <2>2
<1>3. ASSUME NEW j \in (m + 1)..n PROVE j - m \in 1..(n - m) /\ m + (j - m) = j
    OBVIOUS
<1>4. /\ ConflictedAbove(s, n) = {s[i].id : i \in {j \in (n + 1)..Len(s) : C(j)}}
      /\ ConflictedAbove(s, m) = {s[i].id : i \in {j \in (m + 1)..Len(s) : C(j)}}
      /\ UnresolvedAbove(s, n) = {s[i].id : i \in {j \in (n + 1)..Len(s) : U(j)}}
      /\ UnresolvedAbove(s, m) = {s[i].id : i \in {j \in (m + 1)..Len(s) : U(j)}}
    BY DEF ConflictedAbove, UnresolvedAbove
<1> HIDE DEF C, U
<1>5. ASSUME NEW x
      PROVE  /\ x \in Conflicted(rows, CarryAbove(s, n)) <=> \E j \in (m + 1)..n : C(j) /\ x = s[j].id
             /\ x \in Unresolved(rows, CarryAbove(s, n)) <=> \E j \in (m + 1)..n : U(j) /\ x = s[j].id
  <2>1. x \in Conflicted(rows, CarryAbove(s, n)) <=>
          \E j \in 1..(n - m) : /\ owesCloser(rows[j]) /\ Cardinality(ClosersOf(rows, j, CarryAbove(s, n))) >= 2
                                /\ x = rows[j].id
    BY <1>1 DEF Conflicted
  <2>2. x \in Unresolved(rows, CarryAbove(s, n)) <=>
          \E j \in 1..(n - m) : /\ owesCloser(rows[j]) /\ ClosersOf(rows, j, CarryAbove(s, n)) = {}
                                /\ x = rows[j].id
    BY <1>1 DEF Unresolved
  <2>3. (\E j \in 1..(n - m) : C(m + j) /\ x = s[m + j].id) <=> \E j \in (m + 1)..n : C(j) /\ x = s[j].id
    BY <1>2, <1>3
  <2>4. (\E j \in 1..(n - m) : U(m + j) /\ x = s[m + j].id) <=> \E j \in (m + 1)..n : U(j) /\ x = s[j].id
    BY <1>2, <1>3
  <2> QED
    BY <2>1, <2>2, <2>3, <2>4, <1>2
<1>6. \A j : j \in (m + 1)..Len(s) <=> j \in (m + 1)..n \/ j \in (n + 1)..Len(s)
    BY <1>1
<1>7. ASSUME NEW x
      PROVE  (x \in ConflictedAbove(s, n) \/ x \in Conflicted(rows, CarryAbove(s, n))) <=> x \in ConflictedAbove(s, m)
    BY <1>4, <1>5, <1>6
<1>8. ASSUME NEW x
      PROVE  (x \in UnresolvedAbove(s, n) \/ x \in Unresolved(rows, CarryAbove(s, n))) <=> x \in UnresolvedAbove(s, m)
    BY <1>4, <1>5, <1>6
<1> QED
    BY <1>7, <1>8

\* The same, for the conflicted ones.
LEMMA ConflictedJoin ==
    ASSUME NEW s, NEW rows, NEW m \in Nat, NEW n \in Nat, m < n, n <= Len(s), ChainRows(s),
           IsPart(rows, s, m, n)
    PROVE  ConflictedAbove(s, n) \union Conflicted(rows, CarryAbove(s, n)) = ConflictedAbove(s, m)
BY OwedJoin

\* The same, for the unresolved ones.
LEMMA UnresolvedJoin ==
    ASSUME NEW s, NEW rows, NEW m \in Nat, NEW n \in Nat, m < n, n <= Len(s), ChainRows(s),
           IsPart(rows, s, m, n)
    PROVE  UnresolvedAbove(s, n) \union Unresolved(rows, CarryAbove(s, n)) = UnresolvedAbove(s, m)
BY OwedJoin

\* What a range carries down is what everything above its oldest row would.
LEMMA CarryJoin ==
    ASSUME NEW s, NEW rows, NEW m \in Nat, NEW n \in Nat, m < n, n <= Len(s), ChainRows(s),
           IsPart(rows, s, m, n)
    PROVE  CarriedDown(rows, CarryAbove(s, n)) = CarryAbove(s, m)
<1>1. /\ AList(s) /\ Len(s) \in Nat /\ DOMAIN rows = 1..(n - m)
      /\ \A a, b \in 1..Len(s) : s[a].ref = s[b].id => b < a
    BY RowsFacts, ListLaws DEF IsPart
<1>2. \A j \in 1..(n - m) : rows[j] = s[m + j] /\ m + j \in (m + 1)..n /\ m + j \in (m + 1)..Len(s) /\ m + j \in 1..Len(s)
    BY <1>1 DEF IsPart
<1>3. \A j \in (m + 1)..n : j - m \in 1..(n - m) /\ rows[j - m] = s[j] /\ j \in 1..Len(s)
  <2> TAKE j \in (m + 1)..n
  <2>1. j - m \in 1..(n - m) /\ m + (j - m) = j /\ j \in 1..Len(s)
    BY <1>1
  <2> QED
    BY <2>1, <1>2
<1>4. \A j : j \in (m + 1)..Len(s) <=> j \in (m + 1)..n \/ j \in (n + 1)..Len(s)
    BY <1>1
<1>5. ASSUME NEW c, c \in CarriedDown(rows, CarryAbove(s, n)) PROVE c \in CarryAbove(s, m)
  <2>1. CASE c \in CarryAbove(s, n) /\ \A i \in DOMAIN rows : rows[i].id # c.ref
    <3>1. PICK j \in (n + 1)..Len(s) : c = s[j] /\ s[j].ref # NoRef /\ \A k \in (n + 1)..Len(s) : s[k].id # s[j].ref
      BY <2>1 DEF CarryAbove
    <3>2. \A k \in (m + 1)..n : s[k].id # s[j].ref
      BY <3>1, <2>1, <1>1, <1>3
    <3> QED
      BY <3>1, <3>2, <1>4 DEF CarryAbove
  <2>2. CASE c \in {rows[i] : i \in {j \in DOMAIN rows :
                rows[j].ref # NoRef /\ \A k \in 1..(j - 1) : rows[k].id # rows[j].ref}}
    <3>1. PICK j \in 1..(n - m) : c = rows[j] /\ rows[j].ref # NoRef /\ \A k \in 1..(j - 1) : rows[k].id # rows[j].ref
      BY <2>2, <1>1
    <3>2. c = s[m + j] /\ m + j \in (m + 1)..Len(s) /\ s[m + j].ref # NoRef /\ m + j \in 1..Len(s)
      BY <3>1, <1>2
    <3>3. ASSUME NEW k \in (m + 1)..Len(s) PROVE s[k].id # s[m + j].ref
      <4>1. SUFFICES ASSUME s[m + j].ref = s[k].id PROVE FALSE
        OBVIOUS
      <4>2. k \in 1..Len(s)
        BY <1>1
      <4>3. k < m + j
        BY <4>1, <4>2, <3>2, <1>1
      <4>4. k - m \in 1..(j - 1) /\ k \in (m + 1)..n
        BY <4>3, <1>1
      <4>5. rows[k - m] = s[k]
        BY <4>4, <1>3
      <4> QED
        BY <4>1, <4>4, <4>5, <3>1, <3>2
    <3> QED
      BY <3>2, <3>3 DEF CarryAbove
  <2> QED
    BY <1>5, <2>1, <2>2 DEF CarriedDown
<1>6. ASSUME NEW c, c \in CarryAbove(s, m) PROVE c \in CarriedDown(rows, CarryAbove(s, n))
  <2>1. PICK j \in (m + 1)..Len(s) : c = s[j] /\ s[j].ref # NoRef /\ \A k \in (m + 1)..Len(s) : s[k].id # s[j].ref
    BY <1>6 DEF CarryAbove
  <2>2. CASE j \in (n + 1)..Len(s)
    <3>1. c \in CarryAbove(s, n)
      BY <2>1, <2>2, <1>4 DEF CarryAbove
    <3>2. \A i \in DOMAIN rows : rows[i].id # c.ref
      BY <2>1, <1>1, <1>2
    <3> QED
      BY <3>1, <3>2 DEF CarriedDown
  <2>3. CASE j \in (m + 1)..n
    <3>1. j - m \in DOMAIN rows /\ c = rows[j - m] /\ rows[j - m].ref # NoRef
      BY <2>1, <2>3, <1>1, <1>3
    <3>2. ASSUME NEW k \in 1..((j - m) - 1) PROVE rows[k].id # rows[j - m].ref
      <4>1. k \in 1..(n - m)
        BY <1>1, <2>3
      <4> QED
        BY <4>1, <1>2, <1>3, <2>1, <2>3
    <3> QED
      BY <3>1, <3>2 DEF CarriedDown
  <2> QED
    BY <2>1, <2>2, <2>3, <1>4
<1> QED
    BY <1>5, <1>6

\* Above the newest row there is nothing to find.
LEMMA NothingAbove ==
    ASSUME NEW s, AList(s)
    PROVE  /\ BreaksAbove(s, Len(s)) = {} /\ ConflictedAbove(s, Len(s)) = {}
           /\ UnresolvedAbove(s, Len(s)) = {} /\ CarryAbove(s, Len(s)) = {}
<1>1. Len(s) \in Nat
    BY ListLaws
<1>2. (Len(s) + 1)..Len(s) = {} /\ (Len(s) + 2)..Len(s) = {}
    BY <1>1
<1>3. BreaksAbove(s, Len(s)) = {}
    BY <1>2, InBreaks
<1> QED
    BY <1>2, <1>3 DEF ConflictedAbove, UnresolvedAbove, CarryAbove

\* The greatest of a set of positions.
LEMMA MaxIs ==
    ASSUME NEW S, NEW n \in S, \A i \in S : i \in Nat /\ i <= n
    PROVE  Max(S) = n
<1>1. \A y \in S : n >= y
    OBVIOUS
<1>2. \A x \in S : (\A y \in S : x >= y) => x = n
    OBVIOUS
<1> QED
    BY <1>1, <1>2 DEF Max

\* A row with a key of the index.
Keyed(r) == r.epoch \in Nat /\ r.seq \in Nat

\* The order of the index is transitive.
LEMMA BelowTrans ==
    ASSUME NEW r, NEW s, NEW t, Keyed(r), Keyed(s), Keyed(t), Below(r, s), Below(s, t)
    PROVE  Below(r, t)
<1> DEFINE re == r.epoch
           se == s.epoch
           te == t.epoch
           rq == r.seq
           sq == s.seq
           tq == t.seq
<1>1. re \in Nat /\ se \in Nat /\ te \in Nat /\ rq \in Nat /\ sq \in Nat /\ tq \in Nat
    BY DEF Keyed
<1>2. (re < se \/ (re = se /\ rq < sq)) /\ (se < te \/ (se = te /\ sq < tq))
    BY DEF Below
<1>3. SUFFICES re < te \/ (re = te /\ rq < tq)
    BY DEF Below
<1> HIDE DEF re, se, te, rq, sq, tq
<1> QED
    BY <1>1, <1>2

\* A hash is never the null link.
LEMMA HashNotNull ==
    ASSUME NEW r
    PROVE  computeEntryHash(r) # Null
<1>1. Len(computeEntryHash(r)) = 6
    BY DEF computeEntryHash
<1> QED
    BY <1>1, EmptyList DEF Null

\* insertRow appends: its row sorts above every stored row and follows the newest.
Appended(row) ==
    /\ ChainRow(row) /\ row.id = written + 1 /\ row.hash = computeEntryHash(row)
    /\ Len(log) = 0 => Opens(row)
    /\ Len(log) > 0 => Follows(log[Len(log)], row)
    /\ \A i \in 1..Len(log) : Below(log[i], row)
    /\ log' = InsertAt(log, Len(log) + 1, row)

\* insertRow appends, because no epoch it derives is older than the newest one.
LEMMA InsertAppends ==
    ASSUME LogInv, ChainAssumption, NEW kind, NEW ref \in Nat, NEW today \in Days, ref <= written,
           insertRow(kind, ref, today)
    PROVE  written' = written + 1 /\ \E row : Appended(row) /\ row.ref = ref
<1> DEFINE epoch  == deriveMonotonicEpochId(today)
           inEp   == {i \in DOMAIN log : log[i].epoch = epoch}
           opens  == inEp = {}
           latest == log[Max(inEp)]
           fields == [id |-> written + 1, epoch |-> epoch, kind |-> kind, ref |-> ref,
                      seq |-> IF opens THEN 0 ELSE latest.seq + 1,
                      prev |-> IF opens THEN GENESIS_SENTINEL ELSE latest.hash,
                      eprev |-> IF opens /\ log # <<>> THEN Last(log).hash ELSE Null,
                      hash |-> Null]
           row    == [fields EXCEPT !.hash = computeEntryHash(fields)]
<1>1. log' = InsertAt(log, Rank(row) + 1, row) /\ written' = written + 1
    BY DEF insertRow
<1>2. /\ AList(log) /\ Len(log) \in Nat /\ DOMAIN log = 1..Len(log) /\ (Len(log) = 0 <=> log = <<>>)
      /\ \A i \in 1..Len(log) : log[i].epoch \in Days /\ log[i].epoch \in Nat /\ log[i].seq \in Nat
      /\ today \in Nat /\ written \in Nat
  <2>1. AList(log) /\ Days \subseteq Nat /\ written \in Nat
    BY DEF LogInv, ChainRows, ChainAssumption
  <2>2. \A i \in 1..Len(log) : log[i].epoch \in Days /\ log[i].seq \in Nat
    BY DEF LogInv, ChainRows, ChainRow
  <2> QED
    BY <2>1, <2>2, ListLaws
<1>3. \A i \in 1..Len(log) : i < Len(log) => Below(log[i], log[Len(log)])
    BY <1>2 DEF LogInv, ChainRows
<1>4. /\ epoch \in Days /\ epoch \in Nat
      /\ Len(log) > 0 => log[Len(log)].epoch <= epoch
    BY <1>2 DEF deriveMonotonicEpochId, Last
<1>5. \A i \in 1..Len(log) : log[i].epoch <= log[Len(log)].epoch
    BY <1>2, <1>3 DEF Below
<1>6. opens => \A i \in 1..Len(log) : log[i].epoch < epoch
  <2> SUFFICES ASSUME opens, NEW i \in 1..Len(log) PROVE log[i].epoch < epoch
    OBVIOUS
  <2>1. log[i].epoch # epoch /\ Len(log) > 0 /\ Len(log) \in 1..Len(log)
    BY <1>2
  <2>2. log[i].epoch <= log[Len(log)].epoch /\ log[Len(log)].epoch <= epoch
    BY <2>1, <1>4, <1>5
  <2>3. log[i].epoch \in Nat /\ log[Len(log)].epoch \in Nat /\ epoch \in Nat
    BY <2>1, <1>2, <1>4
  <2> DEFINE a == log[i].epoch
             b == log[Len(log)].epoch
  <2>4. a # epoch /\ a <= b /\ b <= epoch /\ a \in Nat /\ b \in Nat /\ epoch \in Nat
    BY <2>1, <2>2, <2>3
  <2> HIDE DEF epoch, a, b
  <2>5. a < epoch
    BY ONLY <2>4
  <2> QED
    BY ONLY <2>5 DEF a
<1>7. ASSUME ~opens
      PROVE  Len(log) > 0 /\ log[Len(log)].epoch = epoch /\ latest = log[Len(log)]
  <2>1. PICK i \in 1..Len(log) : log[i].epoch = epoch
    BY <1>7, <1>2
  <2>2. Len(log) > 0 /\ Len(log) \in 1..Len(log)
    BY <2>1, <1>2
  <2>3. log[Len(log)].epoch = epoch
    BY <2>1, <2>2, <1>2, <1>4, <1>5
  <2>4. Len(log) \in inEp /\ \A k \in inEp : k \in Nat /\ k <= Len(log)
    BY <2>2, <2>3, <1>2
  <2>5. Max(inEp) = Len(log)
    <3> HIDE DEF inEp
    <3> QED
      BY <2>4, MaxIs
  <2> QED
    BY <2>2, <2>3, <2>5
<1> HIDE DEF epoch, opens, latest
<1>8. /\ row.id = written + 1 /\ row.epoch = epoch /\ row.kind = kind /\ row.ref = ref
      /\ row.seq = (IF opens THEN 0 ELSE latest.seq + 1)
      /\ row.prev = (IF opens THEN GENESIS_SENTINEL ELSE latest.hash)
      /\ row.eprev = (IF opens /\ log # <<>> THEN Last(log).hash ELSE Null)
      /\ row.hash = computeEntryHash(fields)
    OBVIOUS
<1>9. computeEntryHash(row) = computeEntryHash(fields)
    BY DEF computeEntryHash
<1>10. DOMAIN row = RowFields
    BY DEF RowFields
<1> HIDE DEF fields, row
<1>11. ChainRow(row)
    BY <1>2, <1>4, <1>7, <1>8, <1>10 DEF ChainRow
<1>12. \A i \in 1..Len(log) : Below(log[i], row)
  <2> TAKE i \in 1..Len(log)
  <2>1. CASE opens
    BY <2>1, <1>6, <1>8 DEF Below
  <2>2. CASE ~opens
    <3>1. Below(log[Len(log)], row)
      <4> DEFINE p == log[Len(log)]
                 q == p.seq
      <4>1. q \in Nat /\ row.epoch = p.epoch /\ row.seq = q + 1
        <5>1. Len(log) \in 1..Len(log)
          BY <2>2, <1>2, <1>7
        <5> QED
          BY <5>1, <2>2, <1>2, <1>7, <1>8
      <4> HIDE DEF q
      <4>2. q < q + 1
        BY ONLY <4>1
      <4> QED
        BY <4>1, <4>2 DEF Below, q
    <3>2. i < Len(log) => Below(log[i], log[Len(log)])
      BY <1>3
    <3>3. Len(log) \in 1..Len(log) /\ i <= Len(log) /\ row.epoch \in Nat /\ row.seq \in Nat
      BY <1>2, <1>4, <1>7, <1>8, <1>11, <2>2 DEF ChainRow
    <3>4. CASE i < Len(log)
      <4>1. Below(log[i], log[Len(log)])
        BY <3>2, <3>4
      <4>2. /\ log[i].epoch \in Nat /\ log[i].seq \in Nat /\ log[Len(log)].epoch \in Nat
            /\ log[Len(log)].seq \in Nat
        BY <3>3, <1>2
      <4> QED
        BY <3>1, <3>3, <4>1, <4>2, BelowTrans DEF Keyed
    <3>5. CASE i = Len(log)
      BY <3>1, <3>5
    <3>6. i < Len(log) \/ i = Len(log)
      <4>1. i \in 1..Len(log) /\ Len(log) \in Nat
        BY <1>2
      <4> QED
        BY ONLY <4>1
    <3> QED
      BY ONLY <3>4, <3>5, <3>6
  <2> QED
    BY <2>1, <2>2
<1>13. Rank(row) = Len(log)
  <2> DEFINE S == {0} \union {i \in DOMAIN log : Below(log[i], row)}
  <2>1. Len(log) \in S /\ \A i \in S : i \in Nat /\ i <= Len(log)
    BY <1>2, <1>12
  <2>2. Max(S) = Len(log)
    <3> HIDE DEF S
    <3> QED
      BY <2>1, MaxIs
  <2> QED
    BY <2>2 DEF Rank
<1>14. Len(log) = 0 => Opens(row)
    BY <1>2, <1>7, <1>8 DEF Opens
<1>15. Len(log) > 0 => Follows(log[Len(log)], row)
    BY <1>2, <1>4, <1>6, <1>7, <1>8 DEF Follows, Last
<1> QED
    BY <1>1, <1>8, <1>9, <1>11, <1>12, <1>13, <1>14, <1>15 DEF Appended

\* The rows stay in the order of ids and of the index.
LEMMA AppendedRows ==
    ASSUME LogInv, NEW row, Appended(row)
    PROVE  /\ ChainRows(log') /\ Len(log') = Len(log) + 1
           /\ \A i \in 1..Len(log) : log'[i] = log[i]
           /\ log'[Len(log) + 1] = row
<1>1. /\ AList(log) /\ Len(log) \in Nat
    BY ListLaws DEF LogInv, ChainRows
<1>2. /\ AList(log') /\ Len(log') = Len(log) + 1
      /\ \A i \in 1..Len(log) : log'[i] = log[i]
      /\ log'[Len(log) + 1] = row
    BY <1>1, AddList DEF Appended
<1>3. \A i \in 1..Len(log') : i \in 1..Len(log) \/ i = Len(log) + 1
    BY <1>1, <1>2
<1>4. \A i \in 1..Len(log') : ChainRow(log'[i])
    BY <1>2, <1>3 DEF Appended, LogInv, ChainRows
<1>5. ASSUME NEW i \in 1..Len(log'), NEW j \in 1..Len(log'), i < j
      PROVE  log'[i].id < log'[j].id /\ Below(log'[i], log'[j])
  <2>1. i \in 1..Len(log)
    BY <1>1, <1>2, <1>5
  <2>2. CASE j \in 1..Len(log)
    BY <2>1, <2>2, <1>2, <1>5 DEF LogInv, ChainRows
  <2>3. CASE j = Len(log) + 1
    <3>1. log'[i] = log[i] /\ log'[j] = row
      BY <2>1, <2>3, <1>2
    <3>2. log[i].id \in Nat /\ log[i].id <= written /\ row.id = written + 1 /\ written \in Nat
      BY <2>1 DEF LogInv, ChainRows, ChainRow, Appended
    <3> QED
      BY <3>1, <3>2, <2>1 DEF Appended
  <2> QED
    BY <1>3, <2>2, <2>3
<1> QED
    BY <1>2, <1>4, <1>5 DEF ChainRows

\* An undamaged row breaks nothing, and only the first one is genesis-shaped.
LEMMA CleanLinks ==
    ASSUME NEW s, ChainRows(s), Clean(s), NEW i \in 1..Len(s)
    PROVE  /\ EntryBreaks(s[i]) = {}
           /\ i > 1 => LinkBreaks(s[i - 1], s[i]) = {} /\ ~GenesisShaped(s[i])
<1>1. Len(s) \in Nat /\ s[i].seq \in Nat
    BY RowsFacts DEF ChainRows, ChainRow
<1>2. CASE i = 1
  <2>1. Opens(s[i]) /\ s[i].hash = computeEntryHash(s[i])
    BY <1>1, <1>2 DEF Clean
  <2>2. EntryBreaks(s[i]) = {}
    BY <2>1 DEF EntryBreaks, Opens
  <2> QED
    BY <2>2, <1>2
<1>3. CASE i > 1
  <2> DEFINE p == s[i - 1]
             r == s[i]
  <2>1. i - 1 \in 1..Len(s) /\ i \in 2..Len(s)
    BY <1>1, <1>3
  <2>2. /\ Follows(p, r) /\ r.hash = computeEntryHash(r) /\ p.hash = computeEntryHash(p)
        /\ p.seq \in Nat /\ r.seq \in Nat
    BY <2>1 DEF Clean, ChainRows, ChainRow
  <2>3. p.hash # Null
    BY <2>2, HashNotNull
  <2> HIDE DEF p, r
  <2>4. r.seq = 0 => r.prev = GENESIS_SENTINEL /\ r.epoch # p.epoch /\ r.eprev = p.hash
    BY <2>2 DEF Follows
  <2>5. EntryBreaks(r) = {}
    BY <2>2, <2>4 DEF EntryBreaks
  <2>6. ~GenesisShaped(r)
    BY <2>3, <2>4 DEF GenesisShaped
  <2>7. LinkBreaks(p, r) = {}
    <3>1. CASE r.epoch = p.epoch
      <4>1. r.prev = p.hash /\ p.epoch = r.epoch
        BY <3>1, <2>2 DEF Follows
      <4> QED
        BY <4>1 DEF LinkBreaks
    <3>2. CASE r.epoch # p.epoch
      <4>1. r.seq = 0 /\ r.eprev = p.hash /\ r.eprev # Null /\ p.epoch # r.epoch
        BY <3>2, <2>2, <2>3 DEF Follows
      <4> QED
        BY <4>1 DEF LinkBreaks
    <3> QED
      BY <3>1, <3>2
  <2> QED
    BY <2>5, <2>6, <2>7 DEF p, r
<1> QED
    BY <1>1, <1>2, <1>3

\* An undamaged list has no break, and only its oldest row looks like the oldest.
LEMMA CleanIsWhole ==
    ASSUME NEW s, ChainRows(s), Clean(s), NEW n \in 0..Len(s)
    PROVE  /\ BreaksAbove(s, n) = {}
           /\ \A i \in 1..Len(s) : GenesisShaped(s[i]) => i = 1
<1>1. Len(s) \in Nat
    BY RowsFacts
<1>2. ASSUME NEW x PROVE x \notin BreaksAbove(s, n)
  <2>1. ASSUME NEW i \in (n + 1)..Len(s) PROVE EntryBreaks(s[i]) = {}
    <3>1. i \in 1..Len(s)
      BY <1>1
    <3> QED
      BY <3>1, CleanLinks
  <2>2. ASSUME NEW i \in (n + 2)..Len(s) PROVE LinkBreaks(s[i - 1], s[i]) = {}
    <3>1. i \in 1..Len(s) /\ i > 1
      BY <1>1
    <3> QED
      BY <3>1, CleanLinks
  <2> QED
    BY <2>1, <2>2, InBreaks
<1>3. \A i \in 1..Len(s) : GenesisShaped(s[i]) => i = 1
    BY <1>1, CleanLinks
<1> QED
    BY <1>2, <1>3

\* A row written after a damage leaves its break in place.
LEMMA MarksAppend ==
    ASSUME LogInv, NEW row, Appended(row)
    PROVE  Marks(log', harms)
<1>1. /\ ChainRows(log') /\ Len(log') = Len(log) + 1
      /\ \A i \in 1..Len(log) : log'[i] = log[i]
      /\ log'[Len(log) + 1] = row
    BY AppendedRows
<1>2. ChainRows(log) /\ Len(log) \in Nat /\ Marks(log, harms)
    BY RowsFacts DEF LogInv
<1>3. ASSUME Clean(log) PROVE Clean(log')
  <2>1. Opens(log'[1])
    BY <1>1, <1>2, <1>3 DEF Clean, Appended
  <2>2. ASSUME NEW i \in 1..Len(log') PROVE log'[i].hash = computeEntryHash(log'[i])
    <3>1. CASE i \in 1..Len(log)
      BY <3>1, <1>1, <1>3 DEF Clean
    <3>2. CASE i = Len(log) + 1
      BY <3>2, <1>1 DEF Appended
    <3> QED
      BY <3>1, <3>2, <1>1, <1>2
  <2>3. ASSUME NEW i \in 2..Len(log') PROVE Follows(log'[i - 1], log'[i])
    <3>1. CASE i \in 2..Len(log)
      <4>1. i \in 1..Len(log) /\ i - 1 \in 1..Len(log)
        BY <3>1, <1>2
      <4> QED
        BY <4>1, <3>1, <1>1, <1>3 DEF Clean
    <3>2. CASE i = Len(log) + 1
      <4>1. i - 1 = Len(log) /\ Len(log) \in 1..Len(log) /\ Len(log) > 0
        BY <3>2, <1>2
      <4> QED
        BY <4>1, <3>2, <1>1 DEF Appended
    <3> QED
      BY <3>1, <3>2, <1>1, <1>2
  <2> QED
    BY <2>1, <2>2, <2>3 DEF Clean
<1>4. ASSUME Scarred(log) PROVE Scarred(log')
  <2>1. Len(log') > 0 /\ log'[1] = log[1]
    BY <1>1, <1>2, <1>4 DEF Scarred
  <2>2. ASSUME NEW x, x \in BreaksAbove(log, 0) PROVE x \in BreaksAbove(log', 0)
    <3>1. \/ \E i \in 1..Len(log) : x \in EntryBreaks(log[i])
          \/ \E i \in 2..Len(log) : x \in LinkBreaks(log[i - 1], log[i])
      BY <2>2, InBreaks
    <3>2. \A i \in 1..Len(log) : i \in 1..Len(log') /\ log'[i] = log[i]
      BY <1>1, <1>2
    <3>3. \A i \in 2..Len(log) : i \in 2..Len(log') /\ log'[i] = log[i] /\ log'[i - 1] = log[i - 1]
      BY <1>1, <1>2
    <3>4. \/ \E i \in (0 + 1)..Len(log') : x \in EntryBreaks(log'[i])
          \/ \E i \in (0 + 2)..Len(log') : x \in LinkBreaks(log'[i - 1], log'[i])
      BY <3>1, <3>2, <3>3
    <3> DEFINE l == log'
    <3>5. \/ \E i \in (0 + 1)..Len(l) : x \in EntryBreaks(l[i])
          \/ \E i \in (0 + 2)..Len(l) : x \in LinkBreaks(l[i - 1], l[i])
      BY <3>4
    <3> HIDE DEF l
    <3>6. x \in BreaksAbove(l, 0)
      BY <3>5, InBreaks
    <3> QED
      BY <3>6 DEF l
  <2> QED
    BY <2>1, <2>2, <1>4 DEF Scarred
<1> QED
    BY <1>2, <1>3, <1>4 DEF Marks

\* A row changed in place keeps its key and its id.
LEMMA PutRows ==
    ASSUME NEW s, ChainRows(s), NEW k \in 1..Len(s), NEW e, ChainRow(e),
           e.id = s[k].id, e.epoch = s[k].epoch, e.seq = s[k].seq
    PROVE  ChainRows([s EXCEPT ![k] = e])
<1> DEFINE t == [s EXCEPT ![k] = e]
<1>1. AList(s) /\ Len(s) \in Nat
    BY RowsFacts
<1>2. AList(t) /\ Len(t) = Len(s) /\ t[k] = e /\ \A j \in 1..Len(s) : j # k => t[j] = s[j]
    BY <1>1, PutList
<1> HIDE DEF t
<1>3. \A j \in 1..Len(s) : ChainRow(t[j]) /\ t[j].id = s[j].id /\ t[j].epoch = s[j].epoch /\ t[j].seq = s[j].seq
    BY <1>2 DEF ChainRows
<1>4. ASSUME NEW i \in 1..Len(s), NEW j \in 1..Len(s), i < j
      PROVE  t[i].id < t[j].id /\ Below(t[i], t[j])
  <2>1. s[i].id < s[j].id /\ Below(s[i], s[j])
    BY <1>4 DEF ChainRows
  <2> QED
    BY <2>1, <1>3 DEF Below
<1>5. ChainRows(t)
    BY <1>2, <1>3, <1>4 DEF ChainRows
<1> QED
    BY <1>5 DEF t

\* A lost row leaves a link that does not close, or a first row that is no genesis.
LEMMA LostRow ==
    ASSUME ChainAssumption, NEW s, ChainRows(s), NEW k \in 1..(Len(s) - 1)
    PROVE  /\ ChainRows(RemoveAt(s, k))
           /\ \A i \in 1..Len(RemoveAt(s, k)) : \E j \in 1..Len(s) : RemoveAt(s, k)[i] = s[j]
           /\ Clean(s) => Scarred(RemoveAt(s, k))
<1> DEFINE t == RemoveAt(s, k)
<1>1. AList(s) /\ Len(s) \in Nat /\ k \in 1..Len(s)
    BY RowsFacts
<1>2. /\ AList(t) /\ Len(t) = Len(s) - 1
      /\ \A i \in 1..(k - 1) : t[i] = s[i]
      /\ \A i \in k..(Len(s) - 1) : t[i] = s[i + 1]
    BY <1>1, DropList
<1> HIDE DEF t
<1> DEFINE f(i) == IF i < k THEN i ELSE i + 1
<1>3. ASSUME NEW i \in 1..Len(t) PROVE f(i) \in 1..Len(s) /\ t[i] = s[f(i)]
  <2>1. CASE i < k
    <3>1. i \in 1..(k - 1) /\ i \in 1..Len(s)
      BY <1>1, <1>2, <2>1
    <3> QED
      BY <3>1, <2>1, <1>2
  <2>2. CASE ~(i < k)
    <3>1. i \in k..(Len(s) - 1) /\ i + 1 \in 1..Len(s)
      BY <1>1, <1>2, <2>2
    <3> QED
      BY <3>1, <2>2, <1>2
  <2> QED
    BY <2>1, <2>2
<1>4. \A i, j \in 1..Len(t) : i < j => f(i) < f(j)
    BY <1>1, <1>2
<1> HIDE DEF f
<1>5. ChainRows(t)
    BY <1>2, <1>3, <1>4 DEF ChainRows
<1>6. ASSUME Clean(s) PROVE Scarred(t)
  <2>1. Len(t) > 0
    BY <1>1, <1>2
  <2>2. CASE k = 1
    <3>1. t[1] = s[2] /\ 2 \in 1..Len(s)
      BY <2>2, <1>1, <1>2
    <3>2. ~GenesisShaped(s[2])
      BY <3>1, <1>6, CleanLinks
    <3> QED
      BY <3>1, <3>2, <2>1 DEF Scarred
  <2>3. CASE k > 1
    <3> DEFINE p == s[k - 1]
               q == s[k]
               r == s[k + 1]
    <3>1. t[k - 1] = p /\ t[k] = r /\ k \in (0 + 2)..Len(t)
      <4>1. k - 1 \in 1..(k - 1) /\ k \in k..(Len(s) - 1)
        BY <2>3, <1>1
      <4>2. t[k - 1] = s[k - 1] /\ t[k] = s[k + 1]
        BY <4>1, <1>2
      <4>3. k \in (0 + 2)..Len(t)
        BY <2>3, <1>1, <1>2
      <4> QED
        BY <4>2, <4>3
    <3>2. /\ Follows(p, q) /\ Follows(q, r)
      <4>1. k \in 2..Len(s) /\ k + 1 \in 2..Len(s) /\ (k + 1) - 1 = k
        BY <2>3, <1>1
      <4> QED
        BY <4>1, <1>6 DEF Clean
    <3>3. /\ p.hash = computeEntryHash(p) /\ q.hash = computeEntryHash(q)
          /\ p.seq \in Nat /\ q.seq \in Nat /\ r.seq \in Nat /\ p.epoch \in Days
          /\ q.epoch \in Days /\ r.epoch \in Days
          /\ p.id # q.id
      <4>1. k - 1 \in 1..Len(s) /\ k + 1 \in 1..Len(s) /\ k - 1 # k
        BY <2>3, <1>1
      <4>2. p.id # q.id
        BY <4>1, <1>1, RowsFacts
      <4> QED
        BY <4>1, <4>2, <1>1, <1>6 DEF Clean, ChainRows, ChainRow
    <3>4. Below(p, q) /\ Below(q, r)
      <4>1. /\ k - 1 \in 1..Len(s) /\ k \in 1..Len(s) /\ k + 1 \in 1..Len(s)
            /\ k - 1 < k /\ k < k + 1
        BY <2>3, <1>1
      <4> QED
        BY <4>1 DEF ChainRows
    <3> HIDE DEF p, q, r
    <3>5. p.hash # q.hash
      BY <3>3 DEF computeEntryHash
    <3>6. LinkBreaks(p, r) # {}
      <4>1. CASE r.epoch = q.epoch
        <5>1. r.seq # 0 /\ r.prev # p.hash
          BY <4>1, <3>2, <3>3, <3>5 DEF Follows
        <5>2. CASE p.epoch = r.epoch
          BY <5>1, <5>2 DEF LinkBreaks
        <5>3. CASE p.epoch # r.epoch
          BY <5>1, <5>3 DEF LinkBreaks
        <5> QED
          BY <5>2, <5>3
      <4>2. CASE r.epoch # q.epoch
        <5>1. r.seq = 0 /\ r.eprev = q.hash /\ r.eprev # p.hash /\ r.eprev # Null
          BY <4>2, <3>2, <3>3, <3>5, HashNotNull DEF Follows
        <5>2. p.epoch # r.epoch
          <6>1. Keyed(p) /\ Keyed(q) /\ Keyed(r)
            BY <3>3 DEF Keyed, ChainAssumption
          <6> QED
            BY <6>1, <3>4, <4>2 DEF Below, Keyed
        <5> QED
          BY <5>1, <5>2 DEF LinkBreaks
      <4> QED
        BY <4>1, <4>2
    <3>7. PICK x : x \in LinkBreaks(p, r)
      BY <3>6
    <3>8. x \in BreaksAbove(t, 0)
      BY <3>1, <3>7, InBreaks
    <3> QED
      BY <3>8, <2>1 DEF Scarred
  <2> QED
    BY <2>2, <2>3, <1>1
<1> QED
    BY <1>3, <1>5, <1>6 DEF t

\* An altered row no longer has the hash it stores.
LEMMA AlteredRow ==
    ASSUME NEW s, ChainRows(s), NEW k \in 1..Len(s), NEW kind, kind # s[k].kind
    PROVE  LET t == [s EXCEPT ![k].kind = kind]
           IN  /\ ChainRows(t) /\ Len(t) = Len(s) /\ \A i \in 1..Len(s) : t[i].id = s[i].id
               /\ Clean(s) => Scarred(t)
<1> DEFINE e == [s[k] EXCEPT !.kind = kind]
           t == [s EXCEPT ![k] = e]
<1>1. AList(s) /\ Len(s) \in Nat /\ DOMAIN s[k] = RowFields /\ ChainRow(s[k])
    BY RowsFacts DEF ChainRows, ChainRow
<1>2. /\ e.id = s[k].id /\ e.epoch = s[k].epoch /\ e.seq = s[k].seq /\ e.ref = s[k].ref
      /\ e.kind = kind /\ e.hash = s[k].hash /\ DOMAIN e = RowFields
    BY <1>1 DEF RowFields
<1> HIDE DEF e
<1>3. ChainRow(e)
    BY <1>1, <1>2 DEF ChainRow
<1>4. ChainRows(t)
    BY <1>2, <1>3, PutRows
<1>5. AList(t) /\ Len(t) = Len(s) /\ t[k] = e /\ \A j \in 1..Len(s) : j # k => t[j] = s[j]
    BY <1>1, PutList
<1> HIDE DEF t
<1>6. \A i \in 1..Len(s) : t[i].id = s[i].id
    BY <1>2, <1>5
<1>7. ASSUME Clean(s) PROVE Scarred(t)
  <2>1. s[k].hash = computeEntryHash(s[k])
    BY <1>7 DEF Clean
  <2>2. computeEntryHash(e) # e.hash
    BY <2>1, <1>2 DEF computeEntryHash
  <2>3. Break("entry_hash", e) \in EntryBreaks(e)
    BY <2>2 DEF EntryBreaks
  <2>4. Break("entry_hash", e) \in BreaksAbove(t, 0)
    BY <2>3, <1>1, <1>5, InBreaks
  <2> QED
    BY <2>4, <1>1, <1>5 DEF Scarred
<1> QED
    BY <1>4, <1>5, <1>6, <1>7 DEF t, e

\* A cross-epoch link that is gone is a break.
LEMMA UnlinkedRow ==
    ASSUME NEW s, ChainRows(s), NEW k \in 1..Len(s), s[k].eprev # Null
    PROVE  LET t == [s EXCEPT ![k].eprev = Null]
           IN  /\ ChainRows(t) /\ Len(t) = Len(s) /\ \A i \in 1..Len(s) : t[i].id = s[i].id
               /\ Clean(s) => Scarred(t)
<1> DEFINE e == [s[k] EXCEPT !.eprev = Null]
           t == [s EXCEPT ![k] = e]
<1>1. AList(s) /\ Len(s) \in Nat /\ DOMAIN s[k] = RowFields /\ ChainRow(s[k])
    BY RowsFacts DEF ChainRows, ChainRow
<1>2. /\ e.id = s[k].id /\ e.epoch = s[k].epoch /\ e.seq = s[k].seq /\ e.ref = s[k].ref
      /\ e.eprev = Null /\ DOMAIN e = RowFields
    BY <1>1 DEF RowFields
<1> HIDE DEF e
<1>3. ChainRow(e)
    BY <1>1, <1>2 DEF ChainRow
<1>4. ChainRows(t)
    BY <1>2, <1>3, PutRows
<1>5. AList(t) /\ Len(t) = Len(s) /\ t[k] = e /\ \A j \in 1..Len(s) : j # k => t[j] = s[j]
    BY <1>1, PutList
<1> HIDE DEF t
<1>6. \A i \in 1..Len(s) : t[i].id = s[i].id
    BY <1>2, <1>5
<1>7. ASSUME Clean(s) PROVE Scarred(t)
  <2>1. k > 1 /\ Len(s) > 0
    BY <1>1, <1>7 DEF Clean, Opens
  <2>2. k \in (0 + 2)..Len(t) /\ k - 1 \in 1..Len(s) /\ k - 1 # k
    BY <2>1, <1>1, <1>5
  <2>3. Follows(s[k - 1], s[k]) /\ t[k - 1] = s[k - 1]
    BY <2>2, <1>5, <1>7 DEF Clean
  <2>4. s[k].epoch # s[k - 1].epoch /\ s[k].seq = 0
    BY <2>3 DEF Follows
  <2>5. Break("epoch_link_null", e) \in LinkBreaks(s[k - 1], e)
    <3> DEFINE p == s[k - 1]
    <3>1. p.epoch # e.epoch /\ e.seq = 0 /\ e.eprev = Null
      BY <2>4, <1>2
    <3> HIDE DEF p
    <3>2. LinkBreaks(p, e) = {Break("epoch_link_null", e)}
      BY <3>1 DEF LinkBreaks
    <3> QED
      BY <3>2 DEF p
  <2>6. Break("epoch_link_null", e) \in BreaksAbove(t, 0)
    BY <2>2, <2>3, <2>5, <1>5, InBreaks
  <2> QED
    BY <2>1, <2>6, <1>5 DEF Scarred
<1> QED
    BY <1>4, <1>5, <1>6, <1>7 DEF t, e

\* Positions are ordered as the keys of their rows.
LEMMA OrderedRows ==
    ASSUME ChainAssumption, NEW s, ChainRows(s), NEW i \in 1..Len(s), NEW j \in 1..Len(s)
    PROVE  Below(s[i], s[j]) <=> i < j
<1>1. Len(s) \in Nat /\ Keyed(s[i]) /\ Keyed(s[j])
    BY RowsFacts DEF ChainRows, ChainRow, Keyed, ChainAssumption
<1>2. (i < j => Below(s[i], s[j])) /\ (j < i => Below(s[j], s[i]))
    BY DEF ChainRows
<1>3. ASSUME NEW r, NEW t, Keyed(r), Keyed(t), Below(r, t) PROVE ~Below(t, r) /\ r # t
  <2> DEFINE re == r.epoch
             te == t.epoch
             rq == r.seq
             tq == t.seq
  <2>1. /\ re \in Nat /\ te \in Nat /\ rq \in Nat /\ tq \in Nat
        /\ re < te \/ (re = te /\ rq < tq)
    BY <1>3 DEF Below, Keyed
  <2>2. Below(t, r) <=> (te < re \/ (te = re /\ tq < rq))
    BY DEF Below
  <2>3. re # te \/ rq # tq => r # t
    OBVIOUS
  <2> HIDE DEF re, te, rq, tq
  <2> QED
    BY <2>1, <2>2, <2>3
<1>4. i < j \/ i = j \/ j < i
    BY <1>1
<1> QED
    BY <1>1, <1>2, <1>3, <1>4

\* As many rows sort below a stored row as stand before it.
LEMMA RankOfRow ==
    ASSUME ChainAssumption, ChainRows(log), NEW k \in 1..Len(log)
    PROVE  Rank(log[k]) = k - 1
<1> DEFINE S == {0} \union {i \in DOMAIN log : Below(log[i], log[k])}
<1>1. Len(log) \in Nat /\ DOMAIN log = 1..Len(log)
    BY RowsFacts
<1>2. \A i \in 1..Len(log) : Below(log[i], log[k]) <=> i < k
    BY OrderedRows
<1>3. k - 1 \in S /\ \A i \in S : i \in Nat /\ i <= k - 1
    BY <1>1, <1>2
<1>4. Max(S) = k - 1
  <2> HIDE DEF S
  <2> QED
    BY <1>3, MaxIs
<1> QED
    BY <1>4 DEF Rank

\* What a page holds: the rows from m + 1 up to the cursor.
LEMMA PageIs ==
    ASSUME ChainAssumption, ChainRows(log), NEW cursor, NEW left \in 0..Len(log),
           left = IF cursor = <<>> THEN Len(log) ELSE Rank(cursor[1])
    PROVE  /\ left = 0 => Page(cursor) = <<>>
           /\ left > 0 => /\ Page(cursor) # <<>>
                          /\ \E m \in Nat : m < left /\ IsPart(Page(cursor), log, m, left)
<1> DEFINE a == IF left <= PageSize THEN 1 ELSE left - PageSize + 1
<1>1. AList(log) /\ Len(log) \in Nat /\ PageSize \in Nat \ {0}
    BY RowsFacts DEF ChainAssumption
<1>2. Page(cursor) = SubSeq(log, a, left)
    BY DEF Page
<1>3. a \in Nat /\ 1 <= a /\ a <= left + 1 /\ left \in Nat /\ left <= Len(log) /\ (left > 0 => a <= left)
  <2>1. left \in Nat /\ left <= Len(log) /\ PageSize \in Nat /\ PageSize # 0
    BY <1>1
  <2>2. CASE left <= PageSize
    BY ONLY <2>1, <2>2
  <2>3. CASE ~(left <= PageSize)
    BY ONLY <2>1, <2>3
  <2> QED
    BY ONLY <2>2, <2>3
<1> HIDE DEF a
<1>4. /\ AList(SubSeq(log, a, left)) /\ Len(SubSeq(log, a, left)) = left + 1 - a
      /\ \A i \in 1..(left + 1 - a) : SubSeq(log, a, left)[i] = log[a + i - 1]
  <2>1. AList(log) /\ a \in Nat /\ left \in Nat /\ 1 <= a /\ a <= left + 1 /\ left <= Len(log)
    BY <1>1, <1>3
  <2> QED
    BY ONLY <2>1, PartList
<1> DEFINE page == Page(cursor)
<1>10. /\ AList(page) /\ Len(page) = left + 1 - a
       /\ \A i \in 1..(left + 1 - a) : page[i] = log[a + i - 1]
    BY <1>2, <1>4
<1> HIDE DEF page
<1>5. CASE left = 0
  <2>1. Len(page) = 0
    BY <1>3, <1>5, <1>10
  <2>2. page = <<>>
    BY <2>1, <1>10, ListLaws
  <2> QED
    BY <2>2, <1>5 DEF page
<1>6. CASE left > 0
  <2>1. Len(page) > 0
    BY <1>3, <1>6, <1>10
  <2>2. page # <<>>
    BY <2>1, EmptyList
  <2>3. a - 1 \in Nat /\ a - 1 < left /\ left - (a - 1) = left + 1 - a
    BY <1>3, <1>6
  <2>4. \A i \in 1..(left + 1 - a) : a + i - 1 = (a - 1) + i
    BY <1>3
  <2>5. IsPart(page, log, a - 1, left)
    BY <1>10, <2>3, <2>4 DEF IsPart
  <2> QED
    BY <1>6, <2>2, <2>3, <2>5 DEF page
<1> QED
    BY <1>3, <1>5, <1>6

\* The log as the walk's first page found it, and how much of it is read.
Base == IF walk.begun THEN walk.of ELSE log
Done == IF walk.mode = "dump" THEN Len(file.lines) ELSE walk.read
Due == Len(Base) - Done

\* Where a running wire walk stands in the log its first page found.
LEMMA Standing ==
    ASSUME ChainInv, Walking, walk.mode \in {"verify", "dump"}
    PROVE  /\ ChainRows(Base) /\ Prefix(Base, log) /\ Done \in Nat /\ Due \in 0..Len(Base)
           /\ walk.last = At(Base, Due)
           /\ walk.begun => Done > 0 /\ Due > 0
           /\ ~walk.begun => Done = 0 /\ Due = Len(log) /\ Base = log
<1>1. /\ WalkOK(walk, harms) /\ FileOK(file, harms) /\ ChainRows(log) /\ Running(walk)
      /\ WireOK(walk, file, log) /\ walk.begun \in BOOLEAN
    BY DEF ChainInv, LogInv, Walking, Running, WalkOK, WalkShape
<1>2. Len(log) \in Nat /\ Len(walk.of) \in Nat /\ walk.read \in Nat /\ Len(file.lines) \in Nat
    BY <1>1, RowsFacts, ListLaws DEF WalkOK, FileOK, WalkShape
<1>3. CASE walk.begun /\ walk.mode = "verify"
  <2>1. Base = walk.of /\ Done = walk.read
    BY <1>3 DEF Base, Done
  <2>2. /\ VerifyOK(walk, log) /\ ChainRows(walk.of)
        /\ walk.last = At(walk.of, Len(walk.of) - walk.read)
    BY <1>1, <1>3 DEF WireOK, WalkOK
  <2> QED
    BY <1>2, <1>3, <2>1, <2>2 DEF VerifyOK, Due
<1>4. CASE walk.begun /\ walk.mode = "dump"
  <2>1. Base = walk.of /\ Done = Len(file.lines)
    BY <1>4 DEF Base, Done
  <2>2. DumpOK(walk, file, log) /\ ChainRows(walk.of)
    BY <1>1, <1>4 DEF WireOK, WalkOK
  <2>3. /\ Prefix(walk.of, log) /\ 0 < Len(file.lines) /\ Len(file.lines) < Len(walk.of)
        /\ walk.last = At(walk.of, Len(walk.of) - Len(file.lines))
    BY <1>4, <2>2 DEF DumpOK
  <2> QED
    <3>1. Due = Len(walk.of) - Len(file.lines)
      BY <2>1 DEF Due
    <3>2. Due \in 0..Len(walk.of) /\ Due > 0 /\ Done > 0 /\ Done \in Nat
      <4> DEFINE a == Len(walk.of)
                 b == Len(file.lines)
      <4>1. a \in Nat /\ b \in Nat /\ 0 < b /\ b < a /\ Due = a - b /\ Done = b
        BY <3>1, <2>1, <2>3, <1>2
      <4>2. SUFFICES Due \in 0..a /\ Due > 0 /\ Done > 0 /\ Done \in Nat
        OBVIOUS
      <4> HIDE DEF a, b
      <4> QED
        BY <4>1
    <3>3. walk.last = At(walk.of, Due)
      BY <3>1, <2>3
    <3> QED
      BY <3>2, <3>3, <2>1, <2>2, <2>3, <1>4
<1>5. CASE ~walk.begun
  <2>1. Base = log /\ Done = 0
    <3>1. walk.read = 0
      BY <1>1, <1>5 DEF WalkOK
    <3>2. walk.mode = "dump" => file = NoFile
      BY <1>1, <1>5 DEF WireOK, DumpOK
    <3>3. Len(NoFile.lines) = 0
      BY EmptyList DEF NoFile
    <3> QED
      BY <1>5, <3>1, <3>2, <3>3 DEF Base, Done
  <2>2. walk.last = <<>>
    BY <1>1, <1>5 DEF WalkOK
  <2>3. Due = Len(log) /\ walk.last = At(log, Len(log))
    BY <1>2, <2>1, <2>2 DEF Due, At
  <2>4. Prefix(log, log)
    BY <1>2 DEF Prefix
  <2> QED
    BY <1>1, <1>2, <1>5, <2>1, <2>3, <2>4
<1> QED
    BY <1>1, <1>3, <1>4, <1>5

\* The page it is served next, unless the cursor stalls, joins what it has read.
LEMMA PageServed ==
    ASSUME ChainAssumption, ChainInv, Walking, walk.mode \in {"verify", "dump"},
           NEW cursor \in {walk.last, <<>>}
    PROVE  /\ Page(cursor) = <<>> => ~walk.begun /\ Len(log) = 0
           /\ /\ Page(cursor) # <<>>
              /\ walk.last # <<>> => Below(Last(Page(cursor)), walk.last[1])
              => \E m \in Nat : /\ m < Due /\ IsPart(Page(cursor), Base, m, Due)
                                /\ HasMore(Page(cursor)) <=> m > 0
<1> DEFINE left == IF cursor = <<>> THEN Len(log) ELSE Rank(cursor[1])
           page == Page(cursor)
<1>1. /\ ChainRows(Base) /\ Prefix(Base, log) /\ Done \in Nat /\ Due \in 0..Len(Base)
      /\ walk.last = At(Base, Due)
      /\ walk.begun => Done > 0 /\ Due > 0
      /\ ~walk.begun => Done = 0 /\ Due = Len(log) /\ Base = log
    BY Standing
<1>2. /\ ChainRows(log) /\ AList(log) /\ Len(log) \in Nat /\ DOMAIN log = 1..Len(log)
      /\ Len(Base) \in Nat
      /\ Len(Base) <= Len(log) /\ walk.begun \in BOOLEAN
    BY <1>1, RowsFacts DEF ChainInv, LogInv, Prefix, WalkOK, WalkShape
<1>3. walk.begun => /\ Due < Len(Base) /\ Due + 1 \in 1..Len(Base) /\ Due + 1 \in 1..Len(log)
                    /\ Base[Due + 1] = log[Due + 1]
                    /\ walk.last = <<log[Due + 1]>> /\ walk.last # <<>>
                    /\ walk.last[1] = log[Due + 1]
  <2> SUFFICES ASSUME walk.begun
               PROVE  /\ Due < Len(Base) /\ Due + 1 \in 1..Len(Base) /\ Due + 1 \in 1..Len(log)
                      /\ Base[Due + 1] = log[Due + 1]
                      /\ walk.last = <<log[Due + 1]>> /\ walk.last # <<>>
                      /\ walk.last[1] = log[Due + 1]
    OBVIOUS
  <2>1. Due < Len(Base)
    BY <1>1, <1>2 DEF Due
  <2>2. Due + 1 \in 1..Len(Base) /\ Due + 1 \in 1..Len(log)
    BY <2>1, <1>1, <1>2
  <2>3. Base[Due + 1] = log[Due + 1]
    BY <2>2, <1>1 DEF Prefix
  <2>4. walk.last = <<log[Due + 1]>>
    BY <2>1, <2>3, <1>1, <1>2 DEF At
  <2> QED
    BY <2>1, <2>2, <2>3, <2>4, OneList
<1>4. ~walk.begun => walk.last = <<>> /\ cursor = <<>> /\ left = Due
    BY <1>1, <1>2 DEF At
<1>5. walk.begun /\ cursor # <<>> => left = Due
  <2> SUFFICES ASSUME walk.begun, cursor # <<>> PROVE left = Due
    OBVIOUS
  <2>1. cursor[1] = log[Due + 1] /\ Due + 1 \in 1..Len(log)
    BY <1>3
  <2>2. Rank(log[Due + 1]) = (Due + 1) - 1
    BY <2>1, <1>2, RankOfRow
  <2> QED
    BY <2>1, <2>2, <1>1
<1>6. left \in 0..Len(log) /\ (walk.begun => left > 0)
  <2>1. CASE ~walk.begun
    BY <2>1, <1>1, <1>2, <1>4
  <2>2. CASE walk.begun /\ cursor # <<>>
    BY <2>2, <1>1, <1>2, <1>5
  <2>3. CASE walk.begun /\ cursor = <<>>
    BY <2>3, <1>1, <1>2, <1>3
  <2> QED
    BY <1>2, <2>1, <2>2, <2>3
<1>7. /\ left = 0 => page = <<>>
      /\ left > 0 => page # <<>> /\ \E m \in Nat : m < left /\ IsPart(page, log, m, left)
    BY <1>2, <1>6, PageIs
<1> HIDE DEF left, page
<1>8. page = <<>> => ~walk.begun /\ Len(log) = 0
    BY <1>1, <1>4, <1>6, <1>7
<1>9. ASSUME page # <<>>, walk.last # <<>> => Below(Last(page), walk.last[1])
      PROVE  \E m \in Nat : m < Due /\ IsPart(page, Base, m, Due) /\ (HasMore(page) <=> m > 0)
  <2>1. PICK m \in Nat : m < left /\ IsPart(page, log, m, left)
    BY <1>6, <1>7, <1>9
  <2>2. /\ Len(page) = left - m /\ page[1] = log[m + 1] /\ page[left - m] = log[left]
        /\ left \in 1..Len(log)
    <3>1. /\ 1 \in 1..(left - m) /\ left - m \in 1..(left - m) /\ m + (left - m) = left
          /\ left \in 1..Len(log)
      BY <2>1, <1>2, <1>6
    <3> QED
      BY <3>1, <2>1 DEF IsPart
  <2>3. left = Due
    <3>1. CASE walk.begun /\ cursor = <<>>
      <4>1. left = Len(log) /\ Last(page) = log[Len(log)] /\ Len(log) \in 1..Len(log)
        BY <3>1, <2>2 DEF left, Last
      <4>2. Below(log[Len(log)], log[Due + 1])
        BY <4>1, <3>1, <1>3, <1>9
      <4>3. Len(log) < Due + 1
        BY <4>1, <4>2, <3>1, <1>2, <1>3, OrderedRows
      <4> QED
        BY <4>3, <3>1, <1>1, <1>2, <1>3
    <3> QED
      BY <3>1, <1>2, <1>4, <1>5
  <2>4. IsPart(page, Base, m, Due)
    <3>1. \A i \in 1..(Due - m) : m + i \in 1..Len(Base)
      <4> TAKE i \in 1..(Due - m)
      <4>1. Due \in Nat /\ Due <= Len(Base) /\ m < Due
        BY <2>1, <2>3, <1>1
      <4> QED
        BY <4>1, <1>2
    <3>2. \A i \in 1..(Due - m) : Base[m + i] = log[m + i]
      BY <3>1, <1>1 DEF Prefix
    <3> QED
      BY <3>2, <2>1, <2>3 DEF IsPart
  <2>5. HasMore(page) <=> m > 0
    <3>1. Head(page) = page[1]
      <4>1. PICK S : page \in Seq(S)
        BY <2>1 DEF IsPart, AList
      <4> QED
        BY <4>1, <1>9
    <3>2. Head(page) = log[m + 1] /\ m + 1 \in 1..Len(log)
      BY <3>1, <2>1, <2>2, <1>2, <1>6
    <3>3. \A i \in 1..Len(log) : Below(log[i], log[m + 1]) <=> i < m + 1
      BY <3>2, <1>2, OrderedRows
    <3>4. HasMore(page) <=> \E i \in 1..Len(log) : i < m + 1
      BY <3>2, <3>3, <1>2, <1>9 DEF HasMore
    <3>5. (\E i \in 1..Len(log) : i < m + 1) <=> m > 0
      BY <3>2, <1>2
    <3> QED
      BY <3>4, <3>5
  <2> QED
    BY <2>1, <2>3, <2>4, <2>5
<1> QED
    BY <1>8, <1>9 DEF page

\* A row is never a torn line.
LEMMA RowNotTorn ==
    ASSUME NEW r, ChainRow(r)
    PROVE  r # Torn
<1>2. "id" \in DOMAIN r
    BY DEF ChainRow, RowFields
<1>3. "id" \notin DOMAIN Torn
    BY DEF Torn
<1> QED
    BY <1>2, <1>3

\* A walk that has read no more is as good as before.
LEMMA SameWalk ==
    ASSUME NEW w, NEW v, NEW h, WalkOK(w, h), WalkShape(v), v.of = w.of, v.harmed = w.harmed,
           v.read = w.read, v.breaks = w.breaks, v.conflicted = w.conflicted,
           v.unresolved = w.unresolved, v.carry = w.carry, v.mode = w.mode, v.last = w.last,
           v.begun = w.begun
    PROVE  WalkOK(v, h)
BY DEF WalkOK, Seen

\* The exit codes, and -1 for none.
ExitCodes == {-1, 0, 1, 2, 3, 4, 5, 130}

\* A walk that ends without a verdict of 0.
LEMMA EndedWalk ==
    ASSUME NEW w, NEW h, WalkOK(w, h), NEW st, st # "none", NEW e \in ExitCodes,
           st = "exhausted" /\ w.mode = "verify" => w.read = Len(w.of),
           e = 0 => /\ w.breaks = {}
                    /\ w.mode # "dump" /\ w.last # <<>> => GenesisShaped(w.last[1])
    PROVE  LET v == [w EXCEPT !.stop = st, !.exit = e]
           IN  WalkOK(v, h) /\ EndOK(v) /\ ~Running(v)
<1> DEFINE v == [w EXCEPT !.stop = st, !.exit = e]
<1>1. WalkShape(w)
    BY DEF WalkOK
<1>2. /\ v.of = w.of /\ v.harmed = w.harmed /\ v.stop = st /\ v.exit = e
      /\ v.read = w.read /\ v.breaks = w.breaks /\ v.conflicted = w.conflicted
      /\ v.unresolved = w.unresolved /\ v.carry = w.carry /\ v.mode = w.mode /\ v.last = w.last
      /\ v.begun = w.begun /\ v.pages = w.pages /\ v.aborting = w.aborting
    BY <1>1 DEF WalkShape, WalkFields
<1>3. DOMAIN v = WalkFields
    BY <1>1 DEF WalkShape, WalkFields
<1> HIDE DEF v
<1>4. WalkShape(v)
    BY <1>1, <1>2, <1>3 DEF WalkShape, ExitCodes
<1>5. WalkOK(v, h)
    BY <1>2, <1>4, SameWalk
<1>6. EndOK(v) /\ ~Running(v)
    BY <1>2 DEF EndOK, Running
<1> QED
    BY <1>5, <1>6 DEF v

\* A walk that ends with the verdict ExitCode gives.
LEMMA FinishedWalk ==
    ASSUME NEW w, NEW h, WalkOK(w, h), NEW exhausted \in BOOLEAN,
           NEW st \in {"exhausted", "cursor_stalled", "cancelled", "page_ceiling", "partial_file"},
           st = "exhausted" /\ w.mode = "verify" => w.read = Len(w.of)
    PROVE  LET v == Finished(w, st, exhausted)
           IN  WalkOK(v, h) /\ EndOK(v) /\ ~Running(v)
<1> DEFINE e == ExitCode(w, st, exhausted)
<1>1. e \in {0, 3, 4, 5, 130}
    BY DEF ExitCode
<1>2. e = 0 => /\ w.breaks = {}
               /\ w.mode # "dump" /\ w.last # <<>> => GenesisShaped(w.last[1])
    BY DEF ExitCode
<1> HIDE DEF e
<1>3. e \in ExitCodes /\ st # "none"
    BY <1>1 DEF ExitCodes
<1>4. LET v == [w EXCEPT !.stop = st, !.exit = e] IN WalkOK(v, h) /\ EndOK(v) /\ ~Running(v)
    BY <1>2, <1>3, EndedWalk
<1> QED
    BY <1>4 DEF Finished, e

\* The fields that checking a range leaves alone.
SameCourse(v, w) ==
    /\ v.mode = w.mode /\ v.stop = w.stop /\ v.exit = w.exit /\ v.pages = w.pages
    /\ v.aborting = w.aborting /\ v.begun = w.begun /\ v.of = w.of /\ v.harmed = w.harmed

\* Checking the next range moves the walk down to the range's oldest row.
LEMMA CheckedRange ==
    ASSUME WalkShape(walk), NEW s, ChainRows(s), NEW n \in 0..Len(s), NEW m \in Nat, m < n,
           NEW rows, IsPart(rows, s, m, n), Seen(walk, s, n), walk.last = At(s, n)
    PROVE  LET v == Checked(rows)
           IN  /\ WalkShape(v) /\ SameCourse(v, walk) /\ Seen(v, s, m)
               /\ v.last = At(s, m) /\ v.read = walk.read + (n - m)
<1> DEFINE v == Checked(rows)
<1>1. /\ AList(s) /\ Len(s) \in Nat /\ n \in Nat /\ n <= Len(s) /\ AList(rows)
      /\ Len(rows) = n - m
    BY RowsFacts DEF IsPart
<1>2. SameCourse(v, walk)
    BY DEF Checked, WalkShape, WalkFields, SameCourse
<1>3. /\ v.breaks = walk.breaks \union verifyChainRange(rows, walk.last)
      /\ v.conflicted = walk.conflicted \union Conflicted(rows, walk.carry)
      /\ v.unresolved = walk.unresolved \union Unresolved(rows, walk.carry)
      /\ v.carry = CarriedDown(rows, walk.carry)
      /\ v.last = <<Head(rows)>>
      /\ v.read = walk.read + Len(rows)
    BY DEF Checked, WalkShape, WalkFields
<1>4. DOMAIN v = WalkFields
    BY DEF Checked, WalkShape, WalkFields
<1> HIDE DEF v
<1>5. v.read = walk.read + (n - m) /\ v.read \in Nat
    BY <1>1, <1>3 DEF WalkShape
<1>6. WalkShape(v)
    BY <1>2, <1>4, <1>5 DEF WalkShape, SameCourse
<1>7. Seen(v, s, m)
  <2>1. v.breaks = BreaksAbove(s, m)
    <3>1. BreaksAbove(s, n) \union verifyChainRange(rows, At(s, n)) = BreaksAbove(s, m)
      BY <1>1, BreaksJoin
    <3> QED
      BY <3>1, <1>3 DEF Seen
  <2>2. v.conflicted = ConflictedAbove(s, m) /\ v.unresolved = UnresolvedAbove(s, m)
    <3>1. ConflictedAbove(s, n) \union Conflicted(rows, CarryAbove(s, n)) = ConflictedAbove(s, m)
      BY <1>1, ConflictedJoin
    <3>2. UnresolvedAbove(s, n) \union Unresolved(rows, CarryAbove(s, n)) = UnresolvedAbove(s, m)
      BY <1>1, UnresolvedJoin
    <3> QED
      BY <3>1, <3>2, <1>3 DEF Seen
  <2>3. v.carry = CarryAbove(s, m)
    <3>1. CarriedDown(rows, CarryAbove(s, n)) = CarryAbove(s, m)
      BY <1>1, CarryJoin
    <3> QED
      BY <3>1, <1>3 DEF Seen
  <2> QED
    BY <2>1, <2>2, <2>3 DEF Seen
<1>8. v.last = At(s, m)
  <2>1. rows # <<>>
    BY <1>1, EmptyList
  <2>2. PICK S : rows \in Seq(S)
    BY <1>1 DEF AList
  <2>3. Head(rows) = rows[1]
    BY <2>1, <2>2
  <2>4. rows[1] = s[m + 1]
    BY <1>1 DEF IsPart
  <2>5. At(s, m) = <<s[m + 1]>>
    BY <1>1 DEF At
  <2> QED
    BY <1>3, <2>3, <2>4, <2>5
<1> QED
    BY <1>2, <1>5, <1>6, <1>7, <1>8 DEF v

\* What a walk that read nothing has seen is right for every log.
LEMMA SeenNothing ==
    ASSUME NEW w, NEW h, WalkOK(w, h), w.read = 0, NEW s, AList(s)
    PROVE  Seen(w, s, Len(s))
<1>1. AList(w.of) /\ Len(w.of) \in Nat
    BY RowsFacts DEF WalkOK
<1>2. Seen(w, w.of, Len(w.of))
    BY <1>1 DEF WalkOK
<1> QED
    BY <1>1, <1>2, NothingAbove DEF Seen

\* The log at the start.
LEMMA NothingYet == ChainRows(<<>>) /\ Marks(<<>>, 0)
<1>1. Len(<<>>) = 0 /\ AList(<<>>)
    BY EmptyList
<1>2. 1..0 = {} /\ 2..0 = {}
    OBVIOUS
<1>3. ChainRows(<<>>)
    BY <1>1, <1>2 DEF ChainRows
<1>4. Clean(<<>>)
    BY <1>1, <1>2 DEF Clean
<1> QED
    BY <1>3, <1>4 DEF Marks

\* The walk at the start of a command.
LEMMA IdleIsOK ==
    ASSUME ChainAssumption, NEW mode \in {"none", "verify", "dump", "file"}, NEW h \in Nat
    PROVE  LET v == [IdleWalk EXCEPT !.mode = mode]
           IN  WalkOK(v, h) /\ EndOK(v) /\ v.mode = mode /\ ~v.begun /\ v.read = 0
<1> DEFINE v == [IdleWalk EXCEPT !.mode = mode]
<1>1. /\ v.mode = mode /\ v.stop = "none" /\ v.exit = -1 /\ v.last = <<>> /\ v.carry = {}
      /\ v.breaks = {} /\ v.conflicted = {} /\ v.unresolved = {} /\ v.pages = 0 /\ v.read = 0
      /\ v.aborting = FALSE /\ v.begun = FALSE /\ v.of = <<>> /\ v.harmed = 0
    BY DEF IdleWalk, WalkFields
<1>2. DOMAIN v = WalkFields
    BY DEF IdleWalk, WalkFields
<1> HIDE DEF v
<1>3. WalkShape(v)
  <2>1. 0 \in 0..MaxPages
    BY DEF ChainAssumption
  <2>2. v.aborting \in BOOLEAN /\ v.begun \in BOOLEAN
    BY <1>1, Zenon
  <2>3. v.exit \in {-1, 0, 1, 2, 3, 4, 5, 130} /\ v.pages \in 0..MaxPages /\ v.read \in Nat
    BY <1>1, <2>1
  <2> QED
    BY <1>1, <1>2, <2>2, <2>3, Zenon DEF WalkShape
<1>4. AList(<<>>) /\ Len(<<>>) = 0 /\ ChainRows(<<>>) /\ Marks(<<>>, 0)
    BY EmptyList, NothingYet
<1>5. Seen(v, <<>>, 0)
    BY <1>1, <1>4, NothingAbove DEF Seen
<1>6. At(<<>>, 0) = <<>>
    BY <1>4 DEF At
<1>7. Len(v.of) - v.read = 0 /\ v.read <= Len(v.of) /\ v.harmed <= h
    BY <1>1, <1>4
<1>8. WalkOK(v, h)
    BY <1>1, <1>3, <1>4, <1>5, <1>6, <1>7 DEF WalkOK
<1>9. EndOK(v)
    BY <1>1 DEF EndOK
<1> QED
    BY <1>1, <1>8, <1>9 DEF v

\* The file at the start of a dump.
LEMMA NoFileIsOK ==
    ASSUME NEW h \in Nat
    PROVE  FileOK(NoFile, h)
<1>1. Len(<<>>) = 0 /\ AList(<<>>) /\ ChainRows(<<>>) /\ Marks(<<>>, 0) /\ 1..0 = {}
    BY EmptyList, NothingYet
<1> QED
    BY <1>1 DEF FileOK, NoFile

\* The initial state.
LEMMA ChainStarts ==
    ASSUME ChainAssumption, ChainInit
    PROVE  ChainInv
<1>1. Len(<<>>) = 0 /\ AList(<<>>) /\ ChainRows(<<>>) /\ Marks(<<>>, 0) /\ 1..0 = {}
    BY EmptyList, NothingYet
<1>2. LogInv
    BY <1>1 DEF ChainInit, LogInv, ChainAssumption
<1>3. FileOK(file, harms)
    BY NoFileIsOK DEF ChainInit
<1>4. [IdleWalk EXCEPT !.mode = "none"] = IdleWalk
    BY DEF IdleWalk, WalkFields
<1>5. WalkOK(IdleWalk, 0) /\ EndOK(IdleWalk) /\ IdleWalk.mode = "none"
    BY <1>4, IdleIsOK
<1>6. WireOK(walk, file, log)
    BY <1>5 DEF ChainInit, WireOK, Running
<1> QED
    BY <1>2, <1>3, <1>5, <1>6 DEF ChainInit, ChainInv

\* A step that leaves the command, the file and the number of damages alone.
LEMMA WriteKeeps ==
    ASSUME ChainAssumption, ChainInv, WriteEntry \/ CloseEntry
    PROVE  ChainInv'
<1>1. /\ LogInv /\ written < MaxWrites /\ harms' = harms /\ file' = file /\ walk' = walk
      /\ walks' = walks
    BY DEF ChainInv, WriteEntry, CloseEntry, Writes
<1>2. written \in Nat /\ MaxWrites \in Nat /\ decisions \subseteq 1..written /\ NoRef = 0
    BY <1>1 DEF LogInv, ChainAssumption, NoRef
<1>3. /\ \E kind, ref : \E today \in Days : /\ ref \in Nat /\ ref <= written
                                            /\ insertRow(kind, ref, today)
      /\ decisions' \subseteq decisions \union {written + 1}
  <2>1. CASE WriteEntry
    <3>1. PICK today \in Days, kind \in {"decision", "lifecycle"} :
            /\ insertRow(kind, NoRef, today)
            /\ decisions' = IF kind = "decision" THEN decisions \union {written + 1} ELSE decisions
      BY <2>1 DEF WriteEntry
    <3> QED
      BY <3>1, <1>2
  <2>2. CASE CloseEntry
    <3>1. PICK today \in Days, d \in decisions : insertRow("closer", d, today)
      BY <2>2 DEF CloseEntry
    <3>2. d \in Nat /\ d <= written /\ decisions' = decisions
      BY <3>1, <1>2, <2>2 DEF CloseEntry
    <3> QED
      BY <3>1, <3>2
  <2> QED
    BY <2>1, <2>2
<1>4. PICK row : written' = written + 1 /\ Appended(row)
  <2>1. PICK kind, ref, today : today \in Days /\ ref \in Nat /\ ref <= written /\ insertRow(kind, ref, today)
    BY <1>3
  <2> QED
    BY <1>1, <2>1, InsertAppends
<1>5. /\ ChainRows(log') /\ Len(log') = Len(log) + 1
      /\ \A i \in 1..Len(log) : log'[i] = log[i]
      /\ log'[Len(log) + 1] = row
    BY <1>1, <1>4, AppendedRows
<1>6. Marks(log', harms)
    BY <1>1, <1>4, MarksAppend
<1>7. Len(log) \in Nat
    BY <1>1, RowsFacts DEF LogInv
<1>8. \A i \in 1..Len(log') : log'[i].id <= written'
  <2> TAKE i \in 1..Len(log')
  <2>1. CASE i \in 1..Len(log)
    <3>1. log[i].id <= written /\ log[i].id \in Nat
      BY <2>1, <1>1 DEF LogInv, ChainRows, ChainRow
    <3> QED
      BY <3>1, <2>1, <1>2, <1>4, <1>5
  <2>2. CASE i = Len(log) + 1
    BY <2>2, <1>2, <1>4, <1>5 DEF Appended
  <2> QED
    BY <2>1, <2>2, <1>5, <1>7
<1>9. LogInv'
  <2>1. written' \in 0..MaxWrites /\ decisions' \subseteq 1..written'
    BY <1>1, <1>2, <1>3, <1>4
  <2> QED
    BY <1>1, <1>5, <1>6, <1>8, <2>1 DEF LogInv
<1>10. ASSUME NEW s, AList(s), Prefix(s, log) PROVE Prefix(s, log')
  <2>1. Len(s) \in Nat /\ Len(s) <= Len(log)
    BY <1>10, ListLaws DEF Prefix
  <2>2. \A i \in 1..Len(s) : i \in 1..Len(log) /\ s[i] = log[i]
    BY <2>1, <1>7, <1>10 DEF Prefix
  <2> QED
    BY <2>1, <2>2, <1>5, <1>7 DEF Prefix
<1>11. WireOK(walk, file, log')
  <2>1. AList(walk.of) /\ WireOK(walk, file, log)
    BY DEF ChainInv, WalkOK, ChainRows
  <2>2. VerifyOK(walk, log) => VerifyOK(walk, log')
    BY <2>1, <1>10 DEF VerifyOK
  <2>3. DumpOK(walk, file, log) => DumpOK(walk, file, log')
    BY <2>1, <1>10 DEF DumpOK
  <2> QED
    BY <2>1, <2>2, <2>3 DEF WireOK
<1> QED
    BY <1>1, <1>9, <1>11 DEF ChainInv

\* A damage to a stored row.
LEMMA HarmKeeps ==
    ASSUME ChainAssumption, ChainInv, RowHarmed
    PROVE  ChainInv'
<1>1. /\ LogInv /\ harms < MaxHarm /\ ~Walking /\ harms' = harms + 1 /\ file' = file
      /\ walk' = walk
      /\ walks' = walks /\ written' = written /\ decisions' = decisions
    BY DEF ChainInv, RowHarmed
<1>2. /\ ChainRows(log) /\ Len(log) \in Nat /\ DOMAIN log = 1..Len(log) /\ harms \in Nat
      /\ MaxHarm \in Nat /\ Marks(log, harms)
    BY <1>1, RowsFacts DEF LogInv, ChainAssumption
<1>3. PICK i \in 1..Len(log) :
        \/ i < Len(log) /\ log' = RemoveAt(log, i)
        \/ \E kind \in Kinds \ {"closer", log[i].kind} : log' = [log EXCEPT ![i].kind = kind]
        \/ log[i].eprev # Null /\ log' = [log EXCEPT ![i].eprev = Null]
    BY <1>2 DEF RowHarmed
<1>4. /\ ChainRows(log') /\ (Clean(log) => Scarred(log'))
      /\ \A j \in 1..Len(log') : \E k \in 1..Len(log) : log'[j].id = log[k].id
  <2>1. CASE i < Len(log) /\ log' = RemoveAt(log, i)
    <3>1. i \in 1..(Len(log) - 1)
      BY <2>1, <1>2
    <3> QED
      <4> DEFINE t == RemoveAt(log, i)
      <4>1. /\ ChainRows(t) /\ (Clean(log) => Scarred(t))
            /\ \A j \in 1..Len(t) : \E k \in 1..Len(log) : t[j] = log[k]
        BY <3>1, <1>2, LostRow
      <4>2. log' = t
        BY <2>1
      <4> HIDE DEF t
      <4> QED
        BY <4>1, <4>2
  <2>2. CASE \E kind \in Kinds \ {"closer", log[i].kind} : log' = [log EXCEPT ![i].kind = kind]
    <3>1. PICK kind : kind # log[i].kind /\ log' = [log EXCEPT ![i].kind = kind]
      BY <2>2
    <3>2. /\ ChainRows(log') /\ Len(log') = Len(log) /\ (\A j \in 1..Len(log) : log'[j].id = log[j].id)
          /\ Clean(log) => Scarred(log')
      <4> DEFINE t == [log EXCEPT ![i].kind = kind]
      <4>1. /\ ChainRows(t) /\ Len(t) = Len(log) /\ (\A j \in 1..Len(log) : t[j].id = log[j].id)
            /\ Clean(log) => Scarred(t)
        BY <3>1, <1>2, AlteredRow
      <4>2. log' = t
        BY <3>1
      <4> HIDE DEF t
      <4> QED
        BY <4>1, <4>2
    <3> QED
      BY <3>2
  <2>3. CASE log[i].eprev # Null /\ log' = [log EXCEPT ![i].eprev = Null]
    <3>1. /\ ChainRows(log') /\ Len(log') = Len(log) /\ (\A j \in 1..Len(log) : log'[j].id = log[j].id)
          /\ Clean(log) => Scarred(log')
      BY <2>3, <1>2, UnlinkedRow
    <3> QED
      BY <3>1
  <2> QED
    BY <1>3, <2>1, <2>2, <2>3
<1>5. Marks(log', harms + 1)
    BY <1>2, <1>4 DEF Marks
<1>6. LogInv'
  <2>1. \A j \in 1..Len(log') : log'[j].id <= written'
    BY <1>1, <1>4 DEF LogInv
  <2>2. harms' \in 0..MaxHarm
    BY <1>1, <1>2
  <2> QED
    BY <1>1, <1>4, <1>5, <2>1, <2>2 DEF LogInv
<1>7. FileOK(file, harms + 1) /\ WalkOK(walk, harms + 1)
  <2>1. FileOK(file, harms) /\ WalkOK(walk, harms) /\ file.harmed \in Nat /\ walk.harmed \in Nat
    BY DEF ChainInv, FileOK, WalkOK, Marks
  <2>2. file.harmed <= harms + 1 /\ walk.harmed <= harms + 1
    BY <2>1, <1>2 DEF FileOK, WalkOK
  <2> QED
    BY <2>1, <2>2 DEF FileOK, WalkOK
<1>8. WireOK(walk, file, log')
    BY <1>1 DEF WireOK, Running, Walking
<1> QED
    BY <1>1, <1>6, <1>7, <1>8 DEF ChainInv

\* A command starts.
LEMMA StartKeeps ==
    ASSUME ChainAssumption, ChainInv, NEW mode \in {"verify", "dump", "file"}, StartWalk(mode)
    PROVE  ChainInv'
<1>1. /\ LogInv /\ harms' = harms /\ log' = log /\ written' = written /\ decisions' = decisions
      /\ walk' = [IdleWalk EXCEPT !.mode = mode]
      /\ file' = IF mode = "dump" THEN NoFile ELSE file
      /\ walks' \in {walks, walks + 1} /\ (walks' # walks => walks < MaxWalks)
    BY DEF ChainInv, StartWalk, logVars
<1>2. harms \in Nat /\ walks \in Nat /\ MaxWalks \in Nat
    BY <1>1 DEF LogInv, ChainAssumption
<1>3. LogInv'
  <2>1. walks' \in 0..MaxWalks
    BY <1>1, <1>2 DEF LogInv
  <2> QED
    BY <1>1, <2>1 DEF LogInv
<1>4. WalkOK(walk', harms) /\ EndOK(walk') /\ walk'.mode = mode /\ ~walk'.begun /\ walk'.read = 0
    BY <1>1, <1>2, IdleIsOK
<1>5. FileOK(file', harms)
    BY <1>1, <1>2, NoFileIsOK DEF ChainInv
<1>6. WireOK(walk', file', log)
  <2>1. mode = "verify" => VerifyOK(walk', log)
    BY <1>4 DEF VerifyOK
  <2>2. mode = "dump" => DumpOK(walk', file', log)
    <3>1. Len(NoFile.lines) = 0 /\ 1..0 = {}
      BY EmptyList DEF NoFile
    <3> QED
      BY <3>1, <1>1, <1>4 DEF DumpOK
  <2>3. mode = "file" => CheckOK(walk', file')
    <3>1. Len(file'.lines) \in Nat
      BY <1>5, ListLaws DEF FileOK
    <3> QED
      BY <3>1, <1>4 DEF CheckOK
  <2> QED
    BY <1>4, <2>1, <2>2, <2>3 DEF WireOK
<1> QED
    BY <1>1, <1>3, <1>4, <1>5, <1>6 DEF ChainInv

\* A command is stopped, fails or is interrupted.
LEMMA StopKeeps ==
    ASSUME ChainAssumption, ChainInv, WalkStops \/ WalkFails \/ Interrupt
    PROVE  ChainInv'
<1>1. /\ LogInv /\ harms' = harms /\ log' = log /\ written' = written /\ decisions' = decisions
      /\ file' = file /\ walks' = walks /\ Walking
    BY DEF ChainInv, WalkStops, WalkFails, Interrupt, logVars
<1>2. /\ WalkOK(walk, harms) /\ WalkShape(walk) /\ walk.stop = "none" /\ walk.mode # "none"
      /\ EndOK(walk)
    BY <1>1 DEF ChainInv, WalkOK, Walking
<1>3. CASE WalkOK(walk', harms) /\ EndOK(walk') /\ ~Running(walk')
  <2>1. WireOK(walk', file, log)
    BY <1>3 DEF WireOK
  <2>2. LogInv'
    BY <1>1 DEF LogInv
  <2> QED
    BY <1>1, <1>3, <2>1, <2>2 DEF ChainInv
<1>4. CASE WalkStops
  <2>1. \E st \in {"cancelled", "page_ceiling"} : walk' = Finished(walk, st, FALSE)
    BY <1>4 DEF WalkStops
  <2>2. WalkOK(walk', harms) /\ EndOK(walk') /\ ~Running(walk')
    BY <2>1, <1>2, FinishedWalk
  <2> QED
    BY <2>2, <1>3
<1>5. CASE WalkFails
  <2>1. PICK code \in {1, 2} : walk' = [walk EXCEPT !.stop = "failed", !.exit = code]
    BY <1>5 DEF WalkFails
  <2>2. code \in ExitCodes /\ code # 0 /\ "failed" # "none" /\ "failed" # "exhausted"
    BY <2>1 DEF ExitCodes
  <2>3. WalkOK(walk', harms) /\ EndOK(walk') /\ ~Running(walk')
    BY <2>1, <2>2, <1>2, EndedWalk
  <2> QED
    BY <2>3, <1>3
<1>6. CASE Interrupt /\ walk.aborting
  <2> DEFINE code == IF walk.breaks # {} THEN 3 ELSE IF walk.conflicted # {} THEN 5 ELSE 130
  <2>1. walk' = [walk EXCEPT !.stop = "forced", !.exit = code]
    BY <1>6 DEF Interrupt
  <2>2. code \in ExitCodes /\ code # 0 /\ "forced" # "none" /\ "forced" # "exhausted"
    BY DEF ExitCodes
  <2> HIDE DEF code
  <2>3. WalkOK(walk', harms) /\ EndOK(walk') /\ ~Running(walk')
    BY <2>1, <2>2, <1>2, EndedWalk
  <2> QED
    BY <2>3, <1>3
<1>7. CASE Interrupt /\ ~walk.aborting
  <2> DEFINE v == [walk EXCEPT !.aborting = TRUE]
  <2>1. walk' = v
    BY <1>7 DEF Interrupt
  <2>2. /\ v.of = walk.of /\ v.harmed = walk.harmed /\ v.stop = walk.stop /\ v.exit = walk.exit
        /\ v.read = walk.read /\ v.breaks = walk.breaks /\ v.conflicted = walk.conflicted
        /\ v.unresolved = walk.unresolved /\ v.carry = walk.carry /\ v.mode = walk.mode
        /\ v.last = walk.last
        /\ v.begun = walk.begun /\ v.pages = walk.pages /\ v.aborting = TRUE
        /\ DOMAIN v = WalkFields
    BY <1>2 DEF WalkShape, WalkFields
  <2> HIDE DEF v
  <2>3. WalkShape(v)
    BY <1>2, <2>2 DEF WalkShape
  <2>4. WalkOK(v, harms)
    BY <1>2, <2>2, <2>3, SameWalk
  <2>5. EndOK(v)
    BY <1>2, <2>2 DEF EndOK, Running
  <2>6. WireOK(v, file, log)
    BY <2>2 DEF ChainInv, WireOK, Running, VerifyOK, DumpOK, CheckOK
  <2>7. LogInv'
    BY <1>1 DEF LogInv
  <2> QED
    BY <1>1, <2>1, <2>4, <2>5, <2>6, <2>7 DEF ChainInv
<1> QED
    BY <1>4, <1>5, <1>6, <1>7

\* The record a served page leaves: begun, with the log its first page found.
Renewed(w, base, h, pages) ==
    [w EXCEPT !.pages = pages, !.begun = TRUE, !.of = base, !.harmed = h]

Kept(v, w, base, h) ==
    /\ WalkShape(v) /\ v.mode = w.mode /\ v.stop = w.stop /\ v.exit = w.exit
    /\ v.last = w.last /\ v.carry = w.carry /\ v.breaks = w.breaks
    /\ v.conflicted = w.conflicted /\ v.unresolved = w.unresolved /\ v.read = w.read
    /\ v.begun /\ v.of = base /\ v.harmed = h

\* The fields of a walk after a page.
LEMMA RenewedFields ==
    ASSUME NEW w, WalkShape(w), NEW base, NEW h, NEW pages \in 0..MaxPages
    PROVE  Kept(Renewed(w, base, h, pages), w, base, h)
<1> DEFINE v == Renewed(w, base, h, pages)
<1>1. /\ v.mode = w.mode /\ v.stop = w.stop /\ v.exit = w.exit
      /\ v.last = w.last /\ v.carry = w.carry /\ v.breaks = w.breaks
      /\ v.conflicted = w.conflicted /\ v.unresolved = w.unresolved /\ v.read = w.read
      /\ v.begun = TRUE /\ v.of = base /\ v.harmed = h /\ v.pages = pages
      /\ v.aborting = w.aborting
      /\ DOMAIN v = WalkFields
    BY DEF Renewed, WalkShape, WalkFields
<1> HIDE DEF v
<1>2. v.begun \in BOOLEAN /\ v.begun /\ v.aborting \in BOOLEAN
    BY <1>1, Zenon DEF WalkShape
<1>3. WalkShape(v)
    BY <1>1, <1>2 DEF WalkShape
<1>4. Kept(v, w, base, h)
    BY <1>1, <1>2, <1>3 DEF Kept
<1> QED
    BY <1>4 DEF v

\* How often the log a walk is of was damaged.
Scars == IF walk.begun THEN walk.harmed ELSE harms

\* How damaged the log is that the walk reads.
LEMMA BaseMarks ==
    ASSUME ChainInv, Walking, walk.mode \in {"verify", "dump"}
    PROVE  Marks(Base, Scars) /\ Scars <= harms
BY DEF ChainInv, LogInv, WalkOK, WalkShape, Marks, Base, Scars

\* The state in which a served page leaves a verify.
LEMMA VerifyPage ==
    ASSUME ChainAssumption, ChainInv, Walking, walk.mode = "verify", walk.pages < MaxPages,
           NEW page, NEW m \in Nat, m < Due, IsPart(page, Base, m, Due)
    PROVE  LET v == Renewed(Checked(page), Base, Scars, walk.pages + 1)
           IN  /\ WalkOK(v, harms) /\ v.mode = "verify" /\ v.begun /\ v.of = Base
               /\ v.read = Len(Base) - m /\ v.stop = "none" /\ v.exit = -1
<1> DEFINE c == Checked(page)
           v == Renewed(c, Base, Scars, walk.pages + 1)
<1>1. /\ ChainRows(Base) /\ Done \in Nat /\ Due \in 0..Len(Base) /\ walk.last = At(Base, Due)
      /\ ~walk.begun => Done = 0 /\ Due = Len(log) /\ Base = log
    BY Standing
<1>2. /\ WalkOK(walk, harms) /\ WalkShape(walk) /\ EndOK(walk) /\ AList(Base)
      /\ Len(Base) \in Nat /\ walk.begun \in BOOLEAN
    BY <1>1, RowsFacts DEF ChainInv, WalkOK, WalkShape
<1>3. Done = walk.read /\ Due = Len(Base) - walk.read
    BY DEF Done, Due
<1>4. Seen(walk, Base, Due)
  <2>1. CASE walk.begun
    BY <2>1, <1>2, <1>3 DEF WalkOK, Base
  <2>2. CASE ~walk.begun
    <3>1. walk.read = 0 /\ Due = Len(Base)
      BY <2>2, <1>1, <1>3
    <3> QED
      BY <3>1, <1>2, SeenNothing
  <2> QED
    BY <1>2, <2>1, <2>2
<1>5. /\ WalkShape(c) /\ SameCourse(c, walk) /\ Seen(c, Base, m)
      /\ c.last = At(Base, m) /\ c.read = walk.read + (Due - m)
    BY <1>1, <1>2, <1>4, CheckedRange
<1>6. walk.pages + 1 \in 0..MaxPages
    BY <1>2 DEF WalkShape, ChainAssumption
<1> HIDE DEF c
<1>7. /\ WalkShape(v) /\ v.mode = c.mode /\ v.stop = c.stop /\ v.exit = c.exit
      /\ v.last = c.last /\ v.carry = c.carry /\ v.breaks = c.breaks
      /\ v.conflicted = c.conflicted /\ v.unresolved = c.unresolved /\ v.read = c.read
      /\ v.begun /\ v.of = Base /\ v.harmed = Scars
  <2>1. Kept(v, c, Base, Scars)
    BY <1>5, <1>6, RenewedFields
  <2> HIDE DEF v
  <2> QED
    BY <2>1 DEF Kept
<1> HIDE DEF v
<1>8. v.read = Len(Base) - m /\ Len(v.of) - v.read = m /\ v.read <= Len(v.of)
  <2> DEFINE a == Len(Base)
             b == walk.read
  <2>1. v.read = b + (Due - m) /\ Due = a - b /\ Len(v.of) = a /\ a \in Nat /\ b \in Nat
    BY <1>1, <1>2, <1>3, <1>5, <1>7
  <2>2. SUFFICES v.read = a - m /\ Len(v.of) - v.read = m /\ v.read <= Len(v.of)
    OBVIOUS
  <2> HIDE DEF a, b
  <2> QED
    BY <2>1
<1>9. v.mode = "verify" /\ v.stop = "none" /\ v.exit = -1
    BY <1>2, <1>5, <1>7 DEF SameCourse, Walking, EndOK, Running
<1>10. Seen(v, Base, m)
    BY <1>5, <1>7 DEF Seen
<1>11. Marks(Base, Scars) /\ Scars <= harms
    BY BaseMarks
<1>12. WalkOK(v, harms)
    BY <1>1, <1>5, <1>7, <1>8, <1>9, <1>10, <1>11 DEF WalkOK
<1> QED
    BY <1>7, <1>8, <1>9, <1>12 DEF v, c

\* The state in which a served page leaves a dump.
LEMMA DumpPage ==
    ASSUME ChainAssumption, ChainInv, Walking, walk.mode = "dump", walk.pages < MaxPages,
           NEW page, NEW m \in Nat, m < Due, IsPart(page, Base, m, Due)
    PROVE  LET v == Renewed([walk EXCEPT !.last = <<Head(page)>>], Base, Scars, walk.pages + 1)
               f == [file EXCEPT !.lines = @ \o Reverse(page), !.of = Base, !.harmed = Scars]
           IN  /\ WalkOK(v, harms) /\ v.mode = "dump" /\ v.begun /\ v.of = Base
               /\ v.stop = "none" /\ v.exit = -1 /\ v.last = At(Base, m) /\ v.harmed = Scars
               /\ FileOK(f, harms) /\ Len(f.lines) = Len(Base) - m /\ f.of = Base
               /\ f.harmed = Scars
               /\ \A i \in 1..Len(f.lines) : f.lines[i] # Torn
<1> DEFINE c == [walk EXCEPT !.last = <<Head(page)>>]
           v == Renewed(c, Base, Scars, walk.pages + 1)
           f == [file EXCEPT !.lines = @ \o Reverse(page), !.of = Base, !.harmed = Scars]
<1>1. /\ ChainRows(Base) /\ Done \in Nat /\ Due \in 0..Len(Base) /\ walk.last = At(Base, Due)
      /\ ~walk.begun => Done = 0 /\ Due = Len(log) /\ Base = log
    BY Standing
<1>2. /\ WalkOK(walk, harms) /\ WalkShape(walk) /\ EndOK(walk) /\ AList(Base) /\ Len(Base) \in Nat
      /\ walk.begun \in BOOLEAN /\ walk.read = 0 /\ FileOK(file, harms) /\ DumpOK(walk, file, log)
    BY <1>1, RowsFacts DEF ChainInv, WalkOK, WalkShape, WireOK, Running, Walking
<1>3. Done = Len(file.lines) /\ Due = Len(Base) - Len(file.lines) /\ Len(file.lines) \in Nat
    BY <1>2, ListLaws DEF Done, Due, FileOK
<1>4. Seen(walk, Base, Len(Base))
    BY <1>2, SeenNothing
<1>5. /\ AList(page) /\ Len(page) = Due - m /\ \A i \in 1..(Due - m) : page[i] = Base[m + i]
    BY DEF IsPart
<1>6. <<Head(page)>> = At(Base, m)
  <2>1. page # <<>>
    BY <1>1, <1>5, EmptyList
  <2>2. PICK S : page \in Seq(S)
    BY <1>5 DEF AList
  <2>3. Head(page) = page[1]
    BY <2>1, <2>2
  <2>4. page[1] = Base[m + 1]
    BY <1>1, <1>5
  <2>5. At(Base, m) = <<Base[m + 1]>>
    BY <1>1, <1>2 DEF At
  <2> QED
    BY <2>3, <2>4, <2>5
<1>7. walk.pages + 1 \in 0..MaxPages
    BY <1>2 DEF WalkShape, ChainAssumption
<1>8. /\ c.mode = walk.mode /\ c.stop = walk.stop /\ c.exit = walk.exit
      /\ c.last = At(Base, m) /\ c.carry = walk.carry /\ c.breaks = walk.breaks
      /\ c.conflicted = walk.conflicted /\ c.unresolved = walk.unresolved /\ c.read = walk.read
      /\ c.begun = walk.begun /\ c.pages = walk.pages /\ c.aborting = walk.aborting
      /\ DOMAIN c = WalkFields
    BY <1>2, <1>6 DEF WalkShape, WalkFields
<1> HIDE DEF c
<1>9. WalkShape(c)
    BY <1>2, <1>8 DEF WalkShape
<1>10. /\ WalkShape(v) /\ v.mode = c.mode /\ v.stop = c.stop /\ v.exit = c.exit
       /\ v.last = c.last /\ v.carry = c.carry /\ v.breaks = c.breaks
       /\ v.conflicted = c.conflicted /\ v.unresolved = c.unresolved /\ v.read = c.read
       /\ v.begun /\ v.of = Base /\ v.harmed = Scars
  <2>1. Kept(v, c, Base, Scars)
    BY <1>7, <1>9, RenewedFields
  <2> HIDE DEF v
  <2> QED
    BY <2>1 DEF Kept
<1> HIDE DEF v
<1>11. v.mode = "dump" /\ v.stop = "none" /\ v.exit = -1 /\ v.read = 0
    BY <1>2, <1>8, <1>10 DEF Walking, EndOK, Running
<1>12. Seen(v, Base, Len(Base))
    BY <1>4, <1>8, <1>10 DEF Seen
<1>13. Marks(Base, Scars) /\ Scars <= harms
    BY BaseMarks
<1>14. WalkOK(v, harms)
  <2>1. Len(v.of) - v.read = Len(Base) /\ v.read <= Len(v.of)
    BY <1>2, <1>10, <1>11
  <2> QED
    BY <1>1, <1>10, <1>11, <1>12, <1>13, <2>1 DEF WalkOK
<1>15. /\ f.lines = file.lines \o Reverse(page) /\ f.of = Base /\ f.harmed = Scars
       /\ DOMAIN f = {"lines", "of", "harmed"}
    BY <1>2 DEF FileOK
<1> HIDE DEF f
<1>16. /\ AList(Reverse(page)) /\ Len(Reverse(page)) = Due - m
       /\ \A i \in 1..(Due - m) : Reverse(page)[i] = page[(Due - m) - i + 1]
  <2>1. /\ AList(Reverse(page)) /\ Len(Reverse(page)) = Len(page)
        /\ \A i \in 1..Len(page) : Reverse(page)[i] = page[Len(page) - i + 1]
    <3>1. AList(page)
      BY <1>5
    <3> QED
      BY ONLY <3>1, BackList
  <2>2. Len(page) = Due - m
    BY <1>5
  <2> DEFINE q == Reverse(page)
  <2> HIDE DEF q
  <2>3. /\ AList(q) /\ Len(q) = Len(page) /\ \A i \in 1..Len(page) : q[i] = page[Len(page) - i + 1]
    BY <2>1 DEF q
  <2>4. /\ AList(q) /\ Len(q) = Due - m /\ \A i \in 1..(Due - m) : q[i] = page[(Due - m) - i + 1]
    BY ONLY <2>2, <2>3
  <2> QED
    BY <2>4 DEF q
<1> DEFINE a == file.lines
           b == Reverse(page)
<1>17. /\ AList(a \o b) /\ Len(a \o b) = Len(a) + Len(b)
       /\ \A i \in 1..Len(a) : (a \o b)[i] = a[i]
       /\ \A i \in 1..Len(b) : (a \o b)[Len(a) + i] = b[i]
  <2>1. AList(a) /\ AList(b)
    BY <1>2, <1>16 DEF FileOK
  <2> HIDE DEF a, b
  <2> QED
    BY ONLY <2>1, JoinList
<1>18. /\ AList(f.lines) /\ Len(f.lines) = Done + (Due - m)
       /\ \A i \in 1..Done : f.lines[i] = file.lines[i]
       /\ \A i \in 1..(Due - m) : f.lines[Done + i] = Reverse(page)[i]
    BY <1>3, <1>15, <1>16, <1>17
<1>19. Len(f.lines) = Len(Base) - m
    BY <1>1, <1>2, <1>3, <1>18
<1>20. ASSUME NEW i \in 1..Len(f.lines)
       PROVE  f.lines[i] = Base[Len(Base) + 1 - i] /\ Len(Base) + 1 - i \in 1..Len(Base)
  <2>1. CASE i \in 1..Done
    <3>1. i \in 1..Len(file.lines) /\ f.lines[i] = file.lines[i]
      BY <2>1, <1>3, <1>18
    <3>2. walk.begun
      <4>1. SUFFICES ASSUME ~walk.begun PROVE FALSE
        BY <1>2
      <4>2. Done = 0
        BY <4>1, <1>1
      <4> QED
        BY <4>2, <2>1
    <3>3. file.of = Base
      BY <3>2, <1>2 DEF DumpOK, Base
    <3>4. file.lines[i] # Torn /\ file.lines[i] \in {Torn, file.of[Len(file.of) + 1 - i]}
      BY <3>1, <1>2 DEF DumpOK, FileOK
    <3>5. Len(Base) + 1 - i \in 1..Len(Base)
      BY <2>1, <1>1, <1>2, <1>3
    <3> QED
      BY <3>1, <3>3, <3>4, <3>5
  <2>2. CASE i \notin 1..Done
    <3> DEFINE j == i - Done
               k == (Due - m) - j + 1
    <3>1. /\ j \in 1..(Due - m) /\ Done + j = i /\ k \in 1..(Due - m)
          /\ m + k = Len(Base) + 1 - i /\ Len(Base) + 1 - i \in 1..Len(Base)
      <4>1. Due = Len(Base) - Done /\ i \in Nat /\ i > Done /\ i <= Done + (Due - m)
        BY <2>2, <1>1, <1>3, <1>18
      <4> QED
        BY <4>1, <1>1, <1>2
    <3>2. f.lines[Done + j] = Reverse(page)[j]
      BY <3>1, <1>18
    <3>3. Reverse(page)[j] = page[k]
      BY <3>1, <1>16
    <3>4. page[k] = Base[m + k]
      BY <3>1, <1>5
    <3> HIDE DEF j, k
    <3> QED
      BY <3>1, <3>2, <3>3, <3>4
  <2> QED
    BY <2>1, <2>2
<1>21. \A i \in 1..Len(f.lines) : f.lines[i] # Torn
  <2>1. \A i \in 1..Len(Base) : Base[i] # Torn
    BY <1>1, RowNotTorn DEF ChainRows
  <2> QED
    BY <2>1, <1>20
<1>22. FileOK(f, harms)
  <2>1. Len(f.lines) <= Len(f.of)
    BY <1>2, <1>15, <1>19
  <2> QED
    BY <2>1, <1>1, <1>13, <1>15, <1>18, <1>20, <1>21 DEF FileOK
<1> QED
    BY <1>8, <1>10, <1>11, <1>14, <1>15, <1>19, <1>21, <1>22 DEF v, c, f

\* A page is served.
LEMMA PageKeeps ==
    ASSUME ChainAssumption, ChainInv, WalkPage
    PROVE  ChainInv'
<1>1. /\ LogInv /\ harms' = harms /\ log' = log /\ written' = written /\ decisions' = decisions
      /\ walks' = walks /\ Walking /\ walk.mode \in {"verify", "dump"} /\ walk.pages < MaxPages
    BY DEF ChainInv, WalkPage, logVars
<1>2. /\ WalkOK(walk, harms) /\ WalkShape(walk) /\ EndOK(walk) /\ FileOK(file, harms)
      /\ walk.stop = "none" /\ walk.begun \in BOOLEAN /\ walk.pages \in 0..MaxPages
      /\ walk.exit = -1
    BY <1>1 DEF ChainInv, WalkOK, WalkShape, Walking, EndOK, Running
<1>3. LogInv'
    BY <1>1 DEF LogInv
<1>4. ASSUME WalkOK(walk', harms), EndOK(walk'), FileOK(file', harms), WireOK(walk', file', log)
      PROVE  ChainInv'
    BY <1>1, <1>3, <1>4 DEF ChainInv
<1>5. /\ ChainRows(Base) /\ Prefix(Base, log) /\ Done \in Nat /\ Due \in 0..Len(Base)
      /\ walk.last = At(Base, Due)
      /\ walk.begun => Done > 0 /\ Due > 0
      /\ ~walk.begun => Done = 0 /\ Due = Len(log) /\ Base = log
    BY <1>1, Standing
<1>6. Marks(Base, Scars) /\ Scars <= harms /\ Len(Base) \in Nat /\ AList(Base)
    BY <1>1, <1>5, BaseMarks, RowsFacts
<1> DEFINE fresh == [walk EXCEPT !.begun = TRUE,
                        !.of = IF walk.begun THEN @ ELSE log,
                        !.harmed = IF walk.begun THEN @ ELSE harms]
           seen(c) == IF walk.mode = "verify" THEN Checked(Page(c))
                                              ELSE [walk EXCEPT !.last = <<Head(Page(c))>>]
           next(c) == [seen(c) EXCEPT !.pages = @ + 1, !.begun = fresh.begun,
                                      !.of = fresh.of, !.harmed = fresh.harmed]
<1>7. PICK cursor \in {walk.last, <<>>} :
        \/ /\ Page(cursor) = <<>>
           /\ walk' = Finished(fresh, "exhausted", TRUE)
           /\ UNCHANGED file
        \/ /\ Page(cursor) # <<>>
           /\ walk.last # <<>> /\ ~Below(Last(Page(cursor)), walk.last[1])
           /\ walk' = Finished(fresh, "cursor_stalled", FALSE)
           /\ UNCHANGED file
        \/ /\ Page(cursor) # <<>>
           /\ walk.last # <<>> => Below(Last(Page(cursor)), walk.last[1])
           /\ walk' = IF HasMore(Page(cursor)) THEN next(cursor)
                                               ELSE Finished(next(cursor), "exhausted", TRUE)
           /\ file' = IF walk.mode = "verify" THEN file
                      ELSE [file EXCEPT !.lines = @ \o Reverse(Page(cursor)),
                                        !.of = next(cursor).of, !.harmed = next(cursor).harmed]
    BY DEF WalkPage
<1>8. /\ fresh.of = Base /\ fresh.harmed = Scars /\ fresh.begun = TRUE
    BY <1>2 DEF WalkShape, WalkFields, Base, Scars
<1>9. Kept(fresh, walk, Base, Scars)
  <2>1. /\ fresh.mode = walk.mode /\ fresh.stop = walk.stop /\ fresh.exit = walk.exit
        /\ fresh.last = walk.last /\ fresh.carry = walk.carry /\ fresh.breaks = walk.breaks
        /\ fresh.conflicted = walk.conflicted /\ fresh.unresolved = walk.unresolved
        /\ fresh.read = walk.read /\ fresh.pages = walk.pages /\ fresh.aborting = walk.aborting
        /\ DOMAIN fresh = WalkFields
    BY <1>2 DEF WalkShape, WalkFields
  <2> HIDE DEF fresh
  <2>2. fresh.begun \in BOOLEAN /\ fresh.begun
    BY <1>8, Zenon
  <2>3. WalkShape(fresh)
    BY <1>2, <2>1, <2>2 DEF WalkShape
  <2> QED
    BY <1>8, <2>1, <2>2, <2>3 DEF Kept
<1>10. CASE /\ Page(cursor) = <<>>
            /\ walk' = Finished(fresh, "exhausted", TRUE)
            /\ UNCHANGED file
  <2>1. ~walk.begun /\ Len(log) = 0
    BY <1>1, <1>10, PageServed
  <2>2. Base = log /\ walk.read = 0 /\ walk.last = <<>> /\ Len(Base) = 0
    BY <2>1, <1>2, <1>5 DEF WalkOK
  <2>3. Seen(walk, Base, 0)
    BY <2>2, <1>2, <1>6, SeenNothing
  <2> HIDE DEF fresh
  <2>4. WalkOK(fresh, harms) /\ fresh.read = Len(fresh.of)
    <3>1. /\ Len(fresh.of) - fresh.read = 0 /\ fresh.read <= Len(fresh.of)
          /\ fresh.read = Len(fresh.of)
      BY <1>9, <2>2 DEF Kept
    <3>2. Seen(fresh, Base, 0)
      BY <1>9, <2>3 DEF Kept, Seen
    <3>3. At(Base, 0) = <<>>
      BY <2>2 DEF At
    <3> QED
      BY <1>5, <1>6, <1>9, <2>2, <3>1, <3>2, <3>3 DEF WalkOK, Kept
  <2>5. WalkOK(walk', harms) /\ EndOK(walk') /\ ~Running(walk')
    BY <1>10, <2>4, FinishedWalk
  <2> QED
    BY <1>2, <1>4, <1>10, <2>5 DEF WireOK
<1>11. CASE /\ walk.last # <<>>
            /\ walk' = Finished(fresh, "cursor_stalled", FALSE)
            /\ UNCHANGED file
  <2>1. walk.begun
    BY <1>2, <1>11 DEF WalkOK
  <2> HIDE DEF fresh
  <2>2. WalkOK(fresh, harms)
    <3>1. Base = walk.of /\ Scars = walk.harmed
      BY <2>1 DEF Base, Scars
    <3>2. WalkShape(fresh)
      BY <1>9 DEF Kept
    <3>3. fresh.begun = walk.begun
      BY <1>2, <1>8, <2>1, Zenon
    <3> QED
      BY <1>2, <1>9, <3>1, <3>2, <3>3, SameWalk DEF Kept
  <2>3. WalkOK(walk', harms) /\ EndOK(walk') /\ ~Running(walk')
    BY <1>11, <2>2, FinishedWalk
  <2> QED
    BY <1>2, <1>4, <1>11, <2>3 DEF WireOK
<1>12. CASE /\ Page(cursor) # <<>>
            /\ walk.last # <<>> => Below(Last(Page(cursor)), walk.last[1])
            /\ walk' = IF HasMore(Page(cursor)) THEN next(cursor)
                                                ELSE Finished(next(cursor), "exhausted", TRUE)
            /\ file' = IF walk.mode = "verify" THEN file
                       ELSE [file EXCEPT !.lines = @ \o Reverse(Page(cursor)),
                                         !.of = next(cursor).of, !.harmed = next(cursor).harmed]
  <2> DEFINE page == Page(cursor)
             v == next(cursor)
  <2>1. PICK m \in Nat : m < Due /\ IsPart(page, Base, m, Due) /\ (HasMore(page) <=> m > 0)
    BY <1>1, <1>12, PageServed
  <2>2. v = Renewed(seen(cursor), Base, Scars, seen(cursor).pages + 1)
    BY <1>8 DEF Renewed
  <2>3. seen(cursor).pages = walk.pages
    BY <1>2 DEF WalkShape, WalkFields, Checked
  <2>4. v = Renewed(seen(cursor), Base, Scars, walk.pages + 1)
    BY <2>2, <2>3
  <2>5. CASE walk.mode = "verify"
    <3>1. v = Renewed(Checked(page), Base, Scars, walk.pages + 1)
      BY <2>4, <2>5
    <3> HIDE DEF v, page, next
    <3>2. /\ WalkOK(v, harms) /\ v.mode = "verify" /\ v.begun /\ v.of = Base
          /\ v.read = Len(Base) - m /\ v.stop = "none" /\ v.exit = -1
      BY <1>1, <2>1, <2>5, <3>1, VerifyPage
    <3>3. file' = file /\ FileOK(file, harms)
      BY <1>2, <1>12, <2>5
    <3>4. CASE m > 0
      <4>1. walk' = v
        BY <1>12, <2>1, <3>4 DEF v, page
      <4>2. EndOK(v)
        BY <3>2 DEF EndOK
      <4>3. VerifyOK(v, log)
        <5>1. 0 < v.read /\ v.read < Len(v.of)
          BY <1>5, <1>6, <2>1, <3>2, <3>4
        <5> QED
          BY <5>1, <1>5, <3>2 DEF VerifyOK
      <4>4. WireOK(v, file, log)
        BY <4>3, <3>2 DEF WireOK
      <4> QED
        BY <1>4, <3>2, <3>3, <4>1, <4>2, <4>4
    <3>5. CASE m = 0
      <4>1. walk' = Finished(v, "exhausted", TRUE)
        BY <1>12, <2>1, <3>5 DEF v, page
      <4>2. v.read = Len(v.of)
        BY <1>6, <3>2, <3>5
      <4>3. WalkOK(walk', harms) /\ EndOK(walk') /\ ~Running(walk')
        BY <4>1, <4>2, <3>2, FinishedWalk
      <4> QED
        BY <1>4, <3>3, <4>3 DEF WireOK
    <3> QED
      BY <3>4, <3>5
  <2>6. CASE walk.mode = "dump"
    <3>1. v = Renewed([walk EXCEPT !.last = <<Head(page)>>], Base, Scars, walk.pages + 1)
      BY <2>4, <2>6
    <3> DEFINE f == [file EXCEPT !.lines = @ \o Reverse(page), !.of = Base, !.harmed = Scars]
    <3> HIDE DEF v, page, next
    <3>2. /\ WalkOK(v, harms) /\ v.mode = "dump" /\ v.begun /\ v.of = Base
          /\ v.stop = "none" /\ v.exit = -1 /\ v.last = At(Base, m) /\ v.harmed = Scars
          /\ FileOK(f, harms) /\ Len(f.lines) = Len(Base) - m /\ f.of = Base /\ f.harmed = Scars
          /\ \A i \in 1..Len(f.lines) : f.lines[i] # Torn
      BY <1>1, <2>1, <2>6, <3>1, DumpPage
    <3>3. file' = f
      <4>1. file' = [file EXCEPT !.lines = @ \o Reverse(page), !.of = v.of, !.harmed = v.harmed]
        BY <1>12, <2>6 DEF v, page
      <4> QED
        BY <4>1, <3>2
    <3> HIDE DEF f
    <3>4. CASE m > 0
      <4>1. walk' = v
        BY <1>12, <2>1, <3>4 DEF v, page
      <4>2. EndOK(v)
        BY <3>2 DEF EndOK
      <4>3. DumpOK(v, f, log)
        <5>1. 0 < Len(f.lines) /\ Len(f.lines) < Len(v.of) /\ Len(v.of) - Len(f.lines) = m
          BY <1>5, <1>6, <2>1, <3>2, <3>4
        <5> QED
          BY <5>1, <1>5, <3>2 DEF DumpOK
      <4>4. WireOK(v, f, log)
        BY <4>3, <3>2 DEF WireOK
      <4> QED
        BY <1>4, <3>2, <3>3, <4>1, <4>2, <4>4
    <3>5. CASE m = 0
      <4>1. walk' = Finished(v, "exhausted", TRUE)
        BY <1>12, <2>1, <3>5 DEF v, page
      <4>2. WalkOK(walk', harms) /\ EndOK(walk') /\ ~Running(walk')
        BY <4>1, <3>2, FinishedWalk
      <4> QED
        BY <1>4, <3>2, <3>3, <4>2 DEF WireOK
    <3> QED
      BY <3>4, <3>5
  <2> QED
    BY <1>1, <2>5, <2>6
<1> HIDE DEF fresh, next, seen
<1> QED
    BY <1>7, <1>10, <1>11, <1>12

\* What a check of the file has seen when it has read line n.
BatchSeen(n) ==
    [IF n < walk.read + 1 THEN walk
     ELSE Checked(Reverse(SubSeq(file.lines, walk.read + 1, n)))
       EXCEPT !.of = file.of, !.harmed = file.harmed, !.begun = TRUE]

\* Every line up to the torn one is the row it was dumped from.
LEMMA BatchWalk ==
    ASSUME ChainAssumption, ChainInv, Walking, walk.mode = "file",
           NEW n \in walk.read..Len(file.lines),
           \A i \in (walk.read + 1)..n : file.lines[i] # Torn
    PROVE  /\ WalkOK(BatchSeen(n), harms) /\ BatchSeen(n).mode = "file" /\ BatchSeen(n).read = n
           /\ BatchSeen(n).of = file.of /\ BatchSeen(n).harmed = file.harmed
           /\ BatchSeen(n).stop = "none" /\ BatchSeen(n).exit = -1
<1> DEFINE of == file.of
           lines == file.lines
           r == walk.read
           c == IF n < r + 1 THEN walk ELSE Checked(Reverse(SubSeq(lines, r + 1, n)))
           v == BatchSeen(n)
<1>1. /\ WalkOK(walk, harms) /\ WalkShape(walk) /\ EndOK(walk) /\ FileOK(file, harms)
      /\ CheckOK(walk, file)
      /\ walk.stop = "none" /\ walk.exit = -1 /\ walk.begun \in BOOLEAN
    BY DEF ChainInv, WalkOK, WalkShape, Walking, EndOK, Running, WireOK
<1>2. /\ ChainRows(of) /\ AList(of) /\ Len(of) \in Nat /\ AList(lines) /\ Len(lines) \in Nat
      /\ Len(lines) <= Len(of) /\ r \in Nat /\ r <= Len(lines) /\ n \in Nat
      /\ n <= Len(lines) /\ r <= n
    BY <1>1, RowsFacts, ListLaws DEF FileOK, CheckOK, WalkShape
<1>3. Seen(walk, of, Len(of) - r) /\ walk.last = At(of, Len(of) - r)
  <2>1. CASE walk.begun
    BY <2>1, <1>1 DEF WalkOK, CheckOK
  <2>2. CASE ~walk.begun
    <3>1. r = 0 /\ walk.last = <<>> /\ Len(of) - r = Len(of)
      BY <2>2, <1>1, <1>2 DEF WalkOK
    <3>2. Seen(walk, of, Len(of))
      BY <3>1, <1>1, <1>2, SeenNothing
    <3> QED
      BY <3>1, <3>2 DEF At
  <2> QED
    BY <1>1, <2>1, <2>2
<1>4. /\ WalkShape(c) /\ c.mode = "file" /\ c.stop = "none" /\ c.exit = -1 /\ c.read = n
      /\ Seen(c, of, Len(of) - n) /\ c.last = At(of, Len(of) - n)
  <2>1. CASE n < r + 1
    <3>1. n = r /\ c = walk
      BY <2>1, <1>2
    <3> QED
      BY <3>1, <1>1, <1>3
  <2>2. CASE ~(n < r + 1)
    <3> DEFINE p == SubSeq(lines, r + 1, n)
               q == Reverse(p)
               hi == Len(of) - r
               lo == Len(of) - n
    <3>1. lo \in Nat /\ hi \in 0..Len(of) /\ lo < hi /\ hi - lo = n - r /\ hi \in Nat
      <4> DEFINE a == Len(of)
                 b == Len(lines)
      <4>1. a \in Nat /\ b \in Nat /\ b <= a /\ r \in Nat /\ n \in Nat /\ n <= b /\ r < n
        BY <2>2, <1>2
      <4> HIDE DEF a, b, r
      <4>2. /\ a - n \in Nat /\ a - r \in 0..a /\ a - n < a - r /\ (a - r) - (a - n) = n - r
            /\ a - r \in Nat
        BY ONLY <4>1
      <4> QED
        BY ONLY <4>2 DEF a
    <3>2. /\ AList(p) /\ Len(p) = n + 1 - (r + 1)
          /\ \A i \in 1..(n + 1 - (r + 1)) : p[i] = lines[(r + 1) + i - 1]
      <4> HIDE DEF lines, r
      <4> QED
        BY <2>2, <1>2, PartList
    <3>3. n + 1 - (r + 1) = n - r
      BY <1>2
    <3> HIDE DEF p
    <3>4. /\ AList(q) /\ Len(q) = Len(p) /\ \A i \in 1..Len(p) : q[i] = p[Len(p) - i + 1]
      <4>1. AList(p)
        BY <3>2
      <4> QED
        BY ONLY <4>1, BackList
    <3> HIDE DEF q
    <3>5. ASSUME NEW i \in 1..(n - r) PROVE q[i] = of[lo + i]
      <4> DEFINE k == (n - r) - i + 1
                 j == n + 1 - i
      <4>1. /\ i \in 1..Len(p) /\ Len(p) = n - r /\ k \in 1..(n - r) /\ (r + 1) + k - 1 = j
            /\ j \in (r + 1)..n /\ j \in 1..Len(lines) /\ Len(of) + 1 - j = lo + i
        <5> HIDE DEF of, lines, r
        <5> QED
          BY <1>2, <3>2, <3>3
      <4>2. q[i] = p[k]
        BY <4>1, <3>4
      <4>3. p[k] = lines[j]
        BY <4>1, <3>2, <3>3
      <4>4. lines[j] # Torn /\ lines[j] \in {Torn, of[Len(of) + 1 - j]}
        BY <4>1, <1>1 DEF FileOK
      <4> HIDE DEF k, j
      <4> QED
        BY <4>1, <4>2, <4>3, <4>4
    <3>6. IsPart(q, of, lo, hi)
      <4>1. Len(q) = hi - lo /\ AList(q)
        BY <3>1, <3>2, <3>3, <3>4
      <4> QED
        BY <4>1, <3>1, <3>5 DEF IsPart
    <3>7. c = Checked(q)
      BY <2>2 DEF q, p
    <3> DEFINE d == Checked(q)
    <3>8. /\ WalkShape(d) /\ SameCourse(d, walk) /\ Seen(d, of, lo)
          /\ d.last = At(of, lo) /\ d.read = walk.read + (hi - lo)
      <4>1. /\ WalkShape(walk) /\ ChainRows(of) /\ hi \in 0..Len(of) /\ lo \in Nat /\ lo < hi
            /\ IsPart(q, of, lo, hi) /\ Seen(walk, of, hi) /\ walk.last = At(of, hi)
        BY <1>1, <1>2, <1>3, <3>1, <3>6
      <4> HIDE DEF of, lo, hi
      <4> QED
        BY ONLY <4>1, CheckedRange
    <3> HIDE DEF d
    <3>9. d.read = n
      BY <1>2, <3>1, <3>8
    <3>10. c = d
      BY <3>7 DEF d
    <3> HIDE DEF c
    <3> QED
      BY <1>1, <3>8, <3>9, <3>10 DEF SameCourse
  <2> QED
    BY <2>1, <2>2
<1>5. v = [c EXCEPT !.of = of, !.harmed = file.harmed, !.begun = TRUE]
    BY DEF BatchSeen
<1> HIDE DEF c
<1>6. /\ v.mode = c.mode /\ v.stop = c.stop /\ v.exit = c.exit
      /\ v.last = c.last /\ v.carry = c.carry /\ v.breaks = c.breaks
      /\ v.conflicted = c.conflicted /\ v.unresolved = c.unresolved /\ v.read = c.read
      /\ v.begun = TRUE /\ v.of = of /\ v.harmed = file.harmed /\ v.pages = c.pages
      /\ v.aborting = c.aborting /\ DOMAIN v = WalkFields
    BY <1>4, <1>5 DEF WalkShape, WalkFields
<1> HIDE DEF v
<1>7. v.begun \in BOOLEAN /\ v.begun
    BY <1>6, Zenon
<1>8. WalkShape(v)
    BY <1>4, <1>6, <1>7 DEF WalkShape
<1>9. Seen(v, of, Len(of) - n)
    BY <1>4, <1>6 DEF Seen
<1>10. /\ v.mode = "file" /\ v.read = n /\ v.of = of /\ v.last = At(of, Len(of) - n)
       /\ v.read <= Len(of)
    BY <1>2, <1>4, <1>6
<1>11. Marks(of, v.harmed) /\ v.harmed <= harms
    BY <1>1, <1>6 DEF FileOK
<1>12. WalkOK(v, harms)
    BY <1>2, <1>7, <1>8, <1>9, <1>10, <1>11 DEF WalkOK
<1> QED
    BY <1>4, <1>6, <1>10, <1>12 DEF v

\* A batch of the file is read.
LEMMA BatchKeeps ==
    ASSUME ChainAssumption, ChainInv, ReadBatch
    PROVE  ChainInv'
<1> DEFINE lines == file.lines
           from == walk.read + 1
           upto == IF walk.read + BatchSize < Len(lines) THEN walk.read + BatchSize ELSE Len(lines)
           bad  == {i \in from..upto : lines[i] = Torn}
<1>1. /\ LogInv /\ harms' = harms /\ log' = log /\ written' = written /\ decisions' = decisions
      /\ walks' = walks /\ file' = file /\ Walking /\ walk.mode = "file"
    BY DEF ChainInv, ReadBatch, logVars
<1>2. /\ WalkOK(walk, harms) /\ FileOK(file, harms) /\ CheckOK(walk, file)
    BY <1>1 DEF ChainInv, Walking, WireOK, Running
<1>3. /\ walk.read \in Nat /\ Len(lines) \in Nat /\ walk.read <= Len(lines)
      /\ BatchSize \in Nat \ {0}
    BY <1>2, ListLaws DEF WalkOK, WalkShape, FileOK, CheckOK, ChainAssumption
<1>4. upto \in walk.read..Len(lines) /\ from = walk.read + 1
    BY <1>3
<1>5. LogInv'
    BY <1>1 DEF LogInv
<1>6. ASSUME WalkOK(walk', harms), EndOK(walk'), WireOK(walk', file, log)
      PROVE  ChainInv'
    BY <1>1, <1>2, <1>5, <1>6 DEF ChainInv
<1>7. \/ /\ bad = {}
         /\ walk' = IF upto < Len(lines) THEN BatchSeen(upto)
                                         ELSE Finished(BatchSeen(upto), "exhausted", TRUE)
      \/ \E i \in bad :
            walk' = IF i = Len(lines) THEN Finished(BatchSeen(i - 1), "partial_file", TRUE)
                    ELSE [walk EXCEPT !.stop = "failed", !.exit = 1]
      \/ \E n \in walk.read..upto :
            /\ \A i \in bad : n < i
            /\ walk' = Finished(BatchSeen(n), "cancelled", TRUE)
    BY DEF ReadBatch, BatchSeen
<1>8. ASSUME NEW n \in walk.read..upto, \A i \in from..n : lines[i] # Torn
      PROVE  /\ WalkOK(BatchSeen(n), harms) /\ BatchSeen(n).mode = "file" /\ BatchSeen(n).read = n
             /\ BatchSeen(n).of = file.of /\ BatchSeen(n).harmed = file.harmed
             /\ BatchSeen(n).stop = "none" /\ BatchSeen(n).exit = -1
  <2>1. n \in walk.read..Len(file.lines)
    <3> HIDE DEF upto
    <3> QED
      BY <1>3, <1>4
  <2> QED
    BY <2>1, <1>1, <1>8, BatchWalk
<1>9. ASSUME NEW n \in walk.read..upto, \A i \in from..n : lines[i] # Torn,
             NEW st \in {"exhausted", "cancelled", "partial_file"},
             walk' = Finished(BatchSeen(n), st, TRUE)
      PROVE  ChainInv'
  <2> DEFINE v == BatchSeen(n)
  <2>1. WalkOK(v, harms) /\ v.mode = "file"
    BY <1>8, <1>9
  <2> HIDE DEF v
  <2>2. walk' = Finished(v, st, TRUE)
    BY <1>9 DEF v
  <2>3. WalkOK(walk', harms) /\ EndOK(walk') /\ ~Running(walk')
    BY <2>1, <2>2, FinishedWalk
  <2> QED
    BY <1>6, <2>3 DEF WireOK
<1>10. \A n \in walk.read..upto : (\A i \in bad : n < i) => \A i \in from..n : lines[i] # Torn
  <2> HIDE DEF upto
  <2> QED
    BY <1>3, <1>4
<1> HIDE DEF upto
<1>11. CASE /\ bad = {}
            /\ walk' = IF upto < Len(lines) THEN BatchSeen(upto)
                                            ELSE Finished(BatchSeen(upto), "exhausted", TRUE)
  <2>1. upto \in walk.read..upto /\ \A i \in from..upto : lines[i] # Torn
    BY <1>3, <1>4, <1>11
  <2>2. CASE upto < Len(lines)
    <3> DEFINE v == BatchSeen(upto)
    <3>1. /\ WalkOK(v, harms) /\ v.mode = "file" /\ v.read = upto /\ v.of = file.of
          /\ v.harmed = file.harmed /\ v.stop = "none" /\ v.exit = -1
      BY <1>8, <2>1
    <3>2. walk' = v
      BY <1>11, <2>2
    <3> HIDE DEF v
    <3>3. EndOK(v)
      BY <3>1 DEF EndOK
    <3>4. CheckOK(v, file)
      BY <3>1, <2>2, <1>3, <1>4 DEF CheckOK
    <3>5. WireOK(v, file, log)
      BY <3>1, <3>4 DEF WireOK
    <3> QED
      BY <1>6, <3>1, <3>2, <3>3, <3>5
  <2>3. CASE ~(upto < Len(lines))
    BY <1>9, <1>11, <2>1, <2>3
  <2> QED
    BY <2>2, <2>3
<1>12. CASE \E i \in bad :
              walk' = IF i = Len(lines) THEN Finished(BatchSeen(i - 1), "partial_file", TRUE)
                      ELSE [walk EXCEPT !.stop = "failed", !.exit = 1]
  <2>1. PICK i \in bad :
              walk' = IF i = Len(lines) THEN Finished(BatchSeen(i - 1), "partial_file", TRUE)
                      ELSE [walk EXCEPT !.stop = "failed", !.exit = 1]
    BY <1>12
  <2>2. i \in from..upto /\ lines[i] = Torn /\ i \in 1..Len(lines)
    BY <2>1, <1>3, <1>4
  <2>3. CASE i = Len(lines)
    <3>1. i - 1 \in walk.read..upto
      BY <2>2, <1>3, <1>4
    <3>2. ASSUME NEW j \in from..(i - 1) PROVE lines[j] # Torn
      <4>1. j \in 1..Len(lines) /\ j # i
        BY <2>2, <1>3, <1>4
      <4> QED
        BY <4>1, <2>2, <1>2 DEF FileOK
    <3>3. walk' = Finished(BatchSeen(i - 1), "partial_file", TRUE)
      BY <2>1, <2>3
    <3> QED
      BY <3>1, <3>2, <3>3, <1>9
  <2>4. CASE i # Len(lines)
    <3>1. walk' = [walk EXCEPT !.stop = "failed", !.exit = 1]
      BY <2>1, <2>4
    <3>2. 1 \in ExitCodes /\ 1 # 0 /\ "failed" # "none" /\ "failed" # "exhausted"
      BY DEF ExitCodes
    <3>3. WalkOK(walk', harms) /\ EndOK(walk') /\ ~Running(walk')
      BY <3>1, <3>2, <1>2, EndedWalk
    <3> QED
      BY <1>6, <3>3 DEF WireOK
  <2> QED
    BY <2>3, <2>4
<1>13. CASE \E n \in walk.read..upto :
              /\ \A i \in bad : n < i
              /\ walk' = Finished(BatchSeen(n), "cancelled", TRUE)
    BY <1>9, <1>10, <1>13
<1> HIDE DEF bad, lines
<1> QED
    BY <1>7, <1>11, <1>12, <1>13

\* The file is cut short or one of its lines is torn.
LEMMA FileHarmKeeps ==
    ASSUME ChainAssumption, ChainInv, FileHarmed
    PROVE  ChainInv'
<1> DEFINE lines == file.lines
<1>1. /\ LogInv /\ harms' = harms /\ log' = log /\ written' = written /\ decisions' = decisions
      /\ walks' = walks /\ walk' = walk /\ ~Walking /\ \A i \in DOMAIN lines : lines[i] # Torn
    BY DEF ChainInv, FileHarmed, logVars
<1>2. /\ FileOK(file, harms) /\ AList(lines) /\ Len(lines) \in Nat
      /\ DOMAIN lines = 1..Len(lines) /\ Len(file.of) \in Nat
      /\ Len(lines) <= Len(file.of)
    BY ListLaws, RowsFacts DEF ChainInv, FileOK
<1>3. \A i \in 1..Len(lines) : lines[i] = file.of[Len(file.of) + 1 - i] /\ lines[i] # Torn
    BY <1>1, <1>2 DEF FileOK
<1>4. ASSUME NEW l, AList(l), Len(l) <= Len(lines), file' = [file EXCEPT !.lines = l],
             NEW k \in Nat, \A i \in 1..Len(l) : i # k => l[i] = lines[i],
             k \in 1..Len(l) => l[k] = Torn
      PROVE  ChainInv'
  <2>1. /\ file'.lines = l /\ file'.of = file.of /\ file'.harmed = file.harmed
        /\ DOMAIN file' = {"lines", "of", "harmed"}
    BY <1>2, <1>4 DEF FileOK
  <2>2. Len(l) \in Nat /\ Len(l) <= Len(file.of)
    BY <1>2, <1>4, ListLaws
  <2>3. \A i \in 1..Len(l) : l[i] \in {Torn, file.of[Len(file.of) + 1 - i]} /\ (l[i] = Torn => i = k)
    <3> TAKE i \in 1..Len(l)
    <3>1. i \in 1..Len(lines)
      BY <2>2, <1>2, <1>4
    <3> QED
      BY <3>1, <1>3, <1>4
  <2>4. \A i, j \in 1..Len(l) : l[i] = Torn /\ l[j] = Torn => i = j
    BY <2>3
  <2>5. FileOK(file', harms)
    BY <1>2, <1>4, <2>1, <2>2, <2>3, <2>4 DEF FileOK
  <2>6. WireOK(walk, file', log)
    BY <1>1 DEF WireOK, Running, Walking
  <2>7. LogInv'
    BY <1>1 DEF LogInv
  <2> QED
    BY <1>1, <2>5, <2>6, <2>7 DEF ChainInv
<1>5. CASE \E n \in 0..(Len(lines) - 1), tail \in {<<>>, <<Torn>>} :
             file' = [file EXCEPT !.lines = SubSeq(@, 1, n) \o tail]
  <2>1. PICK n \in 0..(Len(lines) - 1), tail \in {<<>>, <<Torn>>} :
             file' = [file EXCEPT !.lines = SubSeq(@, 1, n) \o tail]
    BY <1>5
  <2> DEFINE p == SubSeq(lines, 1, n)
             l == p \o tail
  <2>2. n \in Nat /\ n + 1 <= Len(lines) /\ n <= Len(lines) /\ 1 <= n + 1
    <3>1. n \in 0..(Len(lines) - 1) /\ Len(lines) \in Nat
      BY <1>2
    <3> HIDE DEF lines
    <3> QED
      BY ONLY <3>1
  <2>3. /\ AList(p) /\ Len(p) = n /\ \A i \in 1..n : p[i] = lines[i]
    <3>0. AList(lines) /\ n \in Nat /\ 1 \in Nat /\ 1 <= 1 /\ 1 <= n + 1 /\ n <= Len(lines)
      BY <2>2, <1>2
    <3> HIDE DEF lines
    <3>1. /\ AList(SubSeq(lines, 1, n)) /\ Len(SubSeq(lines, 1, n)) = n + 1 - 1
          /\ \A i \in 1..(n + 1 - 1) : SubSeq(lines, 1, n)[i] = lines[1 + i - 1]
      BY ONLY <3>0, PartList
    <3>2. n + 1 - 1 = n /\ \A i \in 1..n : 1 + i - 1 = i
      BY <2>2
    <3> QED
      BY <3>1, <3>2
  <2>4. AList(tail) /\ (Len(tail) = 0 \/ (Len(tail) = 1 /\ tail[1] = Torn))
    BY <2>1, EmptyList, OneList
  <2>5. /\ AList(l) /\ Len(l) = Len(p) + Len(tail)
        /\ \A i \in 1..Len(p) : l[i] = p[i]
        /\ \A i \in 1..Len(tail) : l[Len(p) + i] = tail[i]
    <3>1. AList(p) /\ AList(tail)
      BY <2>3, <2>4
    <3> HIDE DEF p
    <3> QED
      BY ONLY <3>1, JoinList
  <2>6. file' = [file EXCEPT !.lines = l]
    BY <2>1
  <2> HIDE DEF p, l
  <2>7. Len(l) <= Len(lines) /\ Len(l) \in {n, n + 1}
    <3> DEFINE a == Len(lines)
               b == Len(l)
               c == Len(p)
               d == Len(tail)
    <3>1. a \in Nat /\ n \in Nat /\ n + 1 <= a /\ c = n /\ (d = 0 \/ d = 1) /\ b = c + d
      BY <1>2, <2>2, <2>3, <2>4, <2>5
    <3> HIDE DEF a, b, c, d
    <3>2. b <= a /\ b \in {n, n + 1}
      BY ONLY <3>1
    <3> QED
      BY ONLY <3>2 DEF a, b
  <2>8. \A i \in 1..Len(l) : i # n + 1 => l[i] = lines[i]
    <3> SUFFICES ASSUME NEW i \in 1..Len(l), i # n + 1 PROVE l[i] = lines[i]
      OBVIOUS
    <3>1. n \in Nat /\ Len(l) \in {n, n + 1} /\ i \in 1..Len(l) /\ i # n + 1
      BY <2>2, <2>7
    <3>2. i \in 1..n
      BY ONLY <3>1
    <3> QED
      BY <3>2, <2>3, <2>5
  <2>9. n + 1 \in 1..Len(l) => l[n + 1] = Torn
    <3> SUFFICES ASSUME n + 1 \in 1..Len(l) PROVE l[n + 1] = Torn
      OBVIOUS
    <3>1. Len(tail) = 1 /\ tail[1] = Torn /\ Len(p) = n
      BY <2>2, <2>3, <2>4, <2>5
    <3>2. 1 \in 1..Len(tail)
      BY <3>1
    <3> QED
      BY <3>1, <3>2, <2>5
  <2>10. n + 1 \in Nat
    BY <2>2
  <2> HIDE DEF lines
  <2> QED
    BY <1>4, <2>5, <2>6, <2>7, <2>8, <2>9, <2>10
<1>6. CASE \E i \in 1..(Len(lines) - 1) : file' = [file EXCEPT !.lines[i] = Torn]
  <2>1. PICK i \in 1..(Len(lines) - 1) : file' = [file EXCEPT !.lines[i] = Torn]
    BY <1>6
  <2> DEFINE l == [lines EXCEPT ![i] = Torn]
  <2>2. i \in 1..Len(lines) /\ i \in Nat
    BY <1>2
  <2>3. /\ AList(l) /\ Len(l) = Len(lines) /\ l[i] = Torn /\ \A j \in 1..Len(lines) : j # i => l[j] = lines[j]
    <3> HIDE DEF lines
    <3> QED
      BY <1>2, <2>2, PutList
  <2>4. file' = [file EXCEPT !.lines = l]
    BY <2>1, <1>2 DEF FileOK
  <2> HIDE DEF l
  <2>5. Len(l) <= Len(lines)
    BY <2>3, <1>2
  <2> HIDE DEF lines
  <2> QED
    BY <1>4, <2>2, <2>3, <2>4, <2>5
<1> QED
    BY <1>5, <1>6 DEF FileHarmed

\* Every step keeps the invariant.
LEMMA ChainStep == ChainAssumption /\ ChainInv /\ [ChainNext]_chainVars => ChainInv'
<1> SUFFICES ASSUME ChainAssumption, ChainInv, [ChainNext]_chainVars PROVE ChainInv'
    OBVIOUS
<1>1. CASE UNCHANGED chainVars
    BY <1>1 DEF chainVars, ChainInv, LogInv
<1>2. CASE WriteEntry \/ CloseEntry
    BY <1>2, WriteKeeps
<1>3. CASE RowHarmed
    BY <1>3, HarmKeeps
<1>4. CASE FileHarmed
    BY <1>4, FileHarmKeeps
<1>5. CASE \E mode \in {"verify", "dump", "file"} : StartWalk(mode)
    BY <1>5, StartKeeps
<1>6. CASE WalkPage
    BY <1>6, PageKeeps
<1>7. CASE WalkStops \/ WalkFails \/ Interrupt
    BY <1>7, StopKeeps
<1>8. CASE ReadBatch
    BY <1>8, BatchKeeps
<1> QED
    BY <1>1, <1>2, <1>3, <1>4, <1>5, <1>6, <1>7, <1>8 DEF ChainNext

\* The invariant implies the types.
LEMMA TypesHold == ChainAssumption /\ ChainInv => ChainTypeOK
<1> SUFFICES ASSUME ChainAssumption, ChainInv PROVE ChainTypeOK
    OBVIOUS
<1>1. LogInv /\ WalkShape(walk) /\ ChainRows(log)
    BY DEF ChainInv, LogInv, WalkOK
<1>2. DOMAIN log = 1..Len(log)
    BY <1>1, RowsFacts
<1>3. \A i \in DOMAIN log : log[i].epoch \in Days /\ log[i].seq \in Nat
    BY <1>1, <1>2 DEF ChainRows, ChainRow
<1>4. \A i, j \in DOMAIN log : i < j => Below(log[i], log[j])
    BY <1>1, <1>2 DEF ChainRows
<1> QED
    BY <1>1, <1>3, <1>4 DEF ChainTypeOK, LogInv, WalkShape

\* A clean log has no break above any position.
LEMMA HonestHolds == ChainInv => HonestLogVerifies
<1> SUFFICES ASSUME ChainInv, walk.breaks # {}, ~(harms > 0) PROVE FALSE
    BY DEF HonestLogVerifies
<1> DEFINE of == walk.of
           n == Len(of) - walk.read
<1>1. /\ ChainRows(of) /\ Marks(of, walk.harmed) /\ walk.harmed <= harms /\ harms \in Nat
      /\ walk.read \in Nat /\ walk.read <= Len(of) /\ walk.breaks = BreaksAbove(of, n)
    BY DEF ChainInv, LogInv, WalkOK, WalkShape, Seen, Marks
<1>2. walk.harmed = 0
    BY <1>1 DEF Marks
<1>3. Clean(of)
    BY <1>1, <1>2 DEF Marks
<1>4. n \in 0..Len(of)
  <2>1. Len(of) \in Nat
    BY <1>1, RowsFacts
  <2> HIDE DEF of
  <2> QED
    BY <1>1, <2>1
<1> HIDE DEF of, n
<1> QED
    BY <1>1, <1>3, <1>4, CleanIsWhole

\* A verdict of 0 over a log with one damage would contradict its scar.
LEMMA OkHolds == ChainInv => OkMeansWhole
<1> SUFFICES ASSUME ChainInv, walk.exit = 0, walk.mode \in {"verify", "file"}, walk.last # <<>>
             PROVE  /\ walk.last = <<Head(walk.of)>> => walk.harmed # 1
                    /\ walk.harmed = 0 => walk.last = <<Head(walk.of)>>
    BY DEF OkMeansWhole
<1> DEFINE of == walk.of
           n == Len(of) - walk.read
<1>1. /\ ChainRows(of) /\ Marks(of, walk.harmed) /\ walk.read \in Nat /\ walk.read <= Len(of)
      /\ BreaksAbove(of, n) = {} /\ GenesisShaped(walk.last[1]) /\ walk.last = At(of, n)
    BY DEF ChainInv, WalkOK, WalkShape, Seen, EndOK
<1>2. Len(of) \in Nat /\ n \in 0..Len(of)
  <2>1. Len(of) \in Nat
    BY <1>1, RowsFacts
  <2> HIDE DEF of
  <2> QED
    BY <1>1, <2>1
<1> HIDE DEF n
<1>3. n # Len(of) /\ walk.last = <<of[n + 1]>>
    BY <1>1 DEF At
<1>4. n + 1 \in 1..Len(of) /\ 1 \in 1..Len(of)
  <2> HIDE DEF of
  <2> QED
    BY <1>2, <1>3
<1>5. Head(of) = of[1]
    OBVIOUS
<1>6. GenesisShaped(of[n + 1])
    BY <1>1, <1>3
<1> HIDE DEF of
<1>7. walk.last = <<of[1]>> => n = 0
  <2> SUFFICES ASSUME walk.last = <<of[1]>> PROVE n = 0
    OBVIOUS
  <2>1. of[n + 1] = of[1]
    BY <1>3
  <2>2. n + 1 = 1
    BY <2>1, <1>1, <1>4, RowsFacts
  <2> QED
    BY <2>2, <1>2
<1>8. walk.last = <<of[1]>> => walk.harmed # 1
  <2> SUFFICES ASSUME walk.last = <<of[1]>>, walk.harmed = 1 PROVE FALSE
    OBVIOUS
  <2>1. n = 0
    BY <1>7
  <2>2. GenesisShaped(of[1]) /\ BreaksAbove(of, 0) = {}
    BY <2>1, <1>1, <1>6
  <2>3. Scarred(of)
    BY <1>1 DEF Marks
  <2> QED
    BY <2>2, <2>3 DEF Scarred
<1>9. walk.harmed = 0 => walk.last = <<of[1]>>
  <2> SUFFICES ASSUME walk.harmed = 0 PROVE walk.last = <<of[1]>>
    OBVIOUS
  <2>1. Clean(of)
    BY <1>1 DEF Marks
  <2>2. n + 1 = 1
    BY <2>1, <1>1, <1>2, <1>4, <1>6, CleanIsWhole
  <2> QED
    BY <2>2, <1>3
<1> QED
    BY <1>5, <1>8, <1>9 DEF of

\* As many rows close a decision as there are positions that name it.
LEMMA CountClosers ==
    ASSUME NEW s, ChainRows(s), NEW n \in 0..Len(s), NEW rows, IsPart(rows, s, n, Len(s)),
           NEW j \in (n + 1)..Len(s)
    PROVE  LET I == {i \in DOMAIN rows : rows[i].ref = s[j].id}
           IN  /\ Cardinality(I) = Cardinality(ClosersAt(s, j))
               /\ I = {} <=> ClosersAt(s, j) = {}
<1> DEFINE I == {i \in DOMAIN rows : rows[i].ref = s[j].id}
           C == ClosersAt(s, j)
           m == Len(s) - n
           f == [i \in I |-> rows[i]]
<1>1. /\ AList(s) /\ Len(s) \in Nat
      /\ \A a, b \in 1..Len(s) : s[a].id = s[b].id => a = b
      /\ \A a, b \in 1..Len(s) : s[a].ref = s[b].id => b < a
    BY RowsFacts
<1>2. n \in Nat /\ m \in Nat /\ j \in 1..Len(s)
    BY <1>1
<1>3. /\ AList(rows) /\ Len(rows) = m /\ DOMAIN rows = 1..m
      /\ \A i \in 1..m : rows[i] = s[n + i] /\ n + i \in 1..Len(s)
  <2>1. /\ AList(rows) /\ Len(rows) = m /\ \A i \in 1..m : rows[i] = s[n + i]
    BY DEF IsPart
  <2>2. DOMAIN rows = 1..m
    BY <2>1, ListLaws
  <2>3. \A i \in 1..m : n + i \in 1..Len(s)
    BY <1>1, <1>2
  <2> QED
    BY <2>1, <2>2, <2>3
<1>4. ASSUME NEW i \in I PROVE rows[i] \in C
  <2>1. i \in 1..m /\ rows[i] = s[n + i] /\ n + i \in 1..Len(s) /\ s[n + i].ref = s[j].id
    BY <1>3
  <2>2. j < n + i
    BY <2>1, <1>1, <1>2
  <2>3. n + i \in (j + 1)..Len(s)
    BY <2>1, <2>2, <1>1, <1>2
  <2> QED
    BY <2>1, <2>3 DEF ClosersAt
<1>5. ASSUME NEW c \in C PROVE \E i \in I : rows[i] = c
  <2>1. PICK a \in (j + 1)..Len(s) : s[a].ref = s[j].id /\ c = s[a]
    BY DEF ClosersAt
  <2>2. a - n \in 1..m /\ n + (a - n) = a
    BY <1>1, <1>2
  <2>3. rows[a - n] = c /\ a - n \in I
    BY <2>1, <2>2, <1>3
  <2> QED
    BY <2>3
<1>6. ASSUME NEW a \in I, NEW b \in I, rows[a] = rows[b] PROVE a = b
  <2>1. /\ a \in 1..m /\ b \in 1..m /\ s[n + a] = s[n + b] /\ n + a \in 1..Len(s)
        /\ n + b \in 1..Len(s)
    BY <1>3, <1>6
  <2>2. n + a = n + b
    BY <2>1, <1>1
  <2> QED
    BY <2>1, <2>2, <1>2
<1>7. IsFiniteSet(I)
  <2>1. IsFiniteSet(1..m)
    BY <1>2, FS_Interval
  <2>2. I \subseteq 1..m
    BY <1>3
  <2> QED
    BY <2>1, <2>2, FS_Subset
<1> HIDE DEF I, C, m
<1>8. f \in Bijection(I, C)
  <2>1. f \in [I -> C] /\ DOMAIN f = I
    BY <1>4
  <2>2. \A a, b \in I : f[a] = f[b] => a = b
    BY <1>6
  <2>3. \A c \in C : \E i \in I : f[i] = c
    BY <1>5
  <2> HIDE DEF f
  <2> QED
    BY <2>1, <2>2, <2>3 DEF Bijection, Injection, Surjection, IsInjective
<1>9. Cardinality(C) = Cardinality(I)
    BY <1>7, <1>8, FS_Bijection DEF ExistsBijection
<1>10. I = {} <=> C = {}
    BY <1>4, <1>5
<1> QED
    BY <1>9, <1>10 DEF I, C

\* One check of the rows above position n as one range.
LEMMA OneRange ==
    ASSUME NEW s, ChainRows(s), NEW n \in 0..Len(s), NEW rows, IsPart(rows, s, n, Len(s))
    PROVE  verifyChainRange(rows, <<>>) = BreaksAbove(s, n)
<1>1. AList(s) /\ Len(s) \in Nat /\ n \in Nat /\ n <= Len(s)
    BY RowsFacts
<1>2. CASE n < Len(s)
  <2>1. BreaksAbove(s, Len(s)) \union verifyChainRange(rows, At(s, Len(s))) = BreaksAbove(s, n)
    BY <1>1, <1>2, BreaksJoin
  <2>2. At(s, Len(s)) = <<>>
    BY DEF At
  <2>3. BreaksAbove(s, Len(s)) = {}
    BY <1>1, NothingAbove
  <2> QED
    BY <2>1, <2>2, <2>3
<1>3. CASE n = Len(s)
  <2>1. AList(rows) /\ Len(rows) = 0
    BY <1>1, <1>3 DEF IsPart
  <2>2. rows = <<>> /\ DOMAIN rows = {}
    BY <2>1, ListLaws
  <2>3. AList(rows \o <<>>) /\ Len(rows \o <<>>) = 0
    BY <2>1, EmptyList, JoinList
  <2>4. 2..Len(rows \o <<>>) = {}
    BY <2>3
  <2>5. verifyChainRange(rows, <<>>) = {}
    BY <2>2, <2>4 DEF verifyChainRange
  <2> QED
    BY <2>5, <1>1, <1>3, NothingAbove
<1> QED
    BY <1>1, <1>2, <1>3

\* What a walk has seen above its oldest row is what one range reports.
LEMMA PagedHolds == ChainInv => PagedIsWhole
<1> SUFFICES ASSUME ChainInv, walk.stop = "exhausted", walk.mode \in {"verify", "file"}
             PROVE  LET rows == SubSeq(walk.of, Len(walk.of) - walk.read + 1, Len(walk.of))
                        closers(d) == {i \in DOMAIN rows : rows[i].ref = d}
                        owed == {rows[i].id : i \in {j \in DOMAIN rows : owesCloser(rows[j])}}
                    IN  /\ walk.mode = "verify" => walk.read = Len(walk.of)
                        /\ walk.breaks = verifyChainRange(rows, <<>>)
                        /\ walk.conflicted = {d \in owed : Cardinality(closers(d)) >= 2}
                        /\ walk.unresolved = {d \in owed : closers(d) = {}}
    BY DEF PagedIsWhole
<1> DEFINE s == walk.of
           n == Len(s) - walk.read
           rows == SubSeq(s, n + 1, Len(s))
           closers(d) == {i \in DOMAIN rows : rows[i].ref = d}
           owed == {rows[i].id : i \in {j \in DOMAIN rows : owesCloser(rows[j])}}
<1>1. /\ ChainRows(s) /\ walk.read \in Nat /\ walk.read <= Len(s)
      /\ walk.breaks = BreaksAbove(s, n) /\ walk.conflicted = ConflictedAbove(s, n)
      /\ walk.unresolved = UnresolvedAbove(s, n)
      /\ walk.mode = "verify" => walk.read = Len(s)
    BY DEF ChainInv, WalkOK, WalkShape, Seen, EndOK
<1>2. AList(s) /\ Len(s) \in Nat
    BY <1>1, RowsFacts
<1> HIDE DEF s
<1>3. n \in 0..Len(s) /\ n \in Nat /\ n <= Len(s)
    BY <1>1, <1>2
<1> HIDE DEF n
<1>4. IsPart(rows, s, n, Len(s))
  <2>1. /\ AList(rows) /\ Len(rows) = Len(s) + 1 - (n + 1)
        /\ \A i \in 1..(Len(s) + 1 - (n + 1)) : rows[i] = s[(n + 1) + i - 1]
    BY <1>2, <1>3, PartList
  <2>2. Len(s) + 1 - (n + 1) = Len(s) - n /\ \A i \in 1..(Len(s) - n) : (n + 1) + i - 1 = n + i
    BY <1>2, <1>3
  <2> HIDE DEF rows
  <2> QED
    BY <2>1, <2>2 DEF IsPart
<1> HIDE DEF rows
<1>5. walk.breaks = verifyChainRange(rows, <<>>)
    BY <1>1, <1>3, <1>4, OneRange
<1>6. DOMAIN rows = 1..(Len(s) - n) /\ \A i \in 1..(Len(s) - n) : rows[i] = s[n + i]
    BY <1>4, ListLaws DEF IsPart
<1>7. \A d : d \in owed <=> \E j \in (n + 1)..Len(s) : owesCloser(s[j]) /\ d = s[j].id
  <2> TAKE d
  <2>1. ASSUME NEW i \in DOMAIN rows, owesCloser(rows[i]), d = rows[i].id
        PROVE  \E j \in (n + 1)..Len(s) : owesCloser(s[j]) /\ d = s[j].id
    <3>1. n + i \in (n + 1)..Len(s) /\ rows[i] = s[n + i]
      BY <1>2, <1>3, <1>6
    <3> QED
      BY <3>1, <2>1
  <2>2. ASSUME NEW j \in (n + 1)..Len(s), owesCloser(s[j]), d = s[j].id
        PROVE  d \in owed
    <3>1. j - n \in DOMAIN rows /\ rows[j - n] = s[n + (j - n)] /\ n + (j - n) = j
      BY <1>2, <1>3, <1>6
    <3> QED
      BY <3>1, <2>2
  <2> QED
    BY <2>1, <2>2
<1>8. ASSUME NEW j \in (n + 1)..Len(s)
      PROVE  /\ Cardinality(closers(s[j].id)) = Cardinality(ClosersAt(s, j))
             /\ closers(s[j].id) = {} <=> ClosersAt(s, j) = {}
    BY <1>1, <1>3, <1>4, CountClosers
<1> HIDE DEF owed, closers
<1>9. walk.conflicted = {d \in owed : Cardinality(closers(d)) >= 2}
  <2>1. \A d : d \in ConflictedAbove(s, n) <=>
               \E j \in (n + 1)..Len(s) : owesCloser(s[j]) /\ Cardinality(ClosersAt(s, j)) >= 2 /\ d = s[j].id
    BY DEF ConflictedAbove
  <2>2. \A d : d \in ConflictedAbove(s, n) <=> d \in owed /\ Cardinality(closers(d)) >= 2
    BY <2>1, <1>7, <1>8
  <2> QED
    BY <2>2, <1>1
<1>10. walk.unresolved = {d \in owed : closers(d) = {}}
  <2>1. \A d : d \in UnresolvedAbove(s, n) <=>
               \E j \in (n + 1)..Len(s) : owesCloser(s[j]) /\ ClosersAt(s, j) = {} /\ d = s[j].id
    BY DEF UnresolvedAbove
  <2>2. ASSUME NEW d, d \in UnresolvedAbove(s, n) PROVE d \in owed /\ closers(d) = {}
    <3>1. PICK j \in (n + 1)..Len(s) : owesCloser(s[j]) /\ ClosersAt(s, j) = {} /\ d = s[j].id
      BY <2>1, <2>2
    <3> QED
      BY <3>1, <1>7, <1>8
  <2>3. ASSUME NEW d, d \in owed, closers(d) = {} PROVE d \in UnresolvedAbove(s, n)
    <3>1. PICK j \in (n + 1)..Len(s) : owesCloser(s[j]) /\ d = s[j].id
      BY <1>7, <2>3
    <3>2. ClosersAt(s, j) = {}
      BY <3>1, <1>8, <2>3
    <3> QED
      BY <3>1, <3>2, <2>1
  <2> QED
    BY <2>2, <2>3, <1>1
<1> QED
    BY <1>1, <1>5, <1>9, <1>10 DEF owed, closers, rows, n, s

\* A verdict can be trusted both ways, for any number of rows, pages, days,
\* damages and walks: the types hold, a log nobody damaged is never called
\* broken by the wire walk or by the check of a dump, and exit 0 is never the
\* answer to one damage or to a walk or a file that stops short of the oldest
\* row (insertRow, walkAuditChain, verifyDumpLines, summarizeWalk).
THEOREM VerdictsAreSound == ChainSpec => []VerdictsSound
<1>1. ChainInit => ChainInv
    BY ChainAssumption, ChainStarts
<1>2. ChainInv /\ [ChainNext]_chainVars => ChainInv'
    BY ChainAssumption, ChainStep
<1>3. ChainInv => VerdictsSound
    BY ChainAssumption, TypesHold, HonestHolds, OkHolds DEF VerdictsSound
<1> QED
    BY <1>1, <1>2, <1>3, PTL DEF ChainSpec

\* A walk that reaches the end of its pages, or a check that reaches the end of
\* its file, reports exactly what one check of the same rows as one range
\* reports: the same breaks, the same conflicted and the same unresolved
\* decisions, whatever the page and batch sizes and whatever is written
\* meanwhile (walkAuditChain, verifyDumpLines, checkDecisionClosure).
THEOREM PagingIsExact == ChainSpec => []PagedIsWhole
<1>1. ChainInit => ChainInv
    BY ChainAssumption, ChainStarts
<1>2. ChainInv /\ [ChainNext]_chainVars => ChainInv'
    BY ChainAssumption, ChainStep
<1> QED
    BY <1>1, <1>2, PagedHolds, PTL DEF ChainSpec
==============================================================================
