------------------------- MODULE ModelBudgetProofs -------------------------
(***************************************************************************)
(* For any limits, any number of attempts and any client: the books of the *)
(* model budget balance and its limits hold (BudgetSound), the permit is   *)
(* given back exactly when nothing native is left (ReleaseSound), and no   *)
(* late answer is returned (NoLateSuccess).                                *)
(*                                                                         *)
(* The invariant has three parts. Books speaks of the ledger and the       *)
(* budget's counters, Native of the transports and the scope's counters,   *)
(* Linked of an attempt and its transport. The counters are sums over the  *)
(* attempts, so the module starts with the sum of a function: it is        *)
(* defined by recursion, and its laws follow from the least number that    *)
(* would refute them.                                                      *)
(***************************************************************************)
EXTENDS ModelBudget, FiniteSetTheorems, NaturalsInduction, WellFoundedInduction, TLAPS

-----------------------------------------------------------------------------
(* The invariant.                                                          *)

IsPending(c) == c # None /\ c.settle = "pending"

Booked(c) == c # None /\ ~(c.settle = "fulfilled" /\ c.usage = "reported")

WantOf(c) == IF Booked(c) THEN c.want ELSE 0

ActOf(c) == IF IsPending(c) THEN 1 ELSE 0

\* What every entry of the ledger satisfies, whether the budget is open or not.
EntryOK(c) ==
    /\ c.usage = "reported" => c.settle = "fulfilled"
    /\ c.settle = "pending" => c.outcome # "succeeded" /\ c.pc # "answer"
    /\ c.pc = "race" => c.outcome # "succeeded"
    /\ c.pc = "answer" => /\ c.settle = "fulfilled" /\ c.usage = "reported"
                          /\ ~c.late /\ c.outcome # "succeeded"
    /\ c.pc = "done" => \/ c.outcome = "rejected"
                        \/ /\ c.outcome = "succeeded" /\ c.settle = "fulfilled"
                           /\ c.usage = "reported" /\ ~c.late

\* While the budget is open nobody has been aborted.
OpenEntryOK(c) ==
    /\ c.usage # "unknown"
    /\ c.settle = "pending" => c.pc = "race" /\ c.outcome = "pending"
    /\ c.pc = "answer" => c.outcome = "pending"

\* Once it is closed nobody waits for a provider.
ShutEntryOK(c) ==
    /\ c.pc # "race"
    /\ c.pc = "answer" => c.outcome = "rejected"

Books(h) ==
    /\ \E k \in 0..MaxAttempts : Ledger(h) = 1..k
    /\ h.reserved = Total([i \in Ids |-> WantOf(h.call[i])])
    /\ h.active = Total([i \in Ids |-> ActOf(h.call[i])])
    /\ h.active <= MaxConcurrent
    /\ \A i \in Ledger(h) : EntryOK(h.call[i])

Open(h) ==
    /\ h.obsOut + h.reserved <= MaxObservedOutput /\ h.obsIn <= MaxObservedInput
    /\ \A i \in Ledger(h) : OpenEntryOK(h.call[i])

Shut(h) == h.sealed /\ \A i \in Ledger(h) : ShutEntryOK(h.call[i])

CallInv(h) == Books(h) /\ (h.closed = None => Open(h)) /\ (h.closed # None => Shut(h))

Live(t) == t.st \in {"fetch", "read"}

FlightOf(t) == (IF Live(t) THEN 1 ELSE 0) + (IF t.cancel = "pending" THEN 1 ELSE 0)

\* What a transport may still have in flight at once.
WeightOf(t) == IF Live(t) THEN 2 ELSE IF t.cancel = "pending" THEN 1 ELSE 0

TransportOK(t) ==
    /\ t.recOps = FlightOf(t)
    /\ t.recOpen = (IF t.sdk THEN 1 ELSE 0) + (IF t.producer THEN 1 ELSE 0)
    /\ t.producer <=> Live(t)
    /\ t.cancel # "refused"
    /\ t.cancel # "no" => t.failed /\ t.st \in {"read", "end"}
    /\ t.st = "idle" => ~t.failed

WokenOK(h) == h.woken => Settled(h)

Native(h) ==
    /\ \A i \in Ids : TransportOK(h.net[i])
    /\ h.pending = Total([i \in Ids |-> h.net[i].recOps])
    /\ h.transports = Total([i \in Ids |-> h.net[i].recOpen])
    /\ Total([i \in Ids |-> WeightOf(h.net[i])]) <= 2 * MaxConcurrent
    /\ WokenOK(h)

PairOK(c, t) ==
    /\ t.sdk => IsPending(c)
    /\ IsPending(c) /\ t.st = "idle" => t.sdk
    /\ c # None => t.instrumented
    /\ c = None => t.st = "idle"

\* While the budget is open a call that was answered has nothing native left.
OpenPairOK(c, t) == IsPending(c) \/ WeightOf(t) = 0

Linked(h) ==
    /\ \A i \in Ids : PairOK(h.call[i], h.net[i])
    /\ h.closed = None => \A i \in Ids : OpenPairOK(h.call[i], h.net[i])
    /\ Ledger(h) # {} => h.instrumented

HostInv(h) == h \in Host /\ CallInv(h) /\ Native(h) /\ Linked(h)

FinInv(h, f) ==
    /\ f # "run" => h.sealed
    /\ f \in {"release", "released"} => Settled(h)
    /\ f = "released" => h.active = 0
    /\ f = "kept" => Ledger(h) = {}

BudgetInv == TypeOK /\ HostInv(m) /\ FinInv(m, fin)
-----------------------------------------------------------------------------
(* Sums.                                                                   *)

LEMMA NumbersAreNat ==
    /\ MaxAttempts \in Nat /\ MaxAttempts # 0 /\ MaxConcurrent \in Nat /\ MaxConcurrent # 0
    /\ MaxBytesPerCall \in Nat /\ MaxTotalBytes \in Nat /\ MaxObservedInput \in Nat
    /\ MaxObservedOutput \in Nat /\ MaxOutputPerCall \in Nat /\ MaxOutputPerCall # 0
    /\ TransportCap \in Nat /\ PendingCap \in Nat
BY LimitsAssumption

\* A set of numbers that holds 0 and the successor of each of its members
\* below N holds every number up to N.
LEMMA UpTo ==
    ASSUME NEW N \in Nat, NEW T, 0 \in T, \A n \in 0..N : n < N /\ n \in T => n + 1 \in T
    PROVE  \A n \in 0..N : n \in T
<1> DEFINE Bad == {n \in Nat : n \in 0..N /\ n \notin T}
<1> SUFFICES ASSUME Bad # {} PROVE FALSE
  OBVIOUS
<1>1. PICK x \in Bad : \A y \in Bad : ~(<<y, x>> \in OpToRel(<, Nat))
  BY WFMin, NatLessThanWellFounded, Zenon
<1>a. x \in Nat /\ x \in 0..N /\ x \notin T
  OBVIOUS
<1>2. x \in Nat /\ x # 0 /\ x - 1 \in 0..N
  <2>1. x # 0
    BY <1>a
  <2> QED BY <1>a, <2>1
<1>3. x - 1 \notin Bad
  <2>1. <<x - 1, x>> \in OpToRel(<, Nat)
    BY <1>2 DEF OpToRel
  <2> QED BY <1>1, <2>1, Zenon
<1>4. x - 1 \in T
  BY <1>2, <1>3
<1>5. x \in T
  <2>1. x - 1 < N /\ (x - 1) + 1 = x
    BY <1>2
  <2> QED BY <1>2, <1>4, <2>1
<1> QED BY <1>5

LEMMA SumsExist ==
    ASSUME NEW f
    PROVE  \E s : s = [n \in 0..MaxAttempts |-> IF n = 0 THEN 0 ELSE s[n - 1] + f[n]]
<1> DEFINE Good(k, s) == s = [n \in 0..k |-> IF n = 0 THEN 0 ELSE s[n - 1] + f[n]]
           T == {k \in Nat : \E s : Good(k, s)}
<1>1. 0 \in T
  <2>1. Good(0, [n \in 0..0 |-> 0])
    OBVIOUS
  <2> QED BY <2>1
<1>2. ASSUME NEW k \in 0..MaxAttempts, k \in T
      PROVE  k + 1 \in T
  <2>0. k \in Nat
    BY NumbersAreNat
  <2>1. PICK s : Good(k, s)
    BY <1>2
  <2> DEFINE u == [n \in 0..(k + 1) |-> IF n = k + 1 THEN s[k] + f[k + 1] ELSE s[n]]
  <2>2. ASSUME NEW n \in 0..(k + 1)
        PROVE  u[n] = IF n = 0 THEN 0 ELSE u[n - 1] + f[n]
    <3>1. CASE n = k + 1
      BY <2>0, <3>1
    <3>2. CASE n # k + 1
      <4>1. n \in 0..k /\ (n # 0 => n - 1 \in 0..k /\ n - 1 # k + 1 /\ n - 1 \in 0..(k + 1))
        BY <2>0, <3>2
      <4>2. s[n] = IF n = 0 THEN 0 ELSE s[n - 1] + f[n]
        BY <2>1, <4>1
      <4> QED BY <3>2, <4>1, <4>2
    <3> QED BY <3>1, <3>2
  <2>3. Good(k + 1, u)
    BY <2>2
  <2> HIDE DEF Good
  <2> QED BY <2>0, <2>3
<1> HIDE DEF T
<1>3. MaxAttempts \in T
  BY <1>1, <1>2, UpTo, NumbersAreNat
<1> QED BY <1>3 DEF T

LEMMA SumsAre ==
    ASSUME NEW f
    PROVE  Sums(f) = [n \in 0..MaxAttempts |-> IF n = 0 THEN 0 ELSE Sums(f)[n - 1] + f[n]]
BY SumsExist DEF Sums

LEMMA SumsStep ==
    ASSUME NEW f
    PROVE  /\ Sums(f)[0] = 0
           /\ \A n \in 0..MaxAttempts : n < MaxAttempts => Sums(f)[n + 1] = Sums(f)[n] + f[n + 1]
<1>1. ASSUME NEW n \in 0..MaxAttempts, n < MaxAttempts
      PROVE  n + 1 \in 0..MaxAttempts /\ n + 1 # 0 /\ (n + 1) - 1 = n
  BY <1>1, NumbersAreNat
<1>2. 0 \in 0..MaxAttempts
  BY NumbersAreNat
<1> DEFINE s == Sums(f)
<1>3. s = [n \in 0..MaxAttempts |-> IF n = 0 THEN 0 ELSE s[n - 1] + f[n]]
  BY SumsAre
<1> HIDE DEF s
<1>4. s[0] = 0 /\ \A n \in 0..MaxAttempts : n < MaxAttempts => s[n + 1] = s[n] + f[n + 1]
  BY <1>1, <1>2, <1>3
<1> QED BY <1>4 DEF s
LEMMA IdsAre == \A n \in 0..MaxAttempts : n < MaxAttempts => n + 1 \in Ids /\ n \in Nat
BY NumbersAreNat DEF Ids

LEMMA SumsNat ==
    ASSUME NEW f \in [Ids -> Nat]
    PROVE  \A n \in 0..MaxAttempts : Sums(f)[n] \in Nat
<1> DEFINE T == {n \in Nat : Sums(f)[n] \in Nat}
<1>1. 0 \in T
  BY SumsStep
<1>2. ASSUME NEW n \in 0..MaxAttempts, n < MaxAttempts, n \in T
      PROVE  n + 1 \in T
  BY <1>2, SumsStep, IdsAre
<1>3. \A n \in 0..MaxAttempts : n \in T
  <2> HIDE DEF T
  <2> QED BY <1>1, <1>2, UpTo, NumbersAreNat
<1> QED BY <1>3

LEMMA TotalNat ==
    ASSUME NEW f \in [Ids -> Nat]
    PROVE  Total(f) \in Nat
BY SumsNat, NumbersAreNat DEF Total

LEMMA TotalMove ==
    ASSUME NEW f \in [Ids -> Nat], NEW g \in [Ids -> Nat], NEW i \in Ids,
           \A j \in Ids : j # i => g[j] = f[j]
    PROVE  Total(g) = Total(f) + g[i] - f[i]
<1> DEFINE gap(n) == IF n >= i THEN g[i] - f[i] ELSE 0
           T == {n \in Nat : Sums(g)[n] = Sums(f)[n] + gap(n)}
<1>0. i \in Nat /\ i # 0 /\ i <= MaxAttempts /\ f[i] \in Nat /\ g[i] \in Nat
  BY NumbersAreNat DEF Ids
<1>1. 0 \in T
  BY SumsStep, <1>0
<1>2. ASSUME NEW n \in 0..MaxAttempts, n < MaxAttempts, n \in T
      PROVE  n + 1 \in T
  <2>1. /\ Sums(g)[n + 1] = Sums(g)[n] + g[n + 1] /\ Sums(f)[n + 1] = Sums(f)[n] + f[n + 1]
        /\ n \in Nat /\ n + 1 \in Ids
    BY <1>2, SumsStep, IdsAre
  <2>2. Sums(f)[n] \in Nat /\ Sums(g)[n] \in Nat /\ f[n + 1] \in Nat /\ g[n + 1] \in Nat
    BY <2>1, SumsNat
  <2>3. Sums(g)[n] = Sums(f)[n] + gap(n)
    BY <1>2
  <2>4. CASE n + 1 = i
    BY <1>0, <2>1, <2>2, <2>3, <2>4
  <2>5. CASE n + 1 # i
    <3>1. g[n + 1] = f[n + 1]
      BY <2>1, <2>5
    <3>2. gap(n + 1) = gap(n) /\ gap(n) \in Int
      BY <1>0, <2>1, <2>5
    <3> HIDE DEF gap
    <3> QED BY <2>1, <2>2, <2>3, <3>1, <3>2
  <2> QED BY <2>4, <2>5
<1>3. \A n \in 0..MaxAttempts : n \in T
  <2> HIDE DEF T
  <2> QED BY <1>1, <1>2, UpTo, NumbersAreNat
<1>4. Sums(g)[MaxAttempts] = Sums(f)[MaxAttempts] + (g[i] - f[i])
  BY <1>0, <1>3, NumbersAreNat
<1>5. Sums(f)[MaxAttempts] \in Nat
  BY SumsNat, NumbersAreNat
<1> QED BY <1>0, <1>4, <1>5 DEF Total

LEMMA TotalDouble ==
    ASSUME NEW f \in [Ids -> Nat], NEW g \in [Ids -> Nat], \A j \in Ids : f[j] <= 2 * g[j]
    PROVE  Total(f) <= 2 * Total(g)
<1> DEFINE T == {n \in Nat : Sums(f)[n] <= 2 * Sums(g)[n]}
<1>1. 0 \in T
  BY SumsStep
<1>2. ASSUME NEW n \in 0..MaxAttempts, n < MaxAttempts, n \in T
      PROVE  n + 1 \in T
  <2>1. /\ Sums(g)[n + 1] = Sums(g)[n] + g[n + 1] /\ Sums(f)[n + 1] = Sums(f)[n] + f[n + 1]
        /\ n \in Nat /\ n + 1 \in Ids
    BY <1>2, SumsStep, IdsAre
  <2>2. Sums(f)[n] \in Nat /\ Sums(g)[n] \in Nat /\ f[n + 1] \in Nat /\ g[n + 1] \in Nat
    BY <2>1, SumsNat
  <2> QED BY <1>2, <2>1, <2>2
<1>3. \A n \in 0..MaxAttempts : n \in T
  <2> HIDE DEF T
  <2> QED BY <1>1, <1>2, UpTo, NumbersAreNat
<1> QED BY <1>3, NumbersAreNat DEF Total

LEMMA TotalLeq ==
    ASSUME NEW f \in [Ids -> Nat], NEW g \in [Ids -> Nat], \A j \in Ids : f[j] <= g[j]
    PROVE  Total(f) <= Total(g)
<1> DEFINE T == {n \in Nat : Sums(f)[n] <= Sums(g)[n]}
<1>1. 0 \in T
  BY SumsStep
<1>2. ASSUME NEW n \in 0..MaxAttempts, n < MaxAttempts, n \in T
      PROVE  n + 1 \in T
  <2>1. /\ Sums(g)[n + 1] = Sums(g)[n] + g[n + 1] /\ Sums(f)[n + 1] = Sums(f)[n] + f[n + 1]
        /\ n \in Nat /\ n + 1 \in Ids
    BY <1>2, SumsStep, IdsAre
  <2>2. Sums(f)[n] \in Nat /\ Sums(g)[n] \in Nat /\ f[n + 1] \in Nat /\ g[n + 1] \in Nat
    BY <2>1, SumsNat
  <2> QED BY <1>2, <2>1, <2>2
<1>3. \A n \in 0..MaxAttempts : n \in T
  <2> HIDE DEF T
  <2> QED BY <1>1, <1>2, UpTo, NumbersAreNat
<1> QED BY <1>3, NumbersAreNat DEF Total

LEMMA TotalElement ==
    ASSUME NEW f \in [Ids -> Nat], NEW i \in Ids
    PROVE  f[i] <= Total(f)
<1> DEFINE g == [f EXCEPT ![i] = 0]
<1>1. g \in [Ids -> Nat] /\ g[i] = 0 /\ \A j \in Ids : j # i => g[j] = f[j]
  OBVIOUS
<1> HIDE DEF g
<1>2. Total(g) = Total(f) + g[i] - f[i]
  BY <1>1, TotalMove
<1>3. Total(g) \in Nat /\ Total(f) \in Nat /\ f[i] \in Nat
  BY <1>1, TotalNat
<1> QED BY <1>1, <1>2, <1>3

LEMMA TotalLess ==
    ASSUME NEW f \in [Ids -> Nat], NEW g \in [Ids -> Nat], NEW i \in Ids,
           \A j \in Ids : f[j] <= g[j], f[i] < g[i]
    PROVE  Total(f) < Total(g)
<1> DEFINE u == [g EXCEPT ![i] = f[i]]
<1>1. u \in [Ids -> Nat] /\ u[i] = f[i] /\ \A j \in Ids : j # i => u[j] = g[j]
  OBVIOUS
<1> HIDE DEF u
<1>2. Total(u) = Total(g) + u[i] - g[i]
  BY <1>1, TotalMove
<1>3. Total(f) <= Total(u)
  <2>1. \A j \in Ids : f[j] <= u[j]
    BY <1>1
  <2> QED BY <1>1, <2>1, TotalLeq
<1>4. Total(f) \in Nat /\ Total(u) \in Nat /\ Total(g) \in Nat /\ f[i] \in Nat /\ g[i] \in Nat
  BY <1>1, TotalNat
<1> QED BY <1>1, <1>2, <1>3, <1>4

LEMMA TotalOfNone ==
    ASSUME NEW f \in [Ids -> Nat], \A j \in Ids : f[j] = 0
    PROVE  Total(f) = 0
<1> DEFINE T == {n \in Nat : Sums(f)[n] = 0}
<1>1. 0 \in T
  BY SumsStep
<1>2. ASSUME NEW n \in 0..MaxAttempts, n < MaxAttempts, n \in T
      PROVE  n + 1 \in T
  BY <1>2, SumsStep, IdsAre
<1>3. \A n \in 0..MaxAttempts : n \in T
  <2> HIDE DEF T
  <2> QED BY <1>1, <1>2, UpTo, NumbersAreNat
<1> QED BY <1>3, NumbersAreNat DEF Total

\* Counting the members of a set of attempts by ones.
LEMMA TotalCounts ==
    ASSUME NEW A \in SUBSET Ids
    PROVE  Total([i \in Ids |-> IF i \in A THEN 1 ELSE 0]) = Cardinality(A)
<1> DEFINE f == [i \in Ids |-> IF i \in A THEN 1 ELSE 0]
           B(n) == A \cap (1..n)
           T == {n \in Nat : Sums(f)[n] = Cardinality(B(n))}
<1>1. 0 \in T
  <2>1. B(0) = {}
    OBVIOUS
  <2> QED BY <2>1, SumsStep, FS_EmptySet
<1>2. ASSUME NEW n \in 0..MaxAttempts, n < MaxAttempts, n \in T
      PROVE  n + 1 \in T
  <2>1. n \in Nat /\ n + 1 \in Ids /\ Sums(f)[n + 1] = Sums(f)[n] + f[n + 1]
    BY <1>2, SumsStep, IdsAre
  <2>2. IsFiniteSet(B(n))
    <3>1. IsFiniteSet(1..n)
      BY <2>1, FS_Interval
    <3> QED BY <3>1, FS_Intersection
  <2>3. CASE n + 1 \in A
    <3>1. B(n + 1) = B(n) \cup {n + 1} /\ n + 1 \notin B(n) /\ f[n + 1] = 1
      BY <2>1, <2>3
    <3>2. Cardinality(B(n + 1)) = Cardinality(B(n)) + 1
      BY <2>2, <3>1, FS_AddElement
    <3> QED BY <1>2, <2>1, <3>1, <3>2
  <2>4. CASE n + 1 \notin A
    <3>1. B(n + 1) = B(n) /\ f[n + 1] = 0
      BY <2>1, <2>4
    <3>2. Cardinality(B(n)) \in Nat
      BY <2>2, FS_CardinalityType
    <3> QED BY <1>2, <2>1, <3>1, <3>2
  <2> QED BY <2>3, <2>4
<1>3. \A n \in 0..MaxAttempts : n \in T
  <2> HIDE DEF T
  <2> QED BY <1>1, <1>2, UpTo, NumbersAreNat
<1>4. B(MaxAttempts) = A
  BY DEF Ids
<1>5. Sums(f)[MaxAttempts] = Cardinality(B(MaxAttempts))
  BY <1>3, NumbersAreNat
<1> QED BY <1>4, <1>5 DEF Total
-----------------------------------------------------------------------------
(* Steps that change one transport. t is what transport i becomes; the     *)
(* scope's counters follow the records.                                    *)

\* What only the budget changes, and the seal.
SameBudget(h, g) ==
    /\ g.call = h.call /\ g.closed = h.closed /\ g.active = h.active /\ g.bytes = h.bytes
    /\ g.reserved = h.reserved /\ g.obsIn = h.obsIn /\ g.obsOut = h.obsOut
    /\ g.sealed = h.sealed

NetMove(h, g, i, t) ==
    /\ g \in Host /\ SameBudget(h, g)
    /\ g.instrumented = h.instrumented
    /\ t \in Transport /\ g.net = [h.net EXCEPT ![i] = t]
    /\ g.pending = h.pending + t.recOps - h.net[i].recOps
    /\ g.transports = h.transports + t.recOpen - h.net[i].recOpen
    /\ WokenOK(h) => WokenOK(g)

SetSt(t, x) == [t EXCEPT !.st = x]
SetCancel(t, x) == [t EXCEPT !.cancel = x]
SetFailed(t) == [t EXCEPT !.failed = TRUE]
DropSdk(t) == [t EXCEPT !.sdk = FALSE]
DropProducer(t) == [t EXCEPT !.producer = FALSE]
LessOps(t) == [t EXCEPT !.recOps = @ - 1]
MoreOps(t) == [t EXCEPT !.recOps = @ + 1]
LessOpen(t) == [t EXCEPT !.recOpen = @ - 1]
MoreOpen(t) == [t EXCEPT !.instrumented = TRUE, !.recOpen = @ + 1]

\* The fields of a host, for typing.
LEMMA HostFields ==
    ASSUME NEW h \in Host
    PROVE  /\ h.call \in [Ids -> Attempt \cup {None}] /\ h.net \in [Ids -> Transport]
           /\ h.active \in Nat /\ h.bytes \in Nat /\ h.reserved \in Nat /\ h.obsIn \in Nat
           /\ h.obsOut \in Nat /\ h.transports \in Nat /\ h.pending \in Nat
           /\ h.closed \in Codes \cup {None}
BY DEF Host

LEMMA TransportFields ==
    ASSUME NEW t \in Transport
    PROVE  /\ t.st \in {"idle", "fetch", "read", "end"}
           /\ t.cancel \in {"no", "pending", "settled", "refused"}
           /\ t.recOpen \in Nat /\ t.recOps \in Nat
BY DEF Transport

LEMMA NotifyIs ==
    ASSUME NEW h \in Host
    PROVE  /\ Notify(h) \in Host /\ SameBudget(h, Notify(h))
           /\ Notify(h).instrumented = h.instrumented
           /\ Notify(h).net = h.net /\ Notify(h).pending = h.pending
           /\ Notify(h).transports = h.transports
           /\ WokenOK(h) => WokenOK(Notify(h))
BY DEF Notify, Host, SameBudget, WokenOK, Settled

\* The ways a transport is changed keep its type and change one field.
LEMMA SetTyped ==
    ASSUME NEW t \in Transport
    PROVE  /\ \A x \in {"idle", "fetch", "read", "end"} : SetSt(t, x) \in Transport
           /\ \A x \in {"no", "pending", "settled", "refused"} : SetCancel(t, x) \in Transport
           /\ SetFailed(t) \in Transport /\ DropSdk(t) \in Transport /\ DropProducer(t) \in Transport
           /\ MoreOps(t) \in Transport /\ MoreOpen(t) \in Transport
           /\ t.recOps # 0 => LessOps(t) \in Transport
           /\ t.recOpen # 0 => LessOpen(t) \in Transport
<1>1. \A x \in {"idle", "fetch", "read", "end"} : SetSt(t, x) \in Transport
  BY DEF Transport, SetSt
<1>2. \A x \in {"no", "pending", "settled", "refused"} : SetCancel(t, x) \in Transport
  BY DEF Transport, SetCancel
<1>3. SetFailed(t) \in Transport
  BY DEF Transport, SetFailed
<1>4. DropSdk(t) \in Transport
  BY DEF Transport, DropSdk
<1>5. DropProducer(t) \in Transport
  BY DEF Transport, DropProducer
<1>6. MoreOps(t) \in Transport
  BY DEF Transport, MoreOps
<1>7. MoreOpen(t) \in Transport
  <2>1. t.recOpen + 1 \in Nat
    BY TransportFields
  <2> QED BY <2>1, Zenon DEF Transport, MoreOpen
<1>8. t.recOps # 0 => LessOps(t) \in Transport
  BY DEF Transport, LessOps
<1>9. t.recOpen # 0 => LessOpen(t) \in Transport
  BY DEF Transport, LessOpen
<1> QED BY <1>1, <1>2, <1>3, <1>4, <1>5, <1>6, <1>7, <1>8, <1>9

\* A change that neither counter sees.
LEMMA PlainMove ==
    ASSUME NEW h \in Host, NEW i \in Ids, NEW t \in Transport,
           t.recOps = h.net[i].recOps, t.recOpen = h.net[i].recOpen
    PROVE  NetMove(h, [h EXCEPT !.net[i] = t], i, t)
<1>1. PICK k : k = [h EXCEPT !.net[i] = t]
  OBVIOUS
<1>2. k \in Host /\ k.net = [h.net EXCEPT ![i] = t] /\ k.pending = h.pending
      /\ k.transports = h.transports
  BY <1>1 DEF Host
<1>3. SameBudget(h, k)
  BY <1>1 DEF Host, SameBudget
<1>4. k.instrumented = h.instrumented /\ k.woken = h.woken /\ k.sealed = h.sealed
  BY <1>1 DEF Host
<1>5. WokenOK(h) => WokenOK(k)
  BY <1>2, <1>4 DEF WokenOK, Settled
<1>6. h.pending \in Nat /\ h.transports \in Nat /\ t.recOps \in Nat /\ t.recOpen \in Nat
  BY HostFields, TransportFields
<1>7. NetMove(h, k, i, t)
  BY <1>2, <1>3, <1>4, <1>5, <1>6 DEF NetMove
<1> QED BY <1>1, <1>7
LEMMA MoveThenMove ==
    ASSUME NEW h \in Host, NEW g, NEW k, NEW i \in Ids, NEW t, NEW u,
           NetMove(h, g, i, t), NetMove(g, k, i, u)
    PROVE  NetMove(h, k, i, u)
<1>1. g.net[i] = t /\ k.net = [h.net EXCEPT ![i] = u]
  BY HostFields DEF NetMove
<1>2. /\ t.recOps \in Nat /\ u.recOps \in Nat /\ h.net[i].recOps \in Nat /\ h.pending \in Nat
      /\ t.recOpen \in Nat /\ u.recOpen \in Nat /\ h.net[i].recOpen \in Nat /\ h.transports \in Nat
  BY HostFields, TransportFields DEF NetMove
<1>3. /\ k.pending = h.pending + u.recOps - h.net[i].recOps
      /\ k.transports = h.transports + u.recOpen - h.net[i].recOpen
  BY <1>1, <1>2 DEF NetMove
<1>4. SameBudget(h, k) /\ k.instrumented = h.instrumented
  BY DEF NetMove, SameBudget
<1>5. k \in Host /\ u \in Transport /\ (WokenOK(h) => WokenOK(k))
  BY DEF NetMove
<1> QED BY <1>1, <1>3, <1>4, <1>5 DEF NetMove

LEMMA MoveThenNotify ==
    ASSUME NEW h \in Host, NEW g, NEW i \in Ids, NEW t, NetMove(h, g, i, t)
    PROVE  NetMove(h, Notify(g), i, t)
<1>1. g \in Host
  BY DEF NetMove
<1> QED BY <1>1, NotifyIs DEF NetMove, SameBudget

SetScope(h, n, p, r) == [h EXCEPT !.net = n, !.pending = p, !.transports = r]

LEMMA SetScopeIs ==
    ASSUME NEW h \in Host, NEW n \in [Ids -> Transport], NEW p \in Nat, NEW r \in Nat
    PROVE  \A k : k = SetScope(h, n, p, r) =>
           /\ k \in Host /\ SameBudget(h, k) /\ k.instrumented = h.instrumented
           /\ k.net = n /\ k.pending = p /\ k.transports = r /\ k.woken = h.woken
<1> TAKE k
<1> HAVE k = SetScope(h, n, p, r)
<1>1. k \in Host /\ k.net = n /\ k.pending = p /\ k.transports = r
  BY DEF SetScope, Host
<1>2. SameBudget(h, k)
  BY DEF SetScope, Host, SameBudget
<1>3. k.instrumented = h.instrumented /\ k.woken = h.woken
  BY DEF SetScope, Host
<1> QED BY <1>1, <1>2, <1>3

LEMMA OpSettledIs ==
    ASSUME NEW h \in Host, NEW i \in Ids, h.pending # 0, h.net[i].recOps # 0
    PROVE  NetMove(h, OpSettled(h, i), i, LessOps(h.net[i]))
<1> DEFINE k == [h EXCEPT !.pending = @ - 1, !.net[i].recOps = @ - 1]
           t == LessOps(h.net[i])
<1>1. t \in Transport /\ t.recOps = h.net[i].recOps - 1 /\ t.recOpen = h.net[i].recOpen
  <2>1. h.net[i] \in Transport
    BY HostFields
  <2>2. t \in Transport
    BY <2>1, SetTyped, Zenon
  <2> QED BY <2>1, <2>2 DEF LessOps, Transport
<1>2. k = SetScope(h, [h.net EXCEPT ![i] = t], h.pending - 1, h.transports)
  BY HostFields DEF SetScope, Host, LessOps
<1> HIDE DEF k, t
<1>3. /\ k \in Host /\ SameBudget(h, k) /\ k.instrumented = h.instrumented
      /\ k.net = [h.net EXCEPT ![i] = t] /\ k.pending = h.pending - 1
      /\ k.transports = h.transports /\ k.woken = h.woken
  <2>1. PICK n \in [Ids -> Transport] : n = [h.net EXCEPT ![i] = t]
    BY <1>1, HostFields
  <2>2. PICK p \in Nat : p = h.pending - 1
    BY HostFields
  <2>3. PICK r \in Nat : r = h.transports
    BY HostFields
  <2>4. k = SetScope(h, n, p, r)
    BY <1>2, <2>1, <2>2, <2>3
  <2>5. k \in Host
    BY <2>4, SetScopeIs
  <2>6. SameBudget(h, k)
    BY <2>4, SetScopeIs
  <2>7. k.instrumented = h.instrumented
    BY <2>4, SetScopeIs
  <2>8. k.net = n /\ k.pending = p /\ k.transports = r /\ k.woken = h.woken
    BY <2>4, SetScopeIs
  <2> QED BY <2>1, <2>2, <2>3, <2>5, <2>6, <2>7, <2>8
<1>4. NetMove(h, k, i, t)
  BY <1>1, <1>3, HostFields, TransportFields DEF NetMove, WokenOK, Settled
<1> QED BY <1>4, MoveThenNotify DEF OpSettled, k, t

LEMMA ClosedIs ==
    ASSUME NEW h \in Host, NEW i \in Ids, h.transports # 0, h.net[i].recOpen # 0
    PROVE  NetMove(h, Closed(h, i), i, LessOpen(h.net[i]))
<1> DEFINE k == [h EXCEPT !.transports = @ - 1, !.net[i].recOpen = @ - 1]
           t == LessOpen(h.net[i])
<1>1. t \in Transport /\ t.recOpen = h.net[i].recOpen - 1 /\ t.recOps = h.net[i].recOps
  <2>1. h.net[i] \in Transport
    BY HostFields
  <2>2. t \in Transport
    BY <2>1, SetTyped, Zenon
  <2> QED BY <2>1, <2>2 DEF LessOpen, Transport
<1>2. k = SetScope(h, [h.net EXCEPT ![i] = t], h.pending, h.transports - 1)
  BY HostFields DEF SetScope, Host, LessOpen
<1> HIDE DEF k, t
<1>3. /\ k \in Host /\ SameBudget(h, k) /\ k.instrumented = h.instrumented
      /\ k.net = [h.net EXCEPT ![i] = t] /\ k.transports = h.transports - 1
      /\ k.pending = h.pending /\ k.woken = h.woken
  <2>1. PICK n \in [Ids -> Transport] : n = [h.net EXCEPT ![i] = t]
    BY <1>1, HostFields
  <2>2. PICK p \in Nat : p = h.pending
    BY HostFields
  <2>3. PICK r \in Nat : r = h.transports - 1
    BY HostFields
  <2>4. k = SetScope(h, n, p, r)
    BY <1>2, <2>1, <2>2, <2>3
  <2>5. k \in Host
    BY <2>4, SetScopeIs
  <2>6. SameBudget(h, k)
    BY <2>4, SetScopeIs
  <2>7. k.instrumented = h.instrumented
    BY <2>4, SetScopeIs
  <2>8. k.net = n /\ k.pending = p /\ k.transports = r /\ k.woken = h.woken
    BY <2>4, SetScopeIs
  <2> QED BY <2>1, <2>2, <2>3, <2>5, <2>6, <2>7, <2>8
<1>4. NetMove(h, k, i, t)
  BY <1>1, <1>3, HostFields, TransportFields DEF NetMove, WokenOK, Settled
<1> QED BY <1>4, MoveThenNotify DEF Closed, k, t

LEMMA TrackedIs ==
    ASSUME NEW h \in Host, NEW i \in Ids, h.transports # 0
    PROVE  NetMove(h, Tracked(h, i), i, MoreOps(h.net[i]))
<1> DEFINE k == Tracked(h, i)
           t == MoreOps(h.net[i])
<1>1. t \in Transport /\ t.recOps = h.net[i].recOps + 1 /\ t.recOpen = h.net[i].recOpen
  <2>1. h.net[i] \in Transport
    BY HostFields
  <2>2. t \in Transport
    BY <2>1, SetTyped, Zenon
  <2> QED BY <2>1, <2>2 DEF MoreOps, Transport
<1>2. k = SetScope(h, [h.net EXCEPT ![i] = t], h.pending + 1, h.transports)
  BY HostFields DEF SetScope, Host, MoreOps, Tracked
<1> HIDE DEF k, t
<1>3. /\ k \in Host /\ SameBudget(h, k) /\ k.instrumented = h.instrumented
      /\ k.net = [h.net EXCEPT ![i] = t] /\ k.pending = h.pending + 1
      /\ k.transports = h.transports /\ k.woken = h.woken
  <2>1. PICK n \in [Ids -> Transport] : n = [h.net EXCEPT ![i] = t]
    BY <1>1, HostFields
  <2>2. PICK p \in Nat : p = h.pending + 1
    BY HostFields
  <2>3. PICK r \in Nat : r = h.transports
    BY HostFields
  <2>4. k = SetScope(h, n, p, r)
    BY <1>2, <2>1, <2>2, <2>3
  <2>5. k \in Host
    BY <2>4, SetScopeIs
  <2>6. SameBudget(h, k)
    BY <2>4, SetScopeIs
  <2>7. k.instrumented = h.instrumented
    BY <2>4, SetScopeIs
  <2>8. k.net = n /\ k.pending = p /\ k.transports = r /\ k.woken = h.woken
    BY <2>4, SetScopeIs
  <2> QED BY <2>1, <2>2, <2>3, <2>5, <2>6, <2>7, <2>8
<1>4. NetMove(h, k, i, t)
  BY <1>1, <1>3, HostFields, TransportFields DEF NetMove, WokenOK, Settled
<1> QED BY <1>4 DEF k, t
LEMMA PlainMoves ==
    ASSUME NEW h \in Host, NEW i \in Ids
    PROVE  /\ \A x \in {"idle", "fetch", "read", "end"} :
                NetMove(h, [h EXCEPT !.net[i].st = x], i, SetSt(h.net[i], x))
           /\ \A x \in {"no", "pending", "settled", "refused"} :
                NetMove(h, [h EXCEPT !.net[i].cancel = x], i, SetCancel(h.net[i], x))
           /\ NetMove(h, [h EXCEPT !.net[i].failed = TRUE], i, SetFailed(h.net[i]))
           /\ NetMove(h, [h EXCEPT !.net[i].sdk = FALSE], i, DropSdk(h.net[i]))
           /\ NetMove(h, [h EXCEPT !.net[i].producer = FALSE], i, DropProducer(h.net[i]))
<1>0. h.net[i] \in Transport
  BY HostFields
<1>1. ASSUME NEW x \in {"idle", "fetch", "read", "end"}
      PROVE  NetMove(h, [h EXCEPT !.net[i].st = x], i, SetSt(h.net[i], x))
  <2>1. PICK t \in Transport : t = SetSt(h.net[i], x)
    BY <1>0, SetTyped
  <2>2. t.recOps = h.net[i].recOps /\ t.recOpen = h.net[i].recOpen
    BY <1>0, <2>1 DEF SetSt, Transport
  <2>3. [h EXCEPT !.net[i].st = x] = [h EXCEPT !.net[i] = t]
    BY <2>1, Zenon DEF SetSt
  <2> QED BY <2>1, <2>2, <2>3, PlainMove
<1>2. ASSUME NEW x \in {"no", "pending", "settled", "refused"}
      PROVE  NetMove(h, [h EXCEPT !.net[i].cancel = x], i, SetCancel(h.net[i], x))
  <2>1. PICK t \in Transport : t = SetCancel(h.net[i], x)
    BY <1>0, SetTyped
  <2>2. t.recOps = h.net[i].recOps /\ t.recOpen = h.net[i].recOpen
    BY <1>0, <2>1 DEF SetCancel, Transport
  <2>3. [h EXCEPT !.net[i].cancel = x] = [h EXCEPT !.net[i] = t]
    BY <2>1, Zenon DEF SetCancel
  <2> QED BY <2>1, <2>2, <2>3, PlainMove
<1>3. NetMove(h, [h EXCEPT !.net[i].failed = TRUE], i, SetFailed(h.net[i]))
  <2>1. PICK t \in Transport : t = SetFailed(h.net[i])
    BY <1>0, SetTyped
  <2>2. t.recOps = h.net[i].recOps /\ t.recOpen = h.net[i].recOpen
    BY <1>0, <2>1 DEF SetFailed, Transport
  <2>3. [h EXCEPT !.net[i].failed = TRUE] = [h EXCEPT !.net[i] = t]
    BY <2>1, Zenon DEF SetFailed
  <2> QED BY <2>1, <2>2, <2>3, PlainMove
<1>4. NetMove(h, [h EXCEPT !.net[i].sdk = FALSE], i, DropSdk(h.net[i]))
  <2>1. PICK t \in Transport : t = DropSdk(h.net[i])
    BY <1>0, SetTyped
  <2>2. t.recOps = h.net[i].recOps /\ t.recOpen = h.net[i].recOpen
    BY <1>0, <2>1 DEF DropSdk, Transport
  <2>3. [h EXCEPT !.net[i].sdk = FALSE] = [h EXCEPT !.net[i] = t]
    BY <2>1, Zenon DEF DropSdk
  <2> QED BY <2>1, <2>2, <2>3, PlainMove
<1>5. NetMove(h, [h EXCEPT !.net[i].producer = FALSE], i, DropProducer(h.net[i]))
  <2>1. PICK t \in Transport : t = DropProducer(h.net[i])
    BY <1>0, SetTyped
  <2>2. t.recOps = h.net[i].recOps /\ t.recOpen = h.net[i].recOpen
    BY <1>0, <2>1 DEF DropProducer, Transport
  <2>3. [h EXCEPT !.net[i].producer = FALSE] = [h EXCEPT !.net[i] = t]
    BY <2>1, Zenon DEF DropProducer
  <2> QED BY <2>1, <2>2, <2>3, PlainMove
<1> QED BY <1>1, <1>2, <1>3, <1>4, <1>5

LEMMA Moved ==
    ASSUME NEW h \in Host, NEW g, NEW i \in Ids, NEW t, NetMove(h, g, i, t)
    PROVE  /\ g \in Host /\ t \in Transport /\ g.net[i] = t
           /\ t.recOps = h.net[i].recOps => g.pending = h.pending
           /\ t.recOpen = h.net[i].recOpen => g.transports = h.transports
BY HostFields, TransportFields DEF NetMove

\* The fields a change leaves alone.
LEMMA SetFields ==
    ASSUME NEW t \in Transport
    PROVE  /\ \A x \in {"idle", "fetch", "read", "end"} :
                /\ SetSt(t, x).recOps = t.recOps /\ SetSt(t, x).recOpen = t.recOpen
                /\ SetSt(t, x).st = x /\ SetSt(t, x).cancel = t.cancel
           /\ \A x \in {"no", "pending", "settled", "refused"} :
                /\ SetCancel(t, x).recOps = t.recOps /\ SetCancel(t, x).recOpen = t.recOpen
                /\ SetCancel(t, x).st = t.st /\ SetCancel(t, x).cancel = x
           /\ SetFailed(t).recOps = t.recOps /\ SetFailed(t).recOpen = t.recOpen
           /\ SetFailed(t).st = t.st /\ SetFailed(t).cancel = t.cancel
           /\ DropSdk(t).recOps = t.recOps /\ DropSdk(t).recOpen = t.recOpen
           /\ DropSdk(t).st = t.st /\ DropSdk(t).cancel = t.cancel
           /\ DropProducer(t).recOps = t.recOps /\ DropProducer(t).recOpen = t.recOpen
           /\ DropProducer(t).st = t.st /\ DropProducer(t).cancel = t.cancel
           /\ MoreOps(t).recOpen = t.recOpen /\ MoreOps(t).recOps = t.recOps + 1
           /\ MoreOps(t).st = t.st /\ MoreOps(t).cancel = t.cancel
           /\ LessOps(t).recOpen = t.recOpen /\ LessOps(t).recOps = t.recOps - 1
           /\ LessOps(t).st = t.st /\ LessOps(t).cancel = t.cancel
           /\ LessOpen(t).recOpen = t.recOpen - 1 /\ LessOpen(t).recOps = t.recOps
           /\ LessOpen(t).st = t.st /\ LessOpen(t).cancel = t.cancel
           /\ MoreOpen(t).recOpen = t.recOpen + 1 /\ MoreOpen(t).recOps = t.recOps
           /\ MoreOpen(t).st = t.st /\ MoreOpen(t).cancel = t.cancel
BY DEF Transport, SetSt, SetCancel, SetFailed, DropSdk, DropProducer, MoreOps, MoreOpen, LessOps,
       LessOpen

\* ... and the flags.
LEMMA SetFlags ==
    ASSUME NEW t \in Transport
    PROVE  /\ \A x \in {"idle", "fetch", "read", "end"} :
                /\ SetSt(t, x).failed = t.failed /\ SetSt(t, x).sdk = t.sdk
                /\ SetSt(t, x).producer = t.producer /\ SetSt(t, x).instrumented = t.instrumented
           /\ \A x \in {"no", "pending", "settled", "refused"} :
                /\ SetCancel(t, x).failed = t.failed /\ SetCancel(t, x).sdk = t.sdk
                /\ SetCancel(t, x).producer = t.producer
                /\ SetCancel(t, x).instrumented = t.instrumented
           /\ SetFailed(t).failed = TRUE /\ SetFailed(t).sdk = t.sdk
           /\ SetFailed(t).producer = t.producer /\ SetFailed(t).instrumented = t.instrumented
           /\ DropSdk(t).failed = t.failed /\ DropSdk(t).sdk = FALSE
           /\ DropSdk(t).producer = t.producer /\ DropSdk(t).instrumented = t.instrumented
           /\ DropProducer(t).failed = t.failed /\ DropProducer(t).sdk = t.sdk
           /\ DropProducer(t).producer = FALSE /\ DropProducer(t).instrumented = t.instrumented
           /\ MoreOps(t).failed = t.failed /\ MoreOps(t).sdk = t.sdk
           /\ MoreOps(t).producer = t.producer /\ MoreOps(t).instrumented = t.instrumented
           /\ LessOps(t).failed = t.failed /\ LessOps(t).sdk = t.sdk
           /\ LessOps(t).producer = t.producer /\ LessOps(t).instrumented = t.instrumented
           /\ LessOpen(t).failed = t.failed /\ LessOpen(t).sdk = t.sdk
           /\ LessOpen(t).producer = t.producer /\ LessOpen(t).instrumented = t.instrumented
           /\ MoreOpen(t).failed = t.failed /\ MoreOpen(t).sdk = t.sdk
           /\ MoreOpen(t).producer = t.producer /\ MoreOpen(t).instrumented = TRUE
BY DEF Transport, SetSt, SetCancel, SetFailed, DropSdk, DropProducer, MoreOps, MoreOpen, LessOps,
       LessOpen
-----------------------------------------------------------------------------
(* The operations of a transport.                                          *)

LEMMA AdmitCancelIs ==
    ASSUME NEW h \in Host, NEW i \in Ids, h.net[i].cancel = "no", h.net[i].producer,
           h.pending < PendingCap, h.transports # 0
    PROVE  NetMove(h, AdmitCancel(h, i), i, MoreOps(SetCancel(h.net[i], "pending")))
<1> DEFINE g == [h EXCEPT !.net[i].cancel = "pending"]
           t == SetCancel(h.net[i], "pending")
<1>1. NetMove(h, g, i, t)
  BY PlainMoves
<1>2. AdmitCancel(h, i) = Tracked(g, i)
  BY DEF AdmitCancel
<1>a. t.recOpen = h.net[i].recOpen
  BY SetFields, HostFields
<1> HIDE DEF g, t
<1>3. g \in Host /\ g.net[i] = t
  BY <1>1, Moved
<1>4. g.transports # 0
  BY <1>a, <1>1, Moved
<1>5. NetMove(g, Tracked(g, i), i, MoreOps(t))
  BY <1>3, <1>4, TrackedIs
<1>6. NetMove(h, Tracked(g, i), i, MoreOps(t))
  BY <1>1, <1>5, MoveThenMove
<1> QED BY <1>2, <1>6 DEF t

LEMMA EndReadIs ==
    ASSUME NEW h \in Host, NEW i \in Ids, h.net[i].cancel # "refused", h.net[i].producer,
           h.transports # 0, h.net[i].recOpen # 0
    PROVE  NetMove(h, EndRead(h, i), i, LessOpen(DropProducer(SetSt(h.net[i], "end"))))
<1> DEFINE e == [h EXCEPT !.net[i].st = "end"]
           t == SetSt(h.net[i], "end")
           g == [e EXCEPT !.net[i].producer = FALSE]
           u == DropProducer(t)
<1>1. EndRead(h, i) = Closed(g, i)
  BY DEF EndRead
<1>2. NetMove(h, e, i, t)
  BY PlainMoves
<1>3. t \in Transport /\ t.recOpen = h.net[i].recOpen
  BY SetFields, SetTyped, HostFields
<1> HIDE DEF t, e
<1>4. e \in Host /\ e.net[i] = t
  BY <1>2, Moved
<1>5. NetMove(e, g, i, u)
  BY <1>4, PlainMoves
<1>6. u \in Transport /\ u.recOpen = h.net[i].recOpen
  BY <1>3, SetFields, SetTyped
<1> HIDE DEF u, g
<1>7. NetMove(h, g, i, u)
  BY <1>2, <1>5, MoveThenMove
<1>8. g \in Host /\ g.net[i] = u /\ g.transports # 0
  BY <1>6, <1>7, Moved
<1>9. NetMove(g, Closed(g, i), i, LessOpen(u))
  BY <1>6, <1>8, ClosedIs
<1>10. NetMove(h, Closed(g, i), i, LessOpen(u))
  BY <1>7, <1>9, MoveThenMove
<1> QED BY <1>1, <1>10 DEF u, t

\* What the counters allow.
LEMMA NativeFacts ==
    ASSUME NEW h \in Host, Native(h), NEW i \in Ids
    PROVE  /\ TransportOK(h.net[i]) /\ h.net[i] \in Transport
           /\ h.net[i].recOps <= h.pending /\ h.net[i].recOpen <= h.transports
           /\ h.pending <= PendingCap
           /\ h.net[i].st = "read" /\ h.net[i].cancel = "no" => h.pending < PendingCap
<1> DEFINE ops == [j \in Ids |-> h.net[j].recOps]
           opens == [j \in Ids |-> h.net[j].recOpen]
           weights == [j \in Ids |-> WeightOf(h.net[j])]
<1>1. \A j \in Ids : /\ h.net[j] \in Transport /\ TransportOK(h.net[j])
                     /\ h.net[j].recOps \in Nat /\ h.net[j].recOpen \in Nat
  BY HostFields, TransportFields DEF Native
<1>2. \A j \in Ids : /\ WeightOf(h.net[j]) \in Nat /\ h.net[j].recOps <= WeightOf(h.net[j])
                     /\ h.net[j].st = "read" /\ h.net[j].cancel = "no"
                            => h.net[j].recOps < WeightOf(h.net[j])
  BY <1>1 DEF TransportOK, FlightOf, WeightOf, Live
<1>3. ops \in [Ids -> Nat] /\ opens \in [Ids -> Nat] /\ weights \in [Ids -> Nat]
  BY <1>1, <1>2
<1>4. /\ \A j \in Ids : ops[j] = h.net[j].recOps /\ opens[j] = h.net[j].recOpen
      /\ \A j \in Ids : ops[j] <= weights[j]
      /\ h.net[i].st = "read" /\ h.net[i].cancel = "no" => ops[i] < weights[i]
  BY <1>2
<1>5. h.pending = Total(ops) /\ h.transports = Total(opens) /\ Total(weights) <= 2 * MaxConcurrent
  BY DEF Native
<1> HIDE DEF ops, opens, weights
<1>6. Total(ops) \in Nat /\ Total(opens) \in Nat /\ Total(weights) \in Nat
  BY <1>3, TotalNat
<1>7. Total(ops) <= Total(weights)
  BY <1>3, <1>4, TotalLeq
<1>8. h.net[i].st = "read" /\ h.net[i].cancel = "no" => Total(ops) < Total(weights)
  BY <1>3, <1>4, TotalLess
<1>9. ops[i] <= Total(ops) /\ opens[i] <= Total(opens)
  BY <1>3, TotalElement
<1>10. 2 * MaxConcurrent <= PendingCap /\ MaxConcurrent \in Nat /\ PendingCap \in Nat
  BY CapsAssumption, NumbersAreNat
<1> QED BY <1>1, <1>4, <1>5, <1>6, <1>7, <1>8, <1>9, <1>10

\* A transport that changes, and stays what it should be, keeps the scope right.
LEMMA NativeMove ==
    ASSUME NEW h \in Host, Native(h), NEW i \in Ids, NEW g, NEW t, NetMove(h, g, i, t),
           TransportOK(t),
           Total([j \in Ids |-> WeightOf(g.net[j])]) <= 2 * MaxConcurrent
    PROVE  Native(g)
<1> DEFINE ops(k) == [j \in Ids |-> k.net[j].recOps]
           opens(k) == [j \in Ids |-> k.net[j].recOpen]
<1>1. g \in Host /\ t \in Transport /\ g.net[i] = t /\ \A j \in Ids : j # i => g.net[j] = h.net[j]
  BY HostFields DEF NetMove
<1>2. \A j \in Ids : TransportOK(g.net[j])
  BY <1>1 DEF Native
<1>3. /\ ops(h) \in [Ids -> Nat] /\ ops(g) \in [Ids -> Nat]
      /\ opens(h) \in [Ids -> Nat] /\ opens(g) \in [Ids -> Nat]
      /\ \A j \in Ids : j # i => ops(g)[j] = ops(h)[j] /\ opens(g)[j] = opens(h)[j]
      /\ ops(h)[i] = h.net[i].recOps /\ opens(h)[i] = h.net[i].recOpen
      /\ ops(g)[i] = t.recOps /\ opens(g)[i] = t.recOpen
  BY <1>1, HostFields, TransportFields
<1>4. h.pending = Total(ops(h)) /\ h.transports = Total(opens(h))
  BY DEF Native
<1>5. /\ g.pending = h.pending + t.recOps - h.net[i].recOps
      /\ g.transports = h.transports + t.recOpen - h.net[i].recOpen /\ WokenOK(g)
  BY DEF NetMove, Native
<1>6. g.pending = Total(ops(g)) /\ g.transports = Total(opens(g))
  <2> HIDE DEF ops, opens
  <2> QED BY <1>3, <1>4, <1>5, TotalMove
<1> QED BY <1>2, <1>5, <1>6 DEF Native

LEMMA WeightFalls ==
    ASSUME NEW h \in Host, Native(h), NEW i \in Ids, NEW g, NEW t, NetMove(h, g, i, t),
           WeightOf(t) <= WeightOf(h.net[i])
    PROVE  Total([j \in Ids |-> WeightOf(g.net[j])]) <= 2 * MaxConcurrent
<1> DEFINE w(k) == [j \in Ids |-> WeightOf(k.net[j])]
<1>1. g.net[i] = t /\ \A j \in Ids : j # i => g.net[j] = h.net[j]
  BY HostFields DEF NetMove
<1>2. \A u : WeightOf(u) \in Nat
  BY DEF WeightOf
<1>3. w(h) \in [Ids -> Nat] /\ w(g) \in [Ids -> Nat] /\ \A j \in Ids : w(g)[j] <= w(h)[j]
  BY <1>1, <1>2
<1>4. Total(w(h)) <= 2 * MaxConcurrent
  BY DEF Native
<1> HIDE DEF w
<1>5. Total(w(g)) <= Total(w(h)) /\ Total(w(g)) \in Nat /\ Total(w(h)) \in Nat
  BY <1>3, TotalLeq, TotalNat
<1>6. Total(w(g)) <= 2 * MaxConcurrent
  BY <1>4, <1>5, NumbersAreNat
<1> QED BY <1>6 DEF w
\* A cancellation is admitted; a read ends.
Cancelled(t) == MoreOps(SetCancel(t, "pending"))
Ended(t) == LessOpen(DropProducer(SetSt(t, "end")))

LEMMA CancelledFields ==
    ASSUME NEW t \in Transport, NEW u, u = Cancelled(t)
    PROVE  /\ u \in Transport /\ u.recOps = t.recOps + 1 /\ u.recOpen = t.recOpen
           /\ u.st = t.st /\ u.cancel = "pending" /\ u.failed = t.failed /\ u.sdk = t.sdk
           /\ u.producer = t.producer /\ u.instrumented = t.instrumented
<1>1. u \in Transport
  BY SetTyped DEF Cancelled
<1> QED BY <1>1 DEF Cancelled, MoreOps, SetCancel, Transport

LEMMA EndedFields ==
    ASSUME NEW t \in Transport, t.recOpen # 0, NEW u, u = Ended(t)
    PROVE  /\ u \in Transport /\ u.recOps = t.recOps /\ u.recOpen = t.recOpen - 1
           /\ u.st = "end" /\ u.cancel = t.cancel /\ u.failed = t.failed /\ u.sdk = t.sdk
           /\ u.producer = FALSE /\ u.instrumented = t.instrumented
<1>1. PICK v \in Transport : v = SetSt(t, "end")
  BY SetTyped
<1>2. PICK w \in Transport : w = DropProducer(v)
  BY SetTyped
<1>3. u = LessOpen(w)
  BY <1>1, <1>2 DEF Ended
<1>4. w.recOpen # 0
  BY <1>1, <1>2, SetFields
<1>5. u \in Transport
  BY <1>3, <1>4, SetTyped
<1>6. /\ u.recOps = t.recOps /\ u.recOpen = t.recOpen - 1 /\ u.st = "end" /\ u.cancel = t.cancel
  BY <1>1, <1>2, <1>3, SetFields
<1>7. /\ u.failed = t.failed /\ u.sdk = t.sdk /\ u.producer = FALSE
      /\ u.instrumented = t.instrumented
  <2>1. /\ v.failed = t.failed /\ v.sdk = t.sdk /\ v.instrumented = t.instrumented
    BY <1>1, SetFlags
  <2>2. /\ w.failed = v.failed /\ w.sdk = v.sdk /\ w.producer = FALSE
        /\ w.instrumented = v.instrumented
    BY <1>2, SetFlags
  <2>3. /\ u.failed = w.failed /\ u.sdk = w.sdk /\ u.producer = w.producer
        /\ u.instrumented = w.instrumented
    BY <1>3 DEF LessOpen, Transport
  <2> QED BY <2>1, <2>2, <2>3
<1> QED BY <1>5, <1>6, <1>7

\* A transport with something in flight goes on, or ends.
Shift(h, g, i) ==
    \E t : /\ NetMove(h, g, i, t) /\ TransportOK(t)
           /\ FlightOf(h.net[i]) # 0 /\ WeightOf(t) <= WeightOf(h.net[i])
           /\ t.sdk = h.net[i].sdk /\ t.instrumented = h.net[i].instrumented
           /\ t.st # "idle" /\ h.net[i].st # "idle"

LEMMA StopShifts ==
    ASSUME NEW h \in Host, Native(h), NEW i \in Ids, Live(h.net[i])
    PROVE  /\ Stop(h, i) = h \/ Shift(h, Stop(h, i), i)
           /\ Stop(h, i).net[i].st = h.net[i].st
<1> DEFINE c == h.net[i]
           f == [h EXCEPT !.net[i].failed = TRUE]
           t == SetFailed(c)
<1>0. c \in Transport /\ TransportOK(c) /\ c.recOpen <= h.transports
  BY NativeFacts
<1>1. CASE c.failed
  BY <1>1 DEF Stop
<1>2. CASE ~c.failed
  <2>1. c.cancel = "no" /\ c.producer /\ c.recOpen # 0 /\ FlightOf(c) # 0 /\ c.st # "idle"
    BY <1>0, <1>2 DEF TransportOK, FlightOf, Live, Transport
  <2>2. NetMove(h, f, i, t)
    BY PlainMoves
  <2>3. /\ t \in Transport /\ t.recOps = c.recOps /\ t.recOpen = c.recOpen /\ t.st = c.st
        /\ t.cancel = c.cancel
    BY <1>0, SetFields, SetTyped
  <2>4. t.failed /\ t.sdk = c.sdk /\ t.producer = c.producer /\ t.instrumented = c.instrumented
    BY <1>0, SetFlags
  <2>5. f \in Host /\ f.net[i] = t /\ f.pending = h.pending /\ f.transports = h.transports
    <3>0. t.recOps = h.net[i].recOps /\ t.recOpen = h.net[i].recOpen
      BY <2>3
    <3> HIDE DEF f, t, c
    <3>1. f \in Host /\ f.net[i] = t
      BY <2>2, Moved
    <3>2. f.pending = h.pending /\ f.transports = h.transports
      <4>1. t.recOps \in Nat /\ t.recOpen \in Nat /\ h.pending \in Nat /\ h.transports \in Nat
        BY <2>3, HostFields, TransportFields
      <4> QED BY <2>2, <3>0, <4>1 DEF NetMove
    <3> QED BY <3>1, <3>2
  <2>6. CASE c.st # "read"
    <3>1. Stop(h, i) = f
      BY <1>2, <2>6 DEF Stop
    <3>2. TransportOK(t) /\ WeightOf(t) <= WeightOf(c)
      BY <1>0, <2>3, <2>4, <2>6 DEF TransportOK, FlightOf, WeightOf, Live
    <3> QED BY <2>1, <2>2, <2>3, <2>4, <2>5, <3>1, <3>2 DEF Shift
  <2>7. CASE c.st = "read"
    <3> DEFINE g == AdmitCancel(f, i)
               u == Cancelled(t)
    <3>1. Stop(h, i) = g
      BY <1>2, <2>7 DEF Stop
    <3>2. h.pending < PendingCap /\ h.transports # 0
      BY <1>0, <2>1, <2>7, NativeFacts, HostFields, TransportFields
    <3>3. NetMove(f, g, i, u)
      <4> HIDE DEF f, t, c
      <4> QED BY <2>1, <2>3, <2>4, <2>5, <3>2, AdmitCancelIs DEF Cancelled
    <3>4. NetMove(h, g, i, u)
      <4> HIDE DEF f, t, c, g, u
      <4> QED BY <2>2, <3>3, MoveThenMove
    <3>5. /\ u.recOps = c.recOps + 1 /\ u.recOpen = c.recOpen /\ u.st = c.st
          /\ u.cancel = "pending"
      <4> HIDE DEF t, c
      <4> QED BY <2>3, CancelledFields
    <3>6. u.failed /\ u.sdk = c.sdk /\ u.producer = c.producer /\ u.instrumented = c.instrumented
      <4> HIDE DEF t, c
      <4> QED BY <2>3, <2>4, CancelledFields
    <3> HIDE DEF u, c, g
    <3>7. TransportOK(u) /\ WeightOf(u) <= WeightOf(c)
      BY <1>0, <2>1, <2>7, <3>5, <3>6 DEF TransportOK, FlightOf, WeightOf, Live
    <3>8. g.net[i] = u
      BY <3>4, Moved
    <3>9. Shift(h, g, i)
      BY <2>1, <2>7, <3>4, <3>5, <3>6, <3>7 DEF Shift, c
    <3> QED BY <3>1, <3>5, <3>8, <3>9 DEF c
  <2> QED BY <2>6, <2>7
<1> QED BY <1>1, <1>2
\* A fetch or a read settles: its operation is no longer counted.
LEMMA OpDone ==
    ASSUME NEW h \in Host, Native(h), NEW i \in Ids, Live(h.net[i])
    PROVE  \E g, t : /\ g = OpSettled(h, i) /\ t = LessOps(h.net[i])
                     /\ NetMove(h, g, i, t) /\ g.net[i] = t /\ g \in Host /\ t \in Transport
                     /\ g.pending < PendingCap /\ g.transports # 0 /\ t.recOpen # 0
                     /\ t.recOps = h.net[i].recOps - 1 /\ t.recOpen = h.net[i].recOpen
                     /\ t.st = h.net[i].st /\ t.cancel = h.net[i].cancel
                     /\ t.producer /\ t.cancel # "refused"
                     /\ t.failed = h.net[i].failed /\ t.sdk = h.net[i].sdk
                     /\ t.instrumented = h.net[i].instrumented
<1>1. PICK c \in Transport : c = h.net[i]
  BY HostFields
<1>2. TransportOK(c) /\ c.recOps <= h.pending /\ c.recOpen <= h.transports /\ h.pending <= PendingCap
  BY <1>1, NativeFacts
<1>3. /\ c.recOps # 0 /\ c.recOpen # 0 /\ c.producer /\ c.cancel # "refused"
      /\ c.recOps \in Nat /\ c.recOpen \in Nat
  BY <1>1, <1>2, TransportFields DEF TransportOK, Live, FlightOf
<1>4. h.pending # 0 /\ h.transports # 0 /\ h.pending \in Nat /\ h.transports \in Nat
  BY <1>2, <1>3, HostFields
<1>5. PICK t : t = LessOps(c)
  OBVIOUS
<1>6. t \in Transport
  BY <1>3, <1>5, SetTyped
<1>7. t.recOps = c.recOps - 1 /\ t.recOpen = c.recOpen /\ t.st = c.st /\ t.cancel = c.cancel
  BY <1>5, SetFields
<1>8. t.failed = c.failed /\ t.sdk = c.sdk /\ t.producer = c.producer /\ t.instrumented = c.instrumented
  BY <1>5 DEF LessOps, Transport
<1>9. PICK g : g = OpSettled(h, i)
  OBVIOUS
<1>10. NetMove(h, g, i, t)
  BY <1>1, <1>3, <1>4, <1>5, <1>9, OpSettledIs
<1>11. g \in Host /\ g.net[i] = t
  BY <1>10, Moved
<1>12. g.pending = h.pending + t.recOps - c.recOps /\ g.transports = h.transports + t.recOpen - c.recOpen
  BY <1>1, <1>10 DEF NetMove
<1>13. g.pending < PendingCap /\ g.transports # 0 /\ t.recOpen # 0
  BY <1>2, <1>3, <1>4, <1>7, <1>12, NumbersAreNat
<1>14. t.producer /\ t.cancel # "refused"
  BY <1>3, <1>7, <1>8
<1> QED BY <1>1, <1>5, <1>6, <1>7, <1>8, <1>9, <1>10, <1>11, <1>13, <1>14

\* Then the read ends ...
LEMMA EndsRight ==
    ASSUME NEW h \in Host, NEW i \in Ids, NEW g \in Host, NEW t \in Transport, NetMove(h, g, i, t),
           NEW c \in Transport, c = h.net[i], TransportOK(c), Live(c), FlightOf(c) # 0,
           g.transports # 0, t.recOpen = c.recOpen, t.recOpen # 0, t.producer,
           t.recOps = IF t.cancel = "pending" THEN 1 ELSE 0,
           t.cancel # "refused", t.cancel # "no" => t.failed,
           t.sdk = c.sdk, t.instrumented = c.instrumented
    PROVE  Shift(h, EndRead(g, i), i)
<1>1. g.net[i] = t
  BY Moved
<1>2. PICK k : k = EndRead(g, i)
  OBVIOUS
<1>3. PICK u : u = Ended(t)
  OBVIOUS
<1>4. NetMove(g, k, i, u)
  BY <1>1, <1>2, <1>3, EndReadIs DEF Ended
<1>5. NetMove(h, k, i, u)
  BY <1>4, MoveThenMove
<1>6. /\ u \in Transport /\ u.recOps = t.recOps /\ u.recOpen = t.recOpen - 1
      /\ u.st = "end" /\ u.cancel = t.cancel
  BY <1>3, EndedFields
<1>7. u.failed = t.failed /\ u.sdk = c.sdk /\ u.producer = FALSE /\ u.instrumented = c.instrumented
  BY <1>3, EndedFields
<1>8. c.recOpen = (IF c.sdk THEN 1 ELSE 0) + 1
  BY DEF TransportOK
<1>9. TransportOK(u)
  BY <1>6, <1>7, <1>8 DEF TransportOK, FlightOf, Live
<1>10. WeightOf(u) <= WeightOf(c)
  BY <1>6 DEF WeightOf, Live
<1>11. c.st # "idle" /\ u.st # "idle"
  BY <1>6 DEF Live
<1> QED BY <1>2, <1>5, <1>7, <1>9, <1>10, <1>11 DEF Shift

\* ... or, after a failure, its body is cancelled first.
LEMMA CancelsRight ==
    ASSUME NEW h \in Host, NEW i \in Ids, NEW g \in Host, NEW t \in Transport, NetMove(h, g, i, t),
           NEW c \in Transport, c = h.net[i], TransportOK(c), Live(c), FlightOf(c) # 0,
           g.transports # 0, g.pending < PendingCap, t.recOpen = c.recOpen, t.recOpen # 0,
           t.producer, t.recOps = 0, t.cancel = "no", t.failed,
           t.sdk = c.sdk, t.instrumented = c.instrumented
    PROVE  Shift(h, EndRead(AdmitCancel(g, i), i), i)
<1>1. g.net[i] = t
  BY Moved
<1>2. PICK k : k = AdmitCancel(g, i)
  OBVIOUS
<1>3. PICK u : u = Cancelled(t)
  OBVIOUS
<1>4. NetMove(g, k, i, u)
  BY <1>1, <1>2, <1>3, AdmitCancelIs DEF Cancelled
<1>5. NetMove(h, k, i, u)
  BY <1>4, MoveThenMove
<1>6. /\ u \in Transport /\ u.recOps = 1 /\ u.recOpen = c.recOpen /\ u.cancel = "pending"
  BY <1>3, CancelledFields
<1>7. u.failed /\ u.sdk = c.sdk /\ u.producer /\ u.instrumented = c.instrumented
  BY <1>3, CancelledFields
<1>8. k \in Host
  BY <1>4, Moved
<1>9. k.transports # 0
  <2>1. k.transports = g.transports + u.recOpen - t.recOpen
    BY <1>1, <1>4 DEF NetMove
  <2> QED BY <1>6, <2>1, HostFields, TransportFields
<1>10. u.recOps = IF u.cancel = "pending" THEN 1 ELSE 0
  BY <1>6
<1>11. u.recOpen # 0 /\ u.cancel # "refused" /\ (u.cancel # "no" => u.failed)
  BY <1>6, <1>7
<1>12. Shift(h, EndRead(k, i), i)
  BY <1>5, <1>6, <1>7, <1>8, <1>9, <1>10, <1>11, EndsRight
<1> QED BY <1>2, <1>12
\* f is g with a failed transport i: u, where it was t.
FailedTo(h, g, t, f, u, i) ==
    /\ NetMove(h, f, i, u) /\ f \in Host /\ u \in Transport /\ f.net[i] = u
    /\ f.pending = g.pending /\ f.transports = g.transports
    /\ u.recOps = t.recOps /\ u.recOpen = t.recOpen /\ u.st = t.st /\ u.cancel = t.cancel
    /\ u.failed /\ u.sdk = t.sdk /\ u.producer = t.producer /\ u.instrumented = t.instrumented

LEMMA FailsRight ==
    ASSUME NEW h \in Host, NEW i \in Ids, NEW g \in Host, NEW t, NetMove(h, g, i, t), g.net[i] = t,
           NEW f, f = [g EXCEPT !.net[i].failed = TRUE]
    PROVE  \E u : FailedTo(h, g, t, f, u, i)
<1>1. PICK u : u = SetFailed(t)
  OBVIOUS
<1>2. NetMove(g, f, i, u)
  BY <1>1, PlainMoves
<1>3. t \in Transport
  BY HostFields
<1>4. /\ u \in Transport /\ u.recOps = t.recOps /\ u.recOpen = t.recOpen /\ u.st = t.st
      /\ u.cancel = t.cancel
  BY <1>1, <1>3, SetFields, SetTyped
<1>5. u.failed /\ u.sdk = t.sdk /\ u.producer = t.producer /\ u.instrumented = t.instrumented
  BY <1>1, <1>3 DEF SetFailed, Transport
<1>6. NetMove(h, f, i, u)
  BY <1>2, MoveThenMove
<1>7. f \in Host /\ f.net[i] = u
  BY <1>2, HostFields DEF NetMove
<1>8. f.pending = g.pending /\ f.transports = g.transports
  <2>1. f.pending = g.pending + u.recOps - t.recOps /\ f.transports = g.transports + u.recOpen - t.recOpen
    BY <1>2 DEF NetMove
  <2>2. t.recOps \in Nat /\ t.recOpen \in Nat /\ g.pending \in Nat /\ g.transports \in Nat
    BY <1>3, HostFields, TransportFields
  <2> QED BY <1>4, <2>1, <2>2
<1> QED BY <1>4, <1>5, <1>6, <1>7, <1>8 DEF FailedTo

LEMMA ReadsRight ==
    ASSUME NEW h \in Host, NEW i \in Ids, NEW g \in Host, NEW t \in Transport, NetMove(h, g, i, t),
           NEW c \in Transport, c = h.net[i], TransportOK(c), c.st = "fetch",
           g.transports # 0, t.recOpen = c.recOpen, t.producer, t.recOps = 0,
           t.cancel = "no", t.sdk = c.sdk, t.instrumented = c.instrumented
    PROVE  Shift(h, Tracked([g EXCEPT !.net[i].st = "read"], i), i)
<1>1. g.net[i] = t
  BY Moved
<1>2. PICK k : k = [g EXCEPT !.net[i].st = "read"]
  OBVIOUS
<1>3. PICK v : v = SetSt(t, "read")
  OBVIOUS
<1>4. NetMove(g, k, i, v)
  BY <1>1, <1>2, <1>3, PlainMoves
<1>5. /\ v \in Transport /\ v.recOps = 0 /\ v.recOpen = t.recOpen /\ v.cancel = "no" /\ v.st = "read"
  <2>1. v \in Transport
    BY <1>3, SetTyped
  <2> QED BY <1>3, <2>1 DEF SetSt, Transport
<1>6. v.sdk = t.sdk /\ v.producer /\ v.instrumented = t.instrumented
  BY <1>3 DEF SetSt, Transport
<1>7. k \in Host /\ k.net[i] = v
  BY <1>4, Moved
<1>8. k.transports # 0
  <2>1. k.transports = g.transports + v.recOpen - t.recOpen
    BY <1>1, <1>4 DEF NetMove
  <2> QED BY <1>5, <2>1, HostFields, TransportFields
<1>9. PICK u : u = MoreOps(v)
  OBVIOUS
<1>10. NetMove(k, Tracked(k, i), i, u)
  BY <1>7, <1>8, <1>9, TrackedIs
<1>11. /\ u \in Transport /\ u.recOps = 1 /\ u.recOpen = t.recOpen /\ u.cancel = "no" /\ u.st = "read"
  <2>1. u \in Transport
    BY <1>5, <1>9, SetTyped
  <2> QED BY <1>5, <1>9, <2>1 DEF MoreOps, Transport
<1>12. u.sdk = c.sdk /\ u.producer /\ u.instrumented = c.instrumented
  BY <1>5, <1>6, <1>9 DEF MoreOps, Transport
<1>13. NetMove(h, Tracked(k, i), i, u)
  BY <1>4, <1>7, <1>10, MoveThenMove
<1>14. c.recOpen = (IF c.sdk THEN 1 ELSE 0) + 1 /\ FlightOf(c) # 0
  BY DEF TransportOK, Live, FlightOf
<1>15. TransportOK(u) /\ WeightOf(u) <= WeightOf(c)
  BY <1>11, <1>12, <1>14 DEF TransportOK, FlightOf, Live, WeightOf
<1> QED BY <1>2, <1>11, <1>12, <1>13, <1>14, <1>15 DEF Shift

LEMMA FetchShifts ==
    ASSUME m \in Host, Native(m), NEW i \in Ids, NEW ok \in BOOLEAN, FetchSettles(i, ok)
    PROVE  Shift(m, m', i)
<1>1. PICK c \in Transport : c = m.net[i]
  BY HostFields
<1>2. TransportOK(c) /\ c.st = "fetch"
  BY <1>1, NativeFacts DEF FetchSettles
<1>3. Live(c) /\ FlightOf(c) # 0 /\ c.recOps = 1 /\ c.cancel = "no"
  BY <1>2 DEF TransportOK, FlightOf, Live
<1>4. PICK g, t : /\ g = OpSettled(m, i)
                  /\ NetMove(m, g, i, t) /\ g.net[i] = t /\ g \in Host /\ t \in Transport
                  /\ g.pending < PendingCap /\ g.transports # 0 /\ t.recOpen # 0
                  /\ t.recOps = c.recOps - 1 /\ t.recOpen = c.recOpen
                  /\ t.st = c.st /\ t.cancel = c.cancel
                  /\ t.producer /\ t.cancel # "refused"
                  /\ t.failed = c.failed /\ t.sdk = c.sdk
                  /\ t.instrumented = c.instrumented
  BY <1>1, <1>3, OpDone
<1>5. t.recOps = 0 /\ t.cancel = "no"
  BY <1>3, <1>4
<1>6. CASE ~ok
  <2>1. PICK f : f = [g EXCEPT !.net[i].failed = TRUE]
    OBVIOUS
  <2>a. PICK u : FailedTo(m, g, t, f, u, i)
    BY <1>4, <2>1, FailsRight
  <2>2. /\ NetMove(m, f, i, u) /\ f \in Host /\ u \in Transport
        /\ f.pending = g.pending /\ f.transports = g.transports
        /\ u.recOps = t.recOps /\ u.recOpen = t.recOpen /\ u.cancel = t.cancel
        /\ u.failed /\ u.sdk = t.sdk /\ u.producer = t.producer
        /\ u.instrumented = t.instrumented
    BY <2>a DEF FailedTo
  <2>3. m' = EndRead(f, i)
    BY <1>4, <1>6, <2>1 DEF FetchSettles
  <2>4. Shift(m, EndRead(f, i), i)
    <3>1. /\ u.recOps = IF u.cancel = "pending" THEN 1 ELSE 0
          /\ u.cancel # "refused"
          /\ u.cancel # "no" => u.failed
      BY <1>5, <2>2
    <3>2. f.transports # 0 /\ u.recOpen = c.recOpen /\ u.recOpen # 0
      BY <1>4, <2>2
    <3>3. u.producer /\ u.sdk = c.sdk /\ u.instrumented = c.instrumented
      BY <1>4, <2>2
    <3> QED BY <1>1, <1>2, <1>3, <2>2, <3>1, <3>2, <3>3, EndsRight
  <2> QED BY <2>3, <2>4
<1>7. CASE ok /\ c.failed
  <2>1. m' = EndRead(AdmitCancel(g, i), i)
    BY <1>4, <1>7 DEF FetchSettles
  <2>2. Shift(m, EndRead(AdmitCancel(g, i), i), i)
    BY <1>1, <1>2, <1>3, <1>4, <1>5, <1>7, CancelsRight
  <2> QED BY <2>1, <2>2
<1>8. CASE ok /\ ~c.failed
  <2>1. m' = Tracked([g EXCEPT !.net[i].st = "read"], i)
    BY <1>4, <1>8 DEF FetchSettles
  <2>2. Shift(m, Tracked([g EXCEPT !.net[i].st = "read"], i), i)
    BY <1>1, <1>2, <1>4, <1>5, ReadsRight
  <2> QED BY <2>1, <2>2
<1> QED BY <1>6, <1>7, <1>8

LEMMA ReadShifts ==
    ASSUME m \in Host, Native(m), NEW i \in Ids, NEW ok \in BOOLEAN, ReadSettles(i, ok)
    PROVE  Shift(m, m', i)
<1>1. PICK c \in Transport : c = m.net[i]
  BY HostFields
<1>2. TransportOK(c) /\ c.st = "read"
  BY <1>1, NativeFacts DEF ReadSettles
<1>3. /\ Live(c) /\ FlightOf(c) # 0 /\ c.recOps = 1 + (IF c.cancel = "pending" THEN 1 ELSE 0)
      /\ c.cancel # "no" => c.failed
  BY <1>2 DEF TransportOK, FlightOf, Live
<1>4. PICK g, t : /\ g = OpSettled(m, i)
                  /\ NetMove(m, g, i, t) /\ g.net[i] = t /\ g \in Host /\ t \in Transport
                  /\ g.pending < PendingCap /\ g.transports # 0 /\ t.recOpen # 0
                  /\ t.recOps = c.recOps - 1 /\ t.recOpen = c.recOpen
                  /\ t.st = c.st /\ t.cancel = c.cancel
                  /\ t.producer /\ t.cancel # "refused"
                  /\ t.failed = c.failed /\ t.sdk = c.sdk
                  /\ t.instrumented = c.instrumented
  BY <1>1, <1>3, OpDone
<1>5. /\ t.recOps = IF t.cancel = "pending" THEN 1 ELSE 0
      /\ t.cancel # "no" => t.failed
  BY <1>3, <1>4
<1>6. CASE ok \/ c.failed
  <2>1. m' = EndRead(g, i)
    BY <1>4, <1>6 DEF ReadSettles
  <2>2. Shift(m, EndRead(g, i), i)
    BY <1>1, <1>2, <1>3, <1>4, <1>5, EndsRight
  <2> QED BY <2>1, <2>2
<1>7. CASE ~(ok \/ c.failed)
  <2>1. PICK f : f = [g EXCEPT !.net[i].failed = TRUE]
    OBVIOUS
  <2>a. PICK u : FailedTo(m, g, t, f, u, i)
    BY <1>4, <2>1, FailsRight
  <2>2. /\ NetMove(m, f, i, u) /\ f \in Host /\ u \in Transport
        /\ f.pending = g.pending /\ f.transports = g.transports
        /\ u.recOps = t.recOps /\ u.recOpen = t.recOpen /\ u.cancel = t.cancel
        /\ u.failed /\ u.sdk = t.sdk /\ u.producer = t.producer
        /\ u.instrumented = t.instrumented
    BY <2>a DEF FailedTo
  <2>3. m' = EndRead(AdmitCancel(f, i), i)
    BY <1>4, <1>7, <2>1 DEF ReadSettles
  <2>4. Shift(m, EndRead(AdmitCancel(f, i), i), i)
    <3>1. u.cancel = "no" /\ u.recOps = 0
      BY <1>3, <1>4, <1>5, <1>7, <2>2
    <3>2. f.transports # 0 /\ f.pending < PendingCap /\ u.recOpen = c.recOpen /\ u.recOpen # 0
      BY <1>4, <2>2
    <3>3. u.producer /\ u.sdk = c.sdk /\ u.instrumented = c.instrumented
      BY <1>4, <2>2
    <3> QED BY <1>1, <1>2, <1>3, <2>2, <3>1, <3>2, <3>3, CancelsRight
  <2> QED BY <2>3, <2>4
<1> QED BY <1>6, <1>7

LEMMA CancelShifts ==
    ASSUME m \in Host, Native(m), NEW i \in Ids, CancelSettles(i)
    PROVE  Shift(m, m', i)
<1>1. PICK c \in Transport : c = m.net[i]
  BY HostFields
<1>2. TransportOK(c) /\ c.cancel = "pending" /\ c.recOps <= m.pending
  BY <1>1, NativeFacts DEF CancelSettles
<1>3. FlightOf(c) # 0 /\ c.recOps # 0 /\ c.recOps \in Nat /\ m.pending \in Nat /\ c.st # "idle"
  BY <1>2, HostFields, TransportFields DEF TransportOK, FlightOf, Live
<1>4. PICK k : k = [m EXCEPT !.net[i].cancel = "settled"]
  OBVIOUS
<1>5. PICK v : v = SetCancel(c, "settled")
  OBVIOUS
<1>6. NetMove(m, k, i, v)
  BY <1>1, <1>4, <1>5, PlainMoves
<1>7. v \in Transport /\ v.recOps = c.recOps /\ v.recOpen = c.recOpen /\ v.st = c.st /\ v.cancel = "settled"
  BY <1>5, SetFields, SetTyped
<1>8. /\ v.failed = c.failed /\ v.sdk = c.sdk /\ v.producer = c.producer
      /\ v.instrumented = c.instrumented
  BY <1>5 DEF SetCancel, Transport
<1>9. k \in Host /\ k.net[i] = v
  BY <1>6, Moved
<1>10. k.pending # 0
  <2>1. k.pending = m.pending + v.recOps - c.recOps
    BY <1>1, <1>6 DEF NetMove
  <2> QED BY <1>2, <1>3, <1>7, <2>1
<1>11. PICK u : u = LessOps(v)
  OBVIOUS
<1>12. NetMove(k, OpSettled(k, i), i, u)
  BY <1>3, <1>7, <1>9, <1>10, <1>11, OpSettledIs
<1>13. /\ u.recOps = c.recOps - 1 /\ u.recOpen = c.recOpen /\ u.st = c.st /\ u.cancel = "settled"
  BY <1>7, <1>11, SetFields
<1>14. /\ u.failed = c.failed /\ u.sdk = c.sdk /\ u.producer = c.producer
       /\ u.instrumented = c.instrumented
  BY <1>7, <1>8, <1>11 DEF LessOps, Transport
<1>15. NetMove(m, OpSettled(k, i), i, u)
  BY <1>6, <1>9, <1>12, MoveThenMove
<1>16. TransportOK(u)
  BY <1>2, <1>3, <1>13, <1>14 DEF TransportOK, FlightOf, Live
<1>17. WeightOf(u) <= WeightOf(c)
  BY <1>2, <1>13 DEF Live, WeightOf
<1>18. m' = OpSettled(k, i)
  BY <1>4 DEF CancelSettles
<1> QED BY <1>1, <1>3, <1>13, <1>14, <1>15, <1>16, <1>17, <1>18 DEF Shift
-----------------------------------------------------------------------------
(* A transport that goes on keeps the invariant.                           *)

\* What the end of a run relies on.
Stable(h, g) ==
    /\ h.sealed => g.sealed /\ Ledger(g) = Ledger(h) /\ g.active <= h.active
    /\ Settled(h) => Settled(g)

LEMMA SameCalls ==
    ASSUME NEW h, NEW g, SameBudget(h, g)
    PROVE  /\ Ledger(g) = Ledger(h)
           /\ CallInv(h) => CallInv(g)
           /\ Books(h) => Books(g)
<1>1. Ledger(g) = Ledger(h)
  BY DEF SameBudget, Ledger
<1>2. /\ g.call = h.call /\ g.closed = h.closed /\ g.active = h.active
      /\ g.reserved = h.reserved /\ g.obsIn = h.obsIn /\ g.obsOut = h.obsOut
  BY DEF SameBudget
<1>3. g.sealed = h.sealed
  BY DEF SameBudget
<1>4. Books(h) => Books(g)
  BY <1>1, <1>2 DEF Books
<1>5. Open(h) => Open(g)
  BY <1>1, <1>2 DEF Open
<1>6. Shut(h) => Shut(g)
  BY <1>1, <1>2, <1>3 DEF Shut
<1> QED BY <1>1, <1>2, <1>4, <1>5, <1>6 DEF CallInv

LEMMA SettledIsQuiet ==
    ASSUME NEW h \in Host, Native(h), Settled(h), NEW i \in Ids
    PROVE  /\ FlightOf(h.net[i]) = 0 /\ ~Live(h.net[i]) /\ ~h.net[i].sdk
           /\ h.net[i].recOpen = 0 /\ h.net[i].recOps = 0
<1>1. PICK c \in Transport : c = h.net[i]
  BY HostFields
<1>2. TransportOK(c) /\ c.recOps <= h.pending /\ c.recOpen <= h.transports
  BY <1>1, NativeFacts
<1>3. c.recOps = 0 /\ c.recOpen = 0
  BY <1>2, TransportFields, HostFields DEF Settled
<1> QED BY <1>1, <1>2, <1>3 DEF TransportOK, FlightOf, Live

LEMMA ShiftKeeps ==
    ASSUME NEW h, HostInv(h), NEW i \in Ids, NEW g, Shift(h, g, i)
    PROVE  HostInv(g) /\ Stable(h, g) /\ g.call = h.call
<1>0. h \in Host /\ CallInv(h) /\ Native(h) /\ Linked(h)
  BY DEF HostInv
<1>1. PICK t : /\ NetMove(h, g, i, t) /\ TransportOK(t)
               /\ FlightOf(h.net[i]) # 0 /\ WeightOf(t) <= WeightOf(h.net[i])
               /\ t.sdk = h.net[i].sdk /\ t.instrumented = h.net[i].instrumented
               /\ t.st # "idle" /\ h.net[i].st # "idle"
  BY DEF Shift
<1>2. /\ g \in Host /\ SameBudget(h, g) /\ g.net[i] = t
      /\ \A j \in Ids : j # i => g.net[j] = h.net[j]
  BY <1>0, <1>1, HostFields DEF NetMove
<1>3. g.instrumented = h.instrumented
  BY <1>1 DEF NetMove
<1>4. g.call = h.call /\ g.closed = h.closed /\ g.active = h.active
  BY <1>2 DEF SameBudget
<1>5. Native(g)
  <2>1. Total([j \in Ids |-> WeightOf(g.net[j])]) <= 2 * MaxConcurrent
    BY <1>0, <1>1, WeightFalls
  <2> QED BY <1>0, <1>1, <2>1, NativeMove
<1>6. CallInv(g) /\ Ledger(g) = Ledger(h)
  BY <1>0, <1>2, SameCalls
<1>7. Linked(g)
  <2>1. ASSUME NEW j \in Ids PROVE PairOK(g.call[j], g.net[j])
    <3>1. PairOK(h.call[j], h.net[j])
      BY <1>0 DEF Linked
    <3> QED BY <1>1, <1>2, <1>4, <3>1 DEF PairOK
  <2>2. ASSUME NEW j \in Ids, g.closed = None PROVE OpenPairOK(g.call[j], g.net[j])
    <3>1. OpenPairOK(h.call[j], h.net[j])
      BY <1>0, <1>4, <2>2 DEF Linked
    <3>2. CASE j # i
      BY <1>2, <1>4, <3>1, <3>2
    <3>3. CASE j = i
      <4>1. WeightOf(h.net[i]) # 0
        BY <1>1 DEF WeightOf, FlightOf
      <4> QED BY <1>2, <1>4, <3>1, <3>3, <4>1 DEF OpenPairOK
    <3> QED BY <3>2, <3>3
  <2>3. Ledger(g) # {} => g.instrumented
    BY <1>0, <1>3, <1>6 DEF Linked
  <2> QED BY <2>1, <2>2, <2>3 DEF Linked
<1>8. Stable(h, g)
  <2>1. ~Settled(h)
    BY <1>0, <1>1, SettledIsQuiet
  <2>2. h.sealed => g.sealed
    BY <1>2 DEF SameBudget
  <2> QED BY <1>0, <1>4, <1>6, <2>1, <2>2, HostFields DEF Stable
<1> QED BY <1>2, <1>4, <1>5, <1>6, <1>7, <1>8 DEF HostInv
-----------------------------------------------------------------------------
(* A transport opens.                                                      *)

OpenMove(h, g, i, t) ==
    /\ g \in Host /\ SameBudget(h, g) /\ g.instrumented
    /\ t \in Transport /\ g.net = [h.net EXCEPT ![i] = t]
    /\ g.pending = h.pending + t.recOps - h.net[i].recOps
    /\ g.transports = h.transports + t.recOpen - h.net[i].recOpen
    /\ ~h.woken => ~g.woken

LEMMA OpenedIs ==
    ASSUME NEW h \in Host, NEW i \in Ids, NEW t, t = MoreOpen(h.net[i])
    PROVE  OpenMove(h, Opened(h, i), i, t)
<1>1. PICK k : k = Opened(h, i)
  OBVIOUS
<1>2. t \in Transport
  BY HostFields, SetTyped
<1>3. t.recOps = h.net[i].recOps /\ t.recOpen = h.net[i].recOpen + 1
  BY HostFields DEF MoreOpen, Transport
<1>4. /\ k \in Host /\ k.net = [h.net EXCEPT ![i] = t] /\ k.pending = h.pending
      /\ k.transports = h.transports + 1
  <2>1. h.net \in [Ids -> Transport] /\ [h.net EXCEPT ![i] = t] \in [Ids -> Transport]
    BY <1>2, HostFields
  <2>2. h.transports + 1 \in Nat
    BY HostFields
  <2>3. k = [h EXCEPT !.instrumented = TRUE, !.transports = h.transports + 1,
                      !.net = [h.net EXCEPT ![i] = t]]
    BY <1>1, <2>1 DEF Opened, MoreOpen, Host
  <2> QED BY <2>1, <2>2, <2>3 DEF Host
<1>5. SameBudget(h, k)
  BY <1>1 DEF SameBudget, Opened, Host
<1>6. k.instrumented /\ k.woken = h.woken
  BY <1>1 DEF Opened, Host
<1>7. /\ h.net[i].recOps \in Nat /\ h.net[i].recOpen \in Nat /\ h.pending \in Nat
      /\ h.transports \in Nat
  BY HostFields, TransportFields
<1>8. /\ k.pending = h.pending + t.recOps - h.net[i].recOps
      /\ k.transports = h.transports + t.recOpen - h.net[i].recOpen
  BY <1>3, <1>4, <1>7
<1>9. OpenMove(h, k, i, t)
  BY <1>2, <1>4, <1>5, <1>6, <1>8 DEF OpenMove
<1> QED BY <1>1, <1>9

LEMMA OpenThenSet ==
    ASSUME NEW h \in Host, NEW g, NEW i \in Ids, NEW t, OpenMove(h, g, i, t),
           NEW u \in Transport, u.recOps = t.recOps, u.recOpen = t.recOpen
    PROVE  OpenMove(h, [g EXCEPT !.net[i] = u], i, u)
<1>1. PICK k : k = [g EXCEPT !.net[i] = u]
  OBVIOUS
<1>2. g \in Host /\ g.net = [h.net EXCEPT ![i] = t]
  BY DEF OpenMove
<1>3. NetMove(g, k, i, u)
  <2>1. g.net[i] = t
    BY <1>2, HostFields
  <2> QED BY <1>1, <1>2, <2>1, PlainMove
<1>4. k \in Host /\ SameBudget(g, k) /\ k.net = [h.net EXCEPT ![i] = u]
  BY <1>2, <1>3, HostFields DEF NetMove
<1>5. k.pending = g.pending /\ k.transports = g.transports
  BY <1>1, <1>2 DEF Host
<1>6. k.instrumented = g.instrumented /\ k.woken = g.woken
  BY <1>1, <1>2 DEF Host
<1>7. SameBudget(h, k)
  BY <1>4 DEF OpenMove, SameBudget
<1>8. OpenMove(h, k, i, u)
  BY <1>4, <1>5, <1>6, <1>7 DEF OpenMove
<1> QED BY <1>1, <1>8

LEMMA OpenThenTrack ==
    ASSUME NEW h \in Host, NEW g, NEW i \in Ids, NEW t, OpenMove(h, g, i, t),
           NEW u, u = MoreOps(t)
    PROVE  OpenMove(h, Tracked(g, i), i, u)
<1>1. PICK k : k = Tracked(g, i)
  OBVIOUS
<1>2. g \in Host /\ g.net = [h.net EXCEPT ![i] = t] /\ t \in Transport
  BY DEF OpenMove
<1>3. g.net[i] = t
  BY <1>2, HostFields
<1>4. u \in Transport /\ u.recOps = t.recOps + 1 /\ u.recOpen = t.recOpen
  <2>1. u \in Transport
    BY <1>2, SetTyped
  <2> QED BY <1>2, <2>1 DEF MoreOps, Transport
<1>5. k = SetScope(g, [h.net EXCEPT ![i] = u], g.pending + 1, g.transports)
  BY <1>1, <1>2, <1>3, HostFields DEF SetScope, Tracked, MoreOps, Host
<1>6. /\ k \in Host /\ SameBudget(g, k) /\ k.net = [h.net EXCEPT ![i] = u]
      /\ k.pending = g.pending + 1 /\ k.transports = g.transports
  <2>1. PICK n \in [Ids -> Transport] : n = [h.net EXCEPT ![i] = u]
    BY <1>4, HostFields
  <2>2. PICK p \in Nat : p = g.pending + 1
    BY <1>2, HostFields
  <2>3. g.transports \in Nat
    BY <1>2, HostFields
  <2>4. k = SetScope(g, n, p, g.transports)
    BY <1>5, <2>1, <2>2
  <2>5. k \in Host
    BY <1>2, <2>3, <2>4, SetScopeIs
  <2>6. SameBudget(g, k)
    BY <1>2, <2>3, <2>4, SetScopeIs
  <2>7. k.net = n /\ k.pending = p /\ k.transports = g.transports
    BY <1>2, <2>4 DEF SetScope, Host
  <2> QED BY <2>1, <2>2, <2>5, <2>6, <2>7
<1>7. k.instrumented = g.instrumented /\ k.woken = g.woken
  BY <1>1, <1>2 DEF Tracked, Host
<1>8. SameBudget(h, k)
  BY <1>6 DEF OpenMove, SameBudget
<1>9. /\ k.pending = h.pending + u.recOps - h.net[i].recOps
      /\ k.transports = h.transports + u.recOpen - h.net[i].recOpen
  <2>1. /\ h.net[i].recOps \in Nat /\ h.net[i].recOpen \in Nat /\ h.pending \in Nat
        /\ h.transports \in Nat /\ t.recOps \in Nat /\ t.recOpen \in Nat
    BY <1>2, HostFields, TransportFields
  <2>2. /\ g.pending = h.pending + t.recOps - h.net[i].recOps
        /\ g.transports = h.transports + t.recOpen - h.net[i].recOpen
    BY DEF OpenMove
  <2> QED BY <1>4, <1>6, <2>1, <2>2
<1>10. OpenMove(h, k, i, u)
  BY <1>4, <1>6, <1>7, <1>8, <1>9 DEF OpenMove
<1> QED BY <1>1, <1>10
\* What a started transport is, and what an SDK's is.
StartedTo(c, t) ==
    /\ t.st = "fetch" /\ t.cancel = c.cancel /\ t.failed = c.failed /\ t.sdk = c.sdk
    /\ t.producer /\ t.instrumented
    /\ t.recOps = c.recOps + 1 /\ t.recOpen = c.recOpen + 1

SdkTo(c, t) ==
    /\ t.st = c.st /\ t.cancel = c.cancel /\ t.failed = c.failed /\ t.sdk
    /\ t.producer = c.producer /\ t.instrumented
    /\ t.recOps = c.recOps /\ t.recOpen = c.recOpen + 1

RefusedTo(c, t) ==
    /\ t.st = "end" /\ t.cancel = c.cancel /\ t.failed /\ t.sdk = c.sdk
    /\ t.producer = c.producer /\ t.instrumented = c.instrumented
    /\ t.recOps = c.recOps /\ t.recOpen = c.recOpen

LEMMA StartIs ==
    ASSUME NEW h \in Host, NEW i \in Ids, ~Refuses(h), h.pending < PendingCap
    PROVE  \E t : OpenMove(h, StartTransport(h, i), i, t) /\ StartedTo(h.net[i], t)
<1>1. PICK c \in Transport : c = h.net[i]
  BY HostFields
<1>2. PICK v : v = MoreOpen(c)
  OBVIOUS
<1>3. PICK g : g = Opened(h, i)
  OBVIOUS
<1>4. OpenMove(h, g, i, v)
  BY <1>1, <1>2, <1>3, OpenedIs
<1>5. v \in Transport /\ g \in Host /\ g.net[i] = v
  BY <1>4, HostFields DEF OpenMove
<1>6. PICK w : w = [v EXCEPT !.producer = TRUE, !.st = "fetch"]
  OBVIOUS
<1>7. /\ w \in Transport /\ w.recOps = v.recOps /\ w.recOpen = v.recOpen /\ w.st = "fetch"
      /\ w.cancel = v.cancel
  BY <1>5, <1>6 DEF Transport
<1>8. PICK k : k = [g EXCEPT !.net[i] = w]
  OBVIOUS
<1>9. OpenMove(h, k, i, w)
  BY <1>4, <1>7, <1>8, OpenThenSet
<1>10. PICK t : t = MoreOps(w)
  OBVIOUS
<1>11. OpenMove(h, Tracked(k, i), i, t)
  BY <1>9, <1>10, OpenThenTrack
<1>12. StartTransport(h, i) = Tracked(k, i)
  <2>1. k = [g EXCEPT !.net[i].producer = TRUE, !.net[i].st = "fetch"]
    BY <1>5, <1>6, <1>8 DEF Host
  <2>2. ~(Refuses(h) \/ h.pending >= PendingCap)
    BY HostFields, NumbersAreNat
  <2> QED BY <1>3, <2>1, <2>2 DEF StartTransport
<1>13. /\ t.st = "fetch" /\ t.cancel = c.cancel /\ t.recOps = c.recOps + 1
       /\ t.recOpen = c.recOpen + 1
  <2>1. v.recOps = c.recOps /\ v.recOpen = c.recOpen + 1 /\ v.cancel = c.cancel
    BY <1>2 DEF MoreOpen, Transport
  <2>2. t.recOps = w.recOps + 1 /\ t.recOpen = w.recOpen /\ t.cancel = w.cancel /\ t.st = w.st
    BY <1>7, <1>10 DEF MoreOps, Transport
  <2> QED BY <1>7, <2>1, <2>2
<1>14. t.failed = c.failed /\ t.sdk = c.sdk /\ t.producer /\ t.instrumented
  <2>1. v.failed = c.failed /\ v.sdk = c.sdk /\ v.instrumented
    BY <1>2 DEF MoreOpen, Transport
  <2>2. w.failed = v.failed /\ w.sdk = v.sdk /\ w.producer /\ w.instrumented = v.instrumented
    BY <1>5, <1>6 DEF Transport
  <2>3. t.failed = w.failed /\ t.sdk = w.sdk /\ t.producer = w.producer /\ t.instrumented = w.instrumented
    BY <1>7, <1>10 DEF MoreOps, Transport
  <2> QED BY <2>1, <2>2, <2>3
<1> QED BY <1>1, <1>11, <1>12, <1>13, <1>14 DEF StartedTo

LEMMA SdkStartIs ==
    ASSUME NEW h \in Host, NEW i \in Ids
    PROVE  \E t : /\ OpenMove(h, [Opened(h, i) EXCEPT !.net[i].sdk = TRUE], i, t)
                  /\ SdkTo(h.net[i], t)
<1>1. PICK c \in Transport : c = h.net[i]
  BY HostFields
<1>2. PICK v : v = MoreOpen(c)
  OBVIOUS
<1>3. PICK g : g = Opened(h, i)
  OBVIOUS
<1>4. OpenMove(h, g, i, v)
  BY <1>1, <1>2, <1>3, OpenedIs
<1>5. v \in Transport /\ g \in Host /\ g.net[i] = v
  BY <1>4, HostFields DEF OpenMove
<1>6. PICK t : t = [v EXCEPT !.sdk = TRUE]
  OBVIOUS
<1>7. t \in Transport /\ t.recOps = v.recOps /\ t.recOpen = v.recOpen /\ t.st = v.st /\ t.cancel = v.cancel
  BY <1>5, <1>6 DEF Transport
<1>8. PICK k : k = [g EXCEPT !.net[i] = t]
  OBVIOUS
<1>9. OpenMove(h, k, i, t)
  BY <1>4, <1>7, <1>8, OpenThenSet
<1>10. k = [g EXCEPT !.net[i].sdk = TRUE]
  BY <1>5, <1>6, <1>8 DEF Host
<1>11. t.st = c.st /\ t.cancel = c.cancel /\ t.recOps = c.recOps /\ t.recOpen = c.recOpen + 1
  <2>1. v.recOps = c.recOps /\ v.recOpen = c.recOpen + 1 /\ v.cancel = c.cancel /\ v.st = c.st
    BY <1>2 DEF MoreOpen, Transport
  <2> QED BY <1>7, <2>1
<1>12. t.failed = c.failed /\ t.sdk /\ t.producer = c.producer /\ t.instrumented
  <2>1. v.failed = c.failed /\ v.producer = c.producer /\ v.instrumented
    BY <1>2 DEF MoreOpen, Transport
  <2>2. t.failed = v.failed /\ t.sdk /\ t.producer = v.producer /\ t.instrumented = v.instrumented
    BY <1>5, <1>6 DEF Transport
  <2> QED BY <2>1, <2>2
<1> QED BY <1>1, <1>3, <1>9, <1>10, <1>11, <1>12 DEF SdkTo

LEMMA RefusedIs ==
    ASSUME NEW h \in Host, NEW i \in Ids, Refuses(h) \/ h.pending >= PendingCap
    PROVE  \E t : NetMove(h, StartTransport(h, i), i, t) /\ RefusedTo(h.net[i], t)
<1>1. PICK c \in Transport : c = h.net[i]
  BY HostFields
<1>2. PICK t : t = [c EXCEPT !.failed = TRUE, !.st = "end"]
  OBVIOUS
<1>3. /\ t \in Transport /\ t.recOps = c.recOps /\ t.recOpen = c.recOpen /\ t.st = "end"
      /\ t.cancel = c.cancel
  BY <1>2 DEF Transport
<1>4. t.failed /\ t.sdk = c.sdk /\ t.producer = c.producer /\ t.instrumented = c.instrumented
  BY <1>2 DEF Transport
<1>5. NetMove(h, [h EXCEPT !.net[i] = t], i, t)
  BY <1>1, <1>3, PlainMove
<1>6. StartTransport(h, i) = [h EXCEPT !.net[i] = t]
  <2>1. StartTransport(h, i) = [h EXCEPT !.net[i].failed = TRUE, !.net[i].st = "end"]
    BY DEF StartTransport
  <2> QED BY <1>1, <1>2, <2>1 DEF Host
<1> QED BY <1>1, <1>3, <1>4, <1>5, <1>6 DEF RefusedTo
LEMMA NativeOpen ==
    ASSUME NEW h \in Host, Native(h), NEW i \in Ids, NEW k \in Host, k.net = h.net,
           k.pending = h.pending, k.transports = h.transports, ~k.woken,
           NEW g, NEW t, OpenMove(k, g, i, t), TransportOK(t),
           Total([j \in Ids |-> WeightOf(g.net[j])]) <= 2 * MaxConcurrent
    PROVE  Native(g)
<1> DEFINE ops(x) == [j \in Ids |-> x.net[j].recOps]
           opens(x) == [j \in Ids |-> x.net[j].recOpen]
<1>1. g \in Host /\ t \in Transport /\ g.net[i] = t /\ \A j \in Ids : j # i => g.net[j] = h.net[j]
  BY HostFields DEF OpenMove
<1>2. \A j \in Ids : TransportOK(g.net[j])
  BY <1>1 DEF Native
<1>3. /\ ops(h) \in [Ids -> Nat] /\ ops(g) \in [Ids -> Nat]
      /\ opens(h) \in [Ids -> Nat] /\ opens(g) \in [Ids -> Nat]
      /\ \A j \in Ids : j # i => ops(g)[j] = ops(h)[j] /\ opens(g)[j] = opens(h)[j]
      /\ ops(h)[i] = h.net[i].recOps /\ opens(h)[i] = h.net[i].recOpen
      /\ ops(g)[i] = t.recOps /\ opens(g)[i] = t.recOpen
  BY <1>1, HostFields, TransportFields
<1>4. h.pending = Total(ops(h)) /\ h.transports = Total(opens(h))
  BY DEF Native
<1>5. /\ g.pending = h.pending + t.recOps - h.net[i].recOps
      /\ g.transports = h.transports + t.recOpen - h.net[i].recOpen
  BY DEF OpenMove
<1>6. g.pending = Total(ops(g)) /\ g.transports = Total(opens(g))
  <2> HIDE DEF ops, opens
  <2> QED BY <1>3, <1>4, <1>5, TotalMove
<1>7. WokenOK(g)
  BY DEF OpenMove, WokenOK
<1> QED BY <1>2, <1>6, <1>7 DEF Native

\* While the budget is open the active calls pay for everything native.
LEMMA OpenWeights ==
    ASSUME NEW call \in [Ids -> Attempt \cup {None}], NEW net \in [Ids -> Transport],
           \A j \in Ids : OpenPairOK(call[j], net[j])
    PROVE  Total([j \in Ids |-> WeightOf(net[j])]) <= 2 * Total([j \in Ids |-> ActOf(call[j])])
<1> DEFINE w == [j \in Ids |-> WeightOf(net[j])]
           a == [j \in Ids |-> ActOf(call[j])]
<1>1. w \in [Ids -> Nat] /\ a \in [Ids -> Nat]
  BY DEF WeightOf, ActOf
<1>2. \A j \in Ids : w[j] <= 2 * a[j]
  BY DEF OpenPairOK, WeightOf, ActOf
<1> HIDE DEF w, a
<1>3. Total(w) <= 2 * Total(a)
  BY <1>1, <1>2, TotalDouble
<1> QED BY <1>3 DEF w, a

LEMMA OpenRoom ==
    ASSUME NEW h \in Host, CallInv(h), Native(h), Linked(h), h.closed = None,
           h.active < MaxConcurrent
    PROVE  h.transports < TransportCap /\ h.pending < PendingCap
<1> DEFINE o == [j \in Ids |-> h.net[j].recOpen]
           p == [j \in Ids |-> h.net[j].recOps]
           a == [j \in Ids |-> ActOf(h.call[j])]
<1>1. ASSUME NEW j \in Ids
      PROVE  /\ h.net[j].recOpen \in Nat /\ h.net[j].recOpen <= 2 * ActOf(h.call[j])
             /\ h.net[j].recOps \in Nat /\ h.net[j].recOps <= 2 * ActOf(h.call[j])
             /\ ActOf(h.call[j]) \in Nat
  <2>1. TransportOK(h.net[j]) /\ h.net[j] \in Transport
    BY NativeFacts
  <2>2. PairOK(h.call[j], h.net[j]) /\ OpenPairOK(h.call[j], h.net[j])
    BY DEF Linked
  <2>3. CASE IsPending(h.call[j])
    BY <2>1, <2>3, TransportFields DEF TransportOK, ActOf, FlightOf, Live
  <2>4. CASE ~IsPending(h.call[j])
    <3>1. WeightOf(h.net[j]) = 0 /\ ~h.net[j].sdk
      BY <2>2, <2>4 DEF PairOK, OpenPairOK
    <3> QED BY <2>1, <2>4, <3>1, TransportFields DEF TransportOK, ActOf, FlightOf, Live, WeightOf
  <2> QED BY <2>3, <2>4
<1>2. /\ o \in [Ids -> Nat] /\ p \in [Ids -> Nat] /\ a \in [Ids -> Nat]
      /\ \A j \in Ids : o[j] <= 2 * a[j]
      /\ \A j \in Ids : p[j] <= 2 * a[j]
  BY <1>1
<1>3. h.active = Total(a) /\ h.transports = Total(o) /\ h.pending = Total(p)
  BY DEF CallInv, Books, Native
<1> HIDE DEF o, a, p
<1>4. h.transports <= 2 * h.active /\ h.pending <= 2 * h.active
  BY <1>2, <1>3, TotalDouble
<1>5. h.active \in Nat /\ h.transports \in Nat /\ h.pending \in Nat
  BY HostFields
<1> QED BY <1>4, <1>5, CapsAssumption, NumbersAreNat

LEMMA SdkFetchKeeps ==
    ASSUME HostInv(m), NEW i \in Ids, SdkFetches(i)
    PROVE  HostInv(m') /\ Stable(m, m') /\ m'.call = m.call
<1>0. m \in Host /\ CallInv(m) /\ Native(m) /\ Linked(m)
  BY DEF HostInv
<1>1. PICK c \in Transport : c = m.net[i]
  BY <1>0, HostFields
<1>2. c.sdk /\ c.st = "idle" /\ ~c.failed
  BY <1>1 DEF SdkFetches
<1>3. TransportOK(c) /\ PairOK(m.call[i], c)
  BY <1>0, <1>1, NativeFacts DEF Linked
<1>4. c.cancel = "no" /\ c.recOps = 0 /\ c.recOpen = 1 /\ IsPending(m.call[i]) /\ ~c.producer
  BY <1>2, <1>3 DEF TransportOK, PairOK, FlightOf, Live
<1>5. c.instrumented
  BY <1>3, <1>4 DEF PairOK, IsPending
<1>6. ~Settled(m)
  BY <1>0, <1>1, <1>2, SettledIsQuiet
<1>7. m' = StartTransport(m, i)
  BY DEF SdkFetches
<1>8. PICK g : g = StartTransport(m, i)
  OBVIOUS
<1>9. ASSUME NEW t \in Transport, g \in Host, SameBudget(m, g), g.net = [m.net EXCEPT ![i] = t],
             t.sdk, t.instrumented, g.instrumented, Native(g)
      PROVE  HostInv(g) /\ Stable(m, g) /\ g.call = m.call
  <2>1. g.net[i] = t /\ \A j \in Ids : j # i => g.net[j] = m.net[j]
    BY <1>0, <1>9, HostFields
  <2>2. g.call = m.call /\ g.closed = m.closed /\ g.active = m.active
    BY <1>9 DEF SameBudget
  <2>3. CallInv(g) /\ Ledger(g) = Ledger(m)
    BY <1>0, <1>9, SameCalls
  <2>4. ASSUME NEW j \in Ids PROVE PairOK(g.call[j], g.net[j])
    <3>1. PairOK(m.call[j], m.net[j])
      BY <1>0 DEF Linked
    <3>2. CASE j # i
      BY <2>1, <2>2, <3>1, <3>2
    <3>3. CASE j = i
      BY <1>4, <1>9, <2>1, <2>2, <3>3 DEF PairOK, IsPending
    <3> QED BY <3>2, <3>3
  <2>5. ASSUME NEW j \in Ids, g.closed = None PROVE OpenPairOK(g.call[j], g.net[j])
    <3>1. OpenPairOK(m.call[j], m.net[j])
      BY <1>0, <2>2, <2>5 DEF Linked
    <3>2. CASE j # i
      BY <2>1, <2>2, <3>1, <3>2
    <3>3. CASE j = i
      BY <1>4, <2>1, <2>2, <3>3 DEF OpenPairOK
    <3> QED BY <3>2, <3>3
  <2>6. Linked(g)
    BY <1>9, <2>4, <2>5 DEF Linked
  <2>7. m.sealed => g.sealed
    BY <1>9 DEF SameBudget
  <2>8. Stable(m, g)
    BY <1>0, <1>6, <2>2, <2>3, <2>7, HostFields DEF Stable
  <2> QED BY <1>9, <2>2, <2>3, <2>6, <2>8 DEF HostInv
<1>10. CASE Refuses(m) \/ m.pending >= PendingCap
  <2>1. PICK t : NetMove(m, g, i, t) /\ RefusedTo(c, t)
    BY <1>0, <1>1, <1>8, <1>10, RefusedIs
  <2>2. /\ g \in Host /\ t \in Transport /\ SameBudget(m, g) /\ g.net = [m.net EXCEPT ![i] = t]
    BY <2>1 DEF NetMove
  <2>3. g.instrumented = m.instrumented
    BY <2>1 DEF NetMove
  <2>4. TransportOK(t) /\ WeightOf(t) <= WeightOf(c)
    BY <1>2, <1>4, <2>1 DEF RefusedTo, TransportOK, FlightOf, Live, WeightOf
  <2>5. Native(g)
    BY <1>0, <1>1, <2>1, <2>4, NativeMove, WeightFalls
  <2>6. m.instrumented
    BY <1>0, <1>4 DEF Linked, Ledger, IsPending
  <2>7. t.sdk /\ t.instrumented
    BY <1>2, <1>5, <2>1 DEF RefusedTo
  <2> QED BY <1>7, <1>8, <1>9, <2>2, <2>3, <2>5, <2>6, <2>7
<1>11. CASE ~(Refuses(m) \/ m.pending >= PendingCap)
  <2>0. m.pending < PendingCap
    BY <1>0, <1>11, HostFields, NumbersAreNat
  <2>1. PICK t : OpenMove(m, g, i, t) /\ StartedTo(c, t)
    BY <1>0, <1>1, <1>8, <1>11, <2>0, StartIs
  <2>2. /\ g \in Host /\ t \in Transport /\ SameBudget(m, g) /\ g.net = [m.net EXCEPT ![i] = t]
        /\ g.instrumented
    BY <2>1 DEF OpenMove
  <2>3. ~m.sealed
    BY <1>11 DEF Refuses
  <2>4. m.closed = None /\ ~m.woken
    BY <1>0, <2>3 DEF CallInv, Shut, Native, WokenOK, Settled
  <2>5. TransportOK(t)
    BY <1>2, <1>4, <2>1 DEF StartedTo, TransportOK, FlightOf, Live
  <2>6. Total([j \in Ids |-> WeightOf(g.net[j])]) <= 2 * MaxConcurrent
    <3>1. \A j \in Ids : OpenPairOK(m.call[j], g.net[j])
      BY <1>0, <1>4, <2>2, <2>4, HostFields DEF Linked, OpenPairOK
    <3>2. m.call \in [Ids -> Attempt \cup {None}] /\ g.net \in [Ids -> Transport]
      BY <1>0, <2>2, HostFields
    <3>3. PICK w : w = Total([j \in Ids |-> WeightOf(g.net[j])])
      OBVIOUS
    <3>4. w <= 2 * m.active /\ m.active <= MaxConcurrent /\ m.active \in Nat
      BY <1>0, <3>1, <3>2, <3>3, OpenWeights, HostFields DEF CallInv, Books
    <3>5. w \in Nat
      <4>1. [j \in Ids |-> WeightOf(g.net[j])] \in [Ids -> Nat]
        BY DEF WeightOf
      <4> QED BY <3>3, <4>1, TotalNat
    <3> QED BY <3>3, <3>4, <3>5, NumbersAreNat
  <2>7. Native(g)
    BY <1>0, <2>1, <2>4, <2>5, <2>6, NativeOpen
  <2>8. t.sdk /\ t.instrumented
    BY <1>2, <2>1 DEF StartedTo
  <2> QED BY <1>7, <1>8, <1>9, <2>2, <2>7, <2>8
<1> QED BY <1>10, <1>11
-----------------------------------------------------------------------------
(* A call is admitted.                                                     *)

Entry(want) == [want |-> want, settle |-> "pending", usage |-> "pending",
                outcome |-> "pending", late |-> FALSE, pc |-> "race"]

LEMMA EntryIs ==
    ASSUME NEW want \in Nat
    PROVE  /\ Entry(want) \in Attempt /\ Entry(want) # None
           /\ EntryOK(Entry(want)) /\ OpenEntryOK(Entry(want)) /\ IsPending(Entry(want))
           /\ WantOf(Entry(want)) = want /\ ActOf(Entry(want)) = 1
<1>1. Entry(want) \in Attempt
  BY DEF Entry, Attempt
<1>2. Entry(want) # None
  BY <1>1, NoneAssumption
<1>3. EntryOK(Entry(want)) /\ OpenEntryOK(Entry(want))
  BY DEF Entry, EntryOK, OpenEntryOK
<1>4. IsPending(Entry(want)) /\ Booked(Entry(want)) /\ Entry(want).want = want
  BY <1>2 DEF Entry, IsPending, Booked
<1> QED BY <1>1, <1>2, <1>3, <1>4 DEF WantOf, ActOf

LEMMA WantTyped ==
    ASSUME NEW c \in Attempt \cup {None}
    PROVE  WantOf(c) \in Nat /\ ActOf(c) \in Nat
<1>1. CASE c = None
  BY <1>1 DEF WantOf, ActOf, Booked
<1>2. CASE c \in Attempt
  BY <1>2 DEF WantOf, ActOf, Attempt
<1> QED BY <1>1, <1>2

\* One entry of the ledger changes, and the counters with it.
LEMMA BooksMove ==
    ASSUME NEW h \in Host, NEW g \in Host, NEW i \in Ids, NEW c \in Attempt \cup {None},
           g.call = [h.call EXCEPT ![i] = c],
           h.reserved = Total([j \in Ids |-> WantOf(h.call[j])]),
           h.active = Total([j \in Ids |-> ActOf(h.call[j])]),
           g.reserved = h.reserved + WantOf(c) - WantOf(h.call[i]),
           g.active = h.active + ActOf(c) - ActOf(h.call[i])
    PROVE  /\ g.reserved = Total([j \in Ids |-> WantOf(g.call[j])])
           /\ g.active = Total([j \in Ids |-> ActOf(g.call[j])])
<1> DEFINE wants(x) == [j \in Ids |-> WantOf(x.call[j])]
           acts(x) == [j \in Ids |-> ActOf(x.call[j])]
<1>1. g.call[i] = c /\ \A j \in Ids : j # i => g.call[j] = h.call[j]
  BY HostFields
<1>2. \A j \in Ids : h.call[j] \in Attempt \cup {None} /\ g.call[j] \in Attempt \cup {None}
  BY HostFields
<1>3. /\ wants(h) \in [Ids -> Nat] /\ wants(g) \in [Ids -> Nat]
      /\ acts(h) \in [Ids -> Nat] /\ acts(g) \in [Ids -> Nat]
  BY <1>2, WantTyped
<1>4. /\ \A j \in Ids : j # i => wants(g)[j] = wants(h)[j] /\ acts(g)[j] = acts(h)[j]
      /\ wants(h)[i] = WantOf(h.call[i]) /\ wants(g)[i] = WantOf(c)
      /\ acts(h)[i] = ActOf(h.call[i]) /\ acts(g)[i] = ActOf(c)
  BY <1>1
<1>5. h.reserved = Total(wants(h)) /\ h.active = Total(acts(h))
  OBVIOUS
<1> HIDE DEF wants, acts
<1>6. g.reserved = Total(wants(g)) /\ g.active = Total(acts(g))
  BY <1>3, <1>4, <1>5, TotalMove
<1> QED BY <1>6 DEF wants, acts

\* b is h with a new entry, i.
BookedTo(h, b, i, want) ==
    /\ i \in Ids /\ h.call[i] = None /\ b \in Host /\ b.net = h.net
    /\ b.pending = h.pending /\ b.transports = h.transports /\ b.woken = h.woken
    /\ b.sealed = h.sealed /\ b.closed = None
    /\ b.call = [h.call EXCEPT ![i] = Entry(want)] /\ b.active = h.active + 1
    /\ CallInv(b)

SetBooks(h, f, x, y, z) == [h EXCEPT !.call = f, !.active = x, !.bytes = y, !.reserved = z]

LEMMA SetBooksTyped ==
    ASSUME NEW h \in Host, NEW f \in [Ids -> Attempt \cup {None}],
           NEW x \in Nat, NEW y \in Nat, NEW z \in Nat
    PROVE  SetBooks(h, f, x, y, z) \in Host
BY DEF SetBooks, Host

LEMMA BookedIs ==
    ASSUME NEW h \in Host, CallInv(h), h.closed = None, NEW want \in Nat, want <= Available(h),
           NEW bytes \in Nat, NEW i, i = Cardinality(Ledger(h)) + 1, i <= MaxAttempts,
           h.active < MaxConcurrent, NEW b,
           b = [h EXCEPT !.call[i] = Entry(want), !.active = @ + 1, !.bytes = @ + bytes,
                         !.reserved = @ + want]
    PROVE  BookedTo(h, b, i, want)
<1>0. Books(h) /\ Open(h)
  BY DEF CallInv
<1>1. PICK k \in 0..MaxAttempts : Ledger(h) = 1..k
  BY <1>0 DEF Books
<1>2. i = k + 1 /\ k \in Nat /\ i \in Ids /\ i \notin Ledger(h)
  <2>1. k \in Nat
    BY NumbersAreNat
  <2>2. Cardinality(1..k) = k
    <3>1. 1 \in Int /\ k \in Int
      BY <2>1
    <3>2. Cardinality(1..k) = IF 1 > k THEN 0 ELSE k - 1 + 1
      BY <3>1, FS_Interval
    <3> QED BY <2>1, <3>2
  <2> QED BY <1>1, <2>1, <2>2, NumbersAreNat DEF Ids
<1>3. h.call[i] = None
  BY <1>2 DEF Ledger
<1>4. PICK e \in Attempt : e = Entry(want)
  BY EntryIs
<1>5. e # None /\ EntryOK(e) /\ OpenEntryOK(e) /\ WantOf(e) = want /\ ActOf(e) = 1
  BY <1>4, EntryIs
<1>6. /\ h.active \in Nat /\ h.bytes \in Nat /\ h.reserved \in Nat
      /\ h.call \in [Ids -> Attempt \cup {None}]
  BY HostFields
<1>7. /\ b \in Host /\ b.net = h.net /\ b.pending = h.pending /\ b.transports = h.transports
      /\ b.closed = None /\ b.call = [h.call EXCEPT ![i] = e] /\ b.active = h.active + 1
      /\ b.reserved = h.reserved + want /\ b.obsOut = h.obsOut /\ b.obsIn = h.obsIn
  <2>1. [h.call EXCEPT ![i] = e] \in [Ids -> Attempt \cup {None}]
    BY <1>2, <1>6
  <2>2. h.active + 1 \in Nat /\ h.bytes + bytes \in Nat /\ h.reserved + want \in Nat
    BY <1>6
  <2>3. b = [h EXCEPT !.call = [h.call EXCEPT ![i] = e], !.active = h.active + 1,
                      !.bytes = h.bytes + bytes, !.reserved = h.reserved + want]
    BY <1>4 DEF Host
  <2>4. b \in Host
    <3>1. PICK f \in [Ids -> Attempt \cup {None}] : f = [h.call EXCEPT ![i] = e]
      BY <2>1
    <3>2. PICK x \in Nat, y \in Nat, z \in Nat :
             x = h.active + 1 /\ y = h.bytes + bytes /\ z = h.reserved + want
      BY <2>2
    <3>3. b = SetBooks(h, f, x, y, z)
      BY <2>3, <3>1, <3>2 DEF SetBooks
    <3> QED BY <3>3, SetBooksTyped
  <2>5. /\ b.net = h.net /\ b.pending = h.pending /\ b.transports = h.transports
        /\ b.closed = h.closed /\ b.obsOut = h.obsOut /\ b.obsIn = h.obsIn
    BY <2>3 DEF Host
  <2>6. /\ b.call = [h.call EXCEPT ![i] = e] /\ b.active = h.active + 1
        /\ b.reserved = h.reserved + want
    BY <2>3 DEF Host
  <2> QED BY <2>4, <2>5, <2>6
<1>8. b.woken = h.woken /\ b.sealed = h.sealed
  BY DEF Host
<1>9. b.call[i] = e /\ \A j \in Ids : j # i => b.call[j] = h.call[j]
  BY <1>2, <1>6, <1>7
<1>10. Ledger(b) = Ledger(h) \cup {i}
  BY <1>2, <1>5, <1>9 DEF Ledger
<1>11. \E n \in 0..MaxAttempts : Ledger(b) = 1..n
  <2>1. k + 1 \in 0..MaxAttempts
    BY <1>2, NumbersAreNat
  <2>2. 1..(k + 1) = (1..k) \cup {k + 1}
    BY <1>2
  <2>3. Ledger(b) = 1..(k + 1)
    BY <1>1, <1>2, <1>10, <2>2
  <2> QED BY <2>1, <2>3
<1>12. WantOf(h.call[i]) = 0 /\ ActOf(h.call[i]) = 0
  BY <1>3 DEF WantOf, ActOf, Booked, IsPending
<1>13. /\ b.reserved = Total([j \in Ids |-> WantOf(b.call[j])])
       /\ b.active = Total([j \in Ids |-> ActOf(b.call[j])])
  <2>1. /\ b.reserved = h.reserved + WantOf(e) - WantOf(h.call[i])
        /\ b.active = h.active + ActOf(e) - ActOf(h.call[i])
    BY <1>5, <1>6, <1>7, <1>12
  <2>2. /\ h.reserved = Total([j \in Ids |-> WantOf(h.call[j])])
        /\ h.active = Total([j \in Ids |-> ActOf(h.call[j])])
    BY <1>0 DEF Books
  <2> QED BY <1>2, <1>7, <2>1, <2>2, BooksMove
<1>14. b.active <= MaxConcurrent
  BY <1>6, <1>7, NumbersAreNat
<1>15. \A j \in Ledger(b) : EntryOK(b.call[j]) /\ OpenEntryOK(b.call[j])
  BY <1>0, <1>5, <1>9, <1>10 DEF Books, Open, Ledger
<1>16. b.obsOut + b.reserved <= MaxObservedOutput /\ b.obsIn <= MaxObservedInput
  BY <1>0, <1>6, <1>7, HostFields, NumbersAreNat DEF Open, Available
<1>17. Books(b) /\ Open(b)
  BY <1>11, <1>13, <1>14, <1>15, <1>16 DEF Books, Open
<1> QED BY <1>2, <1>3, <1>4, <1>7, <1>8, <1>17 DEF CallInv, BookedTo
LEMMA MinOfThree ==
    ASSUME NEW x \in Nat, NEW y \in Nat, NEW z \in Nat
    PROVE  Min({x, y, z}) \in Nat /\ Min({x, y, z}) <= z
<1>1. \E a \in {x, y, z} : \A b \in {x, y, z} : a <= b
  <2>1. CASE x <= y /\ x <= z
    BY <2>1
  <2>2. CASE y <= x /\ y <= z
    BY <2>2
  <2>3. CASE z <= x /\ z <= y
    BY <2>3
  <2> QED BY <2>1, <2>2, <2>3
<1> QED BY <1>1 DEF Min

\* Nothing succeeds once the budget is closed.
NotLate(h, g) ==
    h.closed # None =>
        \A i \in Ids : g.call[i] # None /\ g.call[i].outcome = "succeeded"
                           => h.call[i].outcome = "succeeded"

Keeps(h, g) == HostInv(g) /\ Stable(h, g) /\ NotLate(h, g)

LEMMA AdmitKeeps ==
    ASSUME HostInv(m), NEW max \in 1..MaxOutputPerCall, NEW bytes \in 1..MaxBytesPerCall,
           client \in Clients, Admit(max, bytes)
    PROVE  Keeps(m, m')
<1>0. m \in Host /\ CallInv(m) /\ Native(m) /\ Linked(m)
  BY DEF HostInv
<1>1. PICK i : i = Cardinality(Ledger(m)) + 1
  OBVIOUS
<1>2. PICK want : want = Min({max, MaxOutputPerCall, Available(m)})
  OBVIOUS
<1>3. PICK b : b = [m EXCEPT !.call[i] = Entry(want), !.active = @ + 1, !.bytes = @ + bytes,
                             !.reserved = @ + want]
  OBVIOUS
<1>4. /\ m.closed = None /\ ~m.sealed /\ i <= MaxAttempts /\ m.active < MaxConcurrent
      /\ Available(m) > 0
      /\ m' = IF client = "openai" THEN StartTransport(b, i)
              ELSE [Opened(b, i) EXCEPT !.net[i].sdk = TRUE]
  BY <1>1, <1>2, <1>3 DEF Admit, Entry
<1>5. want \in Nat /\ want <= Available(m) /\ bytes \in Nat
  <2>1. Available(m) \in Nat
    BY <1>0, <1>4, HostFields, NumbersAreNat DEF Available
  <2>2. max \in Nat /\ MaxOutputPerCall \in Nat /\ bytes \in Nat
    BY NumbersAreNat
  <2> QED BY <1>2, <2>1, <2>2, MinOfThree
<1>6. /\ i \in Ids /\ m.call[i] = None /\ b \in Host /\ b.net = m.net
      /\ b.pending = m.pending /\ b.transports = m.transports
      /\ b.closed = None
      /\ b.call = [m.call EXCEPT ![i] = Entry(want)] /\ b.active = m.active + 1
      /\ CallInv(b)
  <2>1. BookedTo(m, b, i, want)
    BY <1>0, <1>1, <1>3, <1>4, <1>5, BookedIs
  <2> QED BY <2>1 DEF BookedTo
<1>7. b.woken = m.woken /\ b.sealed = m.sealed
  BY <1>0, <1>3 DEF Host
<1>8. ~m.woken
  BY <1>0, <1>4 DEF Native, WokenOK, Settled
<1>9. PICK c \in Transport : c = m.net[i]
  BY <1>0, <1>6, HostFields
<1>10. TransportOK(c) /\ PairOK(None, c)
  BY <1>0, <1>6, <1>9, NativeFacts DEF Linked
<1>11. c.st = "idle" /\ ~c.sdk /\ ~c.producer /\ ~c.failed /\ c.cancel = "no"
       /\ c.recOps = 0 /\ c.recOpen = 0
  BY <1>10 DEF TransportOK, PairOK, IsPending, FlightOf, Live
<1>12. PICK e : e = Entry(want) /\ e \in Attempt /\ e # None /\ IsPending(e)
  BY <1>5, EntryIs
<1>13. PICK g : g = m'
  OBVIOUS
<1>14. PICK t : /\ OpenMove(b, g, i, t) /\ t \in Transport /\ TransportOK(t) /\ t.instrumented
                /\ t.st = "idle" => t.sdk
  <2>1. CASE client = "openai"
    <3>1. b.transports < TransportCap /\ b.pending < PendingCap
      BY <1>0, <1>4, <1>6, OpenRoom
    <3>2. ~Refuses(b)
      BY <1>4, <1>6, <1>7, <3>1, HostFields, NumbersAreNat DEF Refuses
    <3>3. g = StartTransport(b, i)
      BY <1>4, <1>13, <2>1
    <3>4. PICK t : OpenMove(b, g, i, t) /\ StartedTo(c, t)
      BY <1>6, <1>9, <3>1, <3>2, <3>3, StartIs
    <3>5. TransportOK(t) /\ t.instrumented /\ t.st # "idle"
      BY <1>11, <3>4 DEF StartedTo, TransportOK, FlightOf, Live
    <3>6. t \in Transport
      BY <3>4 DEF OpenMove
    <3> QED BY <3>4, <3>5, <3>6
  <2>2. CASE client # "openai"
    <3>3. g = [Opened(b, i) EXCEPT !.net[i].sdk = TRUE]
      BY <1>4, <1>13, <2>2
    <3>4. PICK t : OpenMove(b, g, i, t) /\ SdkTo(c, t)
      BY <1>6, <1>9, <3>3, SdkStartIs
    <3>5. TransportOK(t) /\ t.instrumented /\ t.sdk
      BY <1>11, <3>4 DEF SdkTo, TransportOK, FlightOf, Live
    <3>6. t \in Transport
      BY <3>4 DEF OpenMove
    <3> QED BY <3>4, <3>5, <3>6
  <2> QED BY <2>1, <2>2
<1>15. /\ g \in Host /\ SameBudget(b, g) /\ g.instrumented /\ g.net = [b.net EXCEPT ![i] = t]
  BY <1>14 DEF OpenMove
<1>16. CallInv(g) /\ Ledger(g) = Ledger(b)
  BY <1>6, <1>15, SameCalls
<1>17. /\ g.call[i] = e /\ g.net[i] = t
       /\ \A j \in Ids : j # i => g.call[j] = m.call[j] /\ g.net[j] = m.net[j]
  <2>1. g.call = b.call
    BY <1>15 DEF SameBudget
  <2>2. m.call \in [Ids -> Attempt \cup {None}] /\ m.net \in [Ids -> Transport]
    BY <1>0, HostFields
  <2> QED BY <1>6, <1>12, <1>15, <2>1, <2>2
<1>18. ASSUME NEW j \in Ids PROVE PairOK(g.call[j], g.net[j]) /\ OpenPairOK(g.call[j], g.net[j])
  <2>1. PairOK(m.call[j], m.net[j]) /\ OpenPairOK(m.call[j], m.net[j])
    BY <1>0, <1>4 DEF Linked
  <2>2. CASE j # i
    BY <1>17, <2>1, <2>2
  <2>3. CASE j = i
    BY <1>12, <1>14, <1>17, <2>3 DEF PairOK, OpenPairOK
  <2> QED BY <2>2, <2>3
<1>19. Linked(g)
  BY <1>15, <1>18 DEF Linked
<1>20. Total([j \in Ids |-> WeightOf(g.net[j])]) <= 2 * MaxConcurrent
  <2>1. g.call \in [Ids -> Attempt \cup {None}] /\ g.net \in [Ids -> Transport]
    BY <1>15, HostFields
  <2>2. PICK w : w = Total([j \in Ids |-> WeightOf(g.net[j])])
    OBVIOUS
  <2>3. w <= 2 * g.active /\ g.active <= MaxConcurrent /\ g.active \in Nat
    <3>1. g.active = Total([j \in Ids |-> ActOf(g.call[j])]) /\ g.active <= MaxConcurrent
      BY <1>16 DEF CallInv, Books
    <3>2. w <= 2 * Total([j \in Ids |-> ActOf(g.call[j])])
      BY <1>18, <2>1, <2>2, OpenWeights
    <3> QED BY <1>15, <3>1, <3>2, HostFields
  <2>4. w \in Nat
    <3>1. [j \in Ids |-> WeightOf(g.net[j])] \in [Ids -> Nat]
      BY DEF WeightOf
    <3> QED BY <2>2, <3>1, TotalNat
  <2> QED BY <2>2, <2>3, <2>4, NumbersAreNat
<1>21. Native(g)
  BY <1>0, <1>6, <1>7, <1>8, <1>14, <1>20, NativeOpen
<1>22. Stable(m, g)
  BY <1>4 DEF Stable, Settled
<1>23. NotLate(m, g)
  BY <1>4 DEF NotLate
<1> QED BY <1>13, <1>15, <1>16, <1>19, <1>21, <1>22, <1>23 DEF Keeps, HostInv
-----------------------------------------------------------------------------
(* The budget closes.                                                      *)

LEMMA StopsExist ==
    ASSUME NEW h
    PROVE  \E s : s = [n \in 0..MaxAttempts |->
                         IF n = 0 THEN h
                         ELSE IF h.net[n].st \in {"fetch", "read"} THEN Stop(s[n - 1], n)
                         ELSE s[n - 1]]
<1> DEFINE Nxt(x, n) == IF h.net[n].st \in {"fetch", "read"} THEN Stop(x, n) ELSE x
           Good(k, s) == s = [n \in 0..k |-> IF n = 0 THEN h ELSE Nxt(s[n - 1], n)]
           T == {k \in Nat : \E s : Good(k, s)}
<1> HIDE DEF Nxt
<1>1. 0 \in T
  <2>1. Good(0, [n \in 0..0 |-> h])
    OBVIOUS
  <2> QED BY <2>1
<1>2. ASSUME NEW k \in 0..MaxAttempts, k \in T
      PROVE  k + 1 \in T
  <2>0. k \in Nat
    BY NumbersAreNat
  <2>1. PICK s : Good(k, s)
    BY <1>2
  <2> DEFINE u == [n \in 0..(k + 1) |-> IF n = k + 1 THEN Nxt(s[k], k + 1) ELSE s[n]]
  <2>2. ASSUME NEW n \in 0..(k + 1)
        PROVE  u[n] = IF n = 0 THEN h ELSE Nxt(u[n - 1], n)
    <3>1. CASE n = k + 1
      <4>1. n # 0 /\ n - 1 = k /\ k \in 0..(k + 1) /\ k # k + 1
        BY <2>0, <3>1
      <4> QED BY <3>1, <4>1
    <3>2. CASE n # k + 1
      <4>1. n \in 0..k /\ (n # 0 => n - 1 \in 0..k /\ n - 1 # k + 1 /\ n - 1 \in 0..(k + 1))
        BY <2>0, <3>2
      <4>2. s[n] = IF n = 0 THEN h ELSE Nxt(s[n - 1], n)
        BY <2>1, <4>1
      <4> QED BY <3>2, <4>1, <4>2
    <3> QED BY <3>1, <3>2
  <2>3. Good(k + 1, u)
    BY <2>2
  <2> HIDE DEF Good
  <2> QED BY <2>0, <2>3
<1>3. MaxAttempts \in T
  <2> HIDE DEF T
  <2> QED BY <1>1, <1>2, UpTo, NumbersAreNat
<1> QED BY <1>3 DEF Nxt

LEMMA StopsStep ==
    ASSUME NEW h
    PROVE  /\ Stops(h)[0] = h
           /\ \A n \in 0..MaxAttempts : n < MaxAttempts =>
                 Stops(h)[n + 1] = IF h.net[n + 1].st \in {"fetch", "read"}
                                   THEN Stop(Stops(h)[n], n + 1) ELSE Stops(h)[n]
<1>1. ASSUME NEW n \in 0..MaxAttempts, n < MaxAttempts
      PROVE  n + 1 \in 0..MaxAttempts /\ n + 1 # 0 /\ (n + 1) - 1 = n
  BY <1>1, NumbersAreNat
<1>2. 0 \in 0..MaxAttempts
  BY NumbersAreNat
<1> DEFINE s == Stops(h)
<1>3. s = [n \in 0..MaxAttempts |->
             IF n = 0 THEN h
             ELSE IF h.net[n].st \in {"fetch", "read"} THEN Stop(s[n - 1], n) ELSE s[n - 1]]
  BY StopsExist, ZenonT(60) DEF Stops
<1> HIDE DEF s
<1>4. /\ s[0] = h
      /\ \A n \in 0..MaxAttempts : n < MaxAttempts =>
            s[n + 1] = IF h.net[n + 1].st \in {"fetch", "read"} THEN Stop(s[n], n + 1) ELSE s[n]
  BY <1>1, <1>2, <1>3
<1> QED BY <1>4 DEF s

\* g is h with some transports stopped.
Stopped(h, g) ==
    /\ g \in Host /\ Native(g) /\ SameBudget(h, g) /\ g.instrumented = h.instrumented
    /\ \A j \in Ids : /\ g.net[j].st = h.net[j].st /\ g.net[j].sdk = h.net[j].sdk
                      /\ g.net[j].instrumented = h.net[j].instrumented
    /\ Settled(h) => g = h

LEMMA StopKeeps ==
    ASSUME NEW h \in Host, Native(h), NEW g, Stopped(h, g), NEW i \in Ids, Live(h.net[i])
    PROVE  Stopped(h, Stop(g, i))
<1>1. g \in Host /\ Native(g) /\ Live(g.net[i])
  BY DEF Stopped, Live
<1>2. PICK k : k = Stop(g, i)
  OBVIOUS
<1>3. (k = g \/ Shift(g, k, i)) /\ k.net[i].st = g.net[i].st
  BY <1>1, <1>2, StopShifts
<1>4. ~Settled(h)
  BY SettledIsQuiet
<1>5. CASE k = g
  BY <1>2, <1>5
<1>6. CASE Shift(g, k, i)
  <2>1. PICK t : /\ NetMove(g, k, i, t) /\ TransportOK(t)
                 /\ WeightOf(t) <= WeightOf(g.net[i])
                 /\ t.sdk = g.net[i].sdk /\ t.instrumented = g.net[i].instrumented
    BY <1>6 DEF Shift
  <2>2. Native(k)
    BY <1>1, <2>1, NativeMove, WeightFalls
  <2>3. k \in Host /\ SameBudget(g, k) /\ k.net[i] = t /\ \A j \in Ids : j # i => k.net[j] = g.net[j]
    BY <1>1, <2>1, HostFields DEF NetMove
  <2>4. k.instrumented = g.instrumented
    BY <2>1 DEF NetMove
  <2>5. SameBudget(h, k)
    BY <2>3 DEF Stopped, SameBudget
  <2>6. \A j \in Ids : /\ k.net[j].st = h.net[j].st /\ k.net[j].sdk = h.net[j].sdk
                       /\ k.net[j].instrumented = h.net[j].instrumented
    BY <1>3, <2>1, <2>3 DEF Stopped
  <2> QED BY <1>2, <1>4, <2>2, <2>3, <2>4, <2>5, <2>6 DEF Stopped
<1> QED BY <1>3, <1>5, <1>6

LEMMA StopAllIs ==
    ASSUME NEW h \in Host, Native(h)
    PROVE  Stopped(h, StopAll(h))
<1> DEFINE T == {n \in Nat : Stopped(h, Stops(h)[n])}
<1>1. 0 \in T
  <2>1. Stopped(h, h)
    BY DEF Stopped, SameBudget
  <2> QED BY <2>1, StopsStep
<1>2. ASSUME NEW n \in 0..MaxAttempts, n < MaxAttempts, n \in T
      PROVE  n + 1 \in T
  <2>1. n + 1 \in Ids /\ n + 1 \in Nat /\ Stopped(h, Stops(h)[n])
    BY <1>2, IdsAre
  <2>2. CASE Live(h.net[n + 1])
    <3>1. Stops(h)[n + 1] = Stop(Stops(h)[n], n + 1)
      BY <1>2, <2>2, StopsStep DEF Live
    <3> QED BY <2>1, <2>2, <3>1, StopKeeps
  <2>3. CASE ~Live(h.net[n + 1])
    <3>1. Stops(h)[n + 1] = Stops(h)[n]
      BY <1>2, <2>3, StopsStep DEF Live
    <3> QED BY <2>1, <3>1
  <2> QED BY <2>2, <2>3
<1>3. \A n \in 0..MaxAttempts : n \in T
  <2> HIDE DEF T
  <2> QED BY <1>1, <1>2, UpTo, NumbersAreNat
<1> QED BY <1>3, NumbersAreNat DEF StopAll
\* The transports and the scope's counters are those of h.
SameScope(h, g) ==
    /\ g.net = h.net /\ g.pending = h.pending /\ g.transports = h.transports
    /\ g.instrumented = h.instrumented

LEMMA SameNative ==
    ASSUME NEW h \in Host, Native(h), NEW g, SameScope(h, g), WokenOK(g)
    PROVE  Native(g)
BY DEF Native, SameScope

LEMMA SealIs ==
    ASSUME NEW h \in Host, Native(h), NEW g, g = Seal(h)
    PROVE  /\ g \in Host /\ Native(g) /\ SameScope(h, g) /\ g.sealed
           /\ g.call = h.call /\ g.closed = h.closed /\ g.active = h.active
           /\ g.reserved = h.reserved /\ g.obsIn = h.obsIn /\ g.obsOut = h.obsOut
<1>1. PICK k : k = [h EXCEPT !.sealed = TRUE]
  OBVIOUS
<1>2. /\ k \in Host /\ k.net = h.net /\ k.pending = h.pending /\ k.transports = h.transports
      /\ k.call = h.call /\ k.closed = h.closed /\ k.active = h.active
      /\ k.reserved = h.reserved /\ k.obsIn = h.obsIn /\ k.obsOut = h.obsOut
  BY <1>1 DEF Host
<1>3. k.sealed /\ k.instrumented = h.instrumented /\ k.woken = h.woken
  BY <1>1 DEF Host
<1>4. WokenOK(k)
  BY <1>2, <1>3 DEF Native, WokenOK, Settled
<1>5. g = Notify(k)
  BY <1>1 DEF Seal
<1>6. g \in Host /\ SameBudget(k, g) /\ g.net = k.net /\ g.pending = k.pending /\ g.transports = k.transports
  BY <1>2, <1>5, NotifyIs
<1>7. g.instrumented = k.instrumented
  BY <1>2, <1>5, NotifyIs
<1>8. WokenOK(g)
  BY <1>2, <1>4, <1>5, NotifyIs
<1>9. SameScope(h, g)
  BY <1>2, <1>3, <1>6, <1>7 DEF SameScope
<1>10. Native(g)
  BY <1>8, <1>9, SameNative
<1>11. /\ g.call = k.call /\ g.closed = k.closed /\ g.active = k.active
       /\ g.reserved = k.reserved /\ g.obsIn = k.obsIn /\ g.obsOut = k.obsOut
  BY <1>6 DEF SameBudget
<1>12. g.sealed
  BY <1>3, <1>6 DEF SameBudget
<1> QED BY <1>2, <1>6, <1>9, <1>10, <1>11, <1>12

AbortEntry(c) ==
    IF c = None \/ c.pc = "done" THEN c
    ELSE [c EXCEPT !.outcome = IF @ = "pending" THEN "rejected" ELSE @,
                   !.usage = IF c.settle = "pending" THEN "unknown" ELSE @,
                   !.pc = IF @ = "race" THEN "done" ELSE @]

LEMMA AbortEntryIs ==
    ASSUME NEW c \in Attempt \cup {None}, c # None => EntryOK(c), NEW e, e = AbortEntry(c)
    PROVE  /\ e \in Attempt \cup {None} /\ (e = None) = (c = None)
           /\ WantOf(e) = WantOf(c) /\ ActOf(e) = ActOf(c) /\ IsPending(e) = IsPending(c)
           /\ e # None => EntryOK(e) /\ ShutEntryOK(e)
           /\ e # None /\ e.outcome = "succeeded" => c.outcome = "succeeded"
<1>1. CASE c = None
  BY <1>1 DEF AbortEntry
<1>2. CASE c # None /\ c.pc = "done"
  BY <1>2 DEF AbortEntry, ShutEntryOK
<1>3. CASE c # None /\ c.pc # "done"
  <2>1. c \in Attempt /\ EntryOK(c)
    BY <1>3
  <2>2. e = [c EXCEPT !.outcome = IF c.outcome = "pending" THEN "rejected" ELSE c.outcome,
                      !.usage = IF c.settle = "pending" THEN "unknown" ELSE c.usage,
                      !.pc = IF c.pc = "race" THEN "done" ELSE c.pc]
    BY <1>3 DEF AbortEntry
  <2>3. e \in Attempt
    BY <2>1, <2>2 DEF Attempt
  <2>4. e # None
    BY <2>3, NoneAssumption
  <2>5. /\ e.want = c.want /\ e.settle = c.settle
        /\ e.outcome = (IF c.outcome = "pending" THEN "rejected" ELSE c.outcome)
        /\ e.usage = (IF c.settle = "pending" THEN "unknown" ELSE c.usage)
        /\ e.pc = (IF c.pc = "race" THEN "done" ELSE c.pc)
    BY <2>1, <2>2 DEF Attempt
  <2>6. e.late = c.late
    BY <2>1, <2>2 DEF Attempt
  <2>7. /\ c.outcome \in {"pending", "succeeded", "rejected"} /\ c.pc \in {"race", "answer"}
        /\ c.settle \in {"pending", "fulfilled", "rejected"}
    BY <1>3, <2>1 DEF Attempt
  <2>8. EntryOK(e)
    BY <2>1, <2>5, <2>6, <2>7 DEF EntryOK
  <2>9. ShutEntryOK(e)
    BY <2>1, <2>5, <2>7 DEF EntryOK, ShutEntryOK
  <2>10. IsPending(e) = IsPending(c) /\ Booked(e) = Booked(c)
    BY <1>3, <2>4, <2>5 DEF IsPending, Booked
  <2>11. WantOf(e) = WantOf(c) /\ ActOf(e) = ActOf(c)
    BY <2>5, <2>10 DEF WantOf, ActOf
  <2>12. e.outcome = "succeeded" => c.outcome = "succeeded"
    BY <2>5
  <2> QED BY <1>3, <2>3, <2>4, <2>8, <2>9, <2>10, <2>11, <2>12
<1> QED BY <1>1, <1>2, <1>3

\* What a host must satisfy for close() to leave it right.
Closable(h) ==
    /\ h \in Host /\ Books(h) /\ Native(h)
    /\ \A i \in Ids : PairOK(h.call[i], h.net[i])
    /\ Ledger(h) # {} => h.instrumented
    /\ h.closed # None => Shut(h)

\* A closed successor in which nobody succeeded since.
ClosesTo(h, g) ==
    /\ HostInv(g) /\ g.closed # None /\ Stable(h, g)
    /\ Ledger(g) = Ledger(h)
    /\ \A i \in Ids : g.call[i] # None /\ g.call[i].outcome = "succeeded"
                          => h.call[i].outcome = "succeeded"

LEMMA CloseIs ==
    ASSUME NEW h, Closable(h), NEW code \in Codes, NEW g, g = Close(h, code)
    PROVE  ClosesTo(h, g)
<1>0. h \in Host /\ Books(h) /\ Native(h)
  BY DEF Closable
<1>a. h.active \in Nat
  BY <1>0, HostFields
<1>1. CASE h.closed # None
  <2>1. g = h
    BY <1>1 DEF Close
  <2>2. HostInv(h)
    BY <1>0, <1>1 DEF HostInv, Closable, CallInv, Linked
  <2> QED BY <1>a, <1>1, <2>1, <2>2 DEF ClosesTo, Stable
<1>2. CASE h.closed = None
  <2> DEFINE call == [i \in Ids |-> AbortEntry(h.call[i])]
  <2>1. PICK k : k = [h EXCEPT !.closed = code, !.call = call]
    OBVIOUS
  <2>2. \A i \in Ids : /\ h.call[i] \in Attempt \cup {None}
                       /\ h.call[i] # None => EntryOK(h.call[i])
    BY <1>0, HostFields DEF Books, Ledger
  <2>3. \A i \in Ids : /\ call[i] \in Attempt \cup {None} /\ (call[i] = None) = (h.call[i] = None)
                       /\ WantOf(call[i]) = WantOf(h.call[i]) /\ ActOf(call[i]) = ActOf(h.call[i])
                       /\ IsPending(call[i]) = IsPending(h.call[i])
    BY <2>2, AbortEntryIs
  <2>4. \A i \in Ids : /\ call[i] # None => EntryOK(call[i]) /\ ShutEntryOK(call[i])
                       /\ call[i] # None /\ call[i].outcome = "succeeded"
                             => h.call[i].outcome = "succeeded"
    BY <2>2, AbortEntryIs
  <2>5. call \in [Ids -> Attempt \cup {None}]
    BY <2>3
  <2>6. AbortRuns([h EXCEPT !.closed = code]) = k
    BY <1>0, <2>1 DEF AbortRuns, AbortEntry, Host
  <2>7. g = Seal(StopAll(k))
    BY <1>2, <2>6 DEF Close
  <2> HIDE DEF call
  <2>8. /\ k \in Host /\ k.closed = code /\ k.call = call /\ k.active = h.active
        /\ k.reserved = h.reserved /\ k.net = h.net /\ k.pending = h.pending
        /\ k.transports = h.transports
    BY <1>0, <2>1, <2>5 DEF Host
  <2>9. k.instrumented = h.instrumented /\ k.sealed = h.sealed /\ k.woken = h.woken
    BY <1>0, <2>1 DEF Host
  <2>10. SameScope(h, k) /\ WokenOK(k)
    BY <1>0, <2>8, <2>9 DEF SameScope, Native, WokenOK, Settled
  <2>11. Native(k)
    BY <1>0, <2>10, SameNative
  <2>12. PICK s : s = StopAll(k) /\ Stopped(k, s)
    BY <2>8, <2>11, StopAllIs
  <2>13. s \in Host /\ Native(s) /\ SameBudget(k, s)
    BY <2>12 DEF Stopped
  <2>14. g \in Host /\ Native(g) /\ SameScope(s, g) /\ g.sealed
    BY <2>7, <2>12, <2>13, SealIs
  <2>15. g.call = call /\ g.closed = code /\ g.active = h.active /\ g.reserved = h.reserved
    <3>1. s.call = call /\ s.closed = code /\ s.active = h.active /\ s.reserved = h.reserved
      BY <2>8, <2>13 DEF SameBudget
    <3>2. g.call = s.call /\ g.closed = s.closed /\ g.active = s.active /\ g.reserved = s.reserved
      BY <2>7, <2>12, <2>13, SealIs
    <3> QED BY <3>1, <3>2
  <2>16. Ledger(g) = Ledger(h)
    BY <2>3, <2>15 DEF Ledger
  <2>17. g.closed # None
    BY <2>15, NoneAssumption
  <2>18. Books(g)
    <3>1. /\ [i \in Ids |-> WantOf(g.call[i])] = [i \in Ids |-> WantOf(h.call[i])]
          /\ [i \in Ids |-> ActOf(g.call[i])] = [i \in Ids |-> ActOf(h.call[i])]
      BY <2>3, <2>15
    <3>2. \A i \in Ledger(g) : EntryOK(g.call[i])
      BY <2>4, <2>15 DEF Ledger
    <3> QED BY <1>0, <2>15, <2>16, <3>1, <3>2 DEF Books
  <2>19. Shut(g)
    BY <2>4, <2>14, <2>15 DEF Shut, Ledger
  <2>20. Linked(g)
    <3>1. ASSUME NEW i \in Ids PROVE PairOK(g.call[i], g.net[i])
      <4>1. PairOK(h.call[i], h.net[i])
        BY DEF Closable
      <4>2. g.net[i].st = h.net[i].st
        BY <2>8, <2>12, <2>14 DEF Stopped, SameScope
      <4>3. g.net[i].sdk = h.net[i].sdk /\ g.net[i].instrumented = h.net[i].instrumented
        BY <2>8, <2>12, <2>14 DEF Stopped, SameScope
      <4> QED BY <2>3, <2>15, <4>1, <4>2, <4>3 DEF PairOK
    <3>2. g.instrumented = h.instrumented
      BY <2>9, <2>12, <2>14 DEF Stopped, SameScope
    <3>3. Ledger(g) # {} => g.instrumented
      BY <2>16, <3>2 DEF Closable
    <3> QED BY <2>17, <3>1, <3>3 DEF Linked
  <2>21. HostInv(g)
    BY <2>14, <2>17, <2>18, <2>19, <2>20 DEF HostInv, CallInv
  <2>22. Stable(h, g)
    <3>1. ASSUME Settled(h) PROVE Settled(g)
      <4>1. Settled(k)
        BY <2>8, <2>9, <3>1 DEF Settled
      <4>2. s = k
        BY <2>12, <4>1 DEF Stopped
      <4> QED BY <2>14, <4>1, <4>2 DEF Settled, SameScope
    <3> QED BY <1>a, <2>14, <2>15, <2>16, <3>1 DEF Stable
  <2>23. \A i \in Ids : g.call[i] # None /\ g.call[i].outcome = "succeeded"
                            => h.call[i].outcome = "succeeded"
    BY <2>4, <2>15
  <2> QED BY <2>16, <2>17, <2>21, <2>22, <2>23 DEF ClosesTo
<1> QED BY <1>1, <1>2
-----------------------------------------------------------------------------
(* A provider settles.                                                     *)

SdkEnded(h, n, i) ==
    /\ n \in Host /\ Native(n) /\ SameBudget(h, n) /\ n.instrumented = h.instrumented
    /\ \A j \in Ids : j # i => n.net[j] = h.net[j]
    /\ ~n.net[i].sdk /\ n.net[i].st = h.net[i].st /\ n.net[i].cancel = h.net[i].cancel
    /\ n.net[i].instrumented = h.net[i].instrumented
    /\ Settled(h) => n = h

LEMMA SdkEndsIs ==
    ASSUME NEW h \in Host, Native(h), NEW i \in Ids, NEW n, n = SdkEnds(h, i)
    PROVE  SdkEnded(h, n, i)
<1>1. PICK c \in Transport : c = h.net[i]
  BY HostFields
<1>2. TransportOK(c) /\ c.recOpen <= h.transports
  BY <1>1, NativeFacts
<1>3. CASE ~c.sdk
  <2>1. n = h
    BY <1>1, <1>3 DEF SdkEnds
  <2> QED BY <1>1, <1>3, <2>1 DEF SdkEnded, SameBudget
<1>4. CASE c.sdk
  <2>1. ~Settled(h)
    BY <1>1, <1>4, SettledIsQuiet
  <2>2. c.recOpen # 0 /\ c.recOpen \in Nat /\ h.transports \in Nat
    BY <1>2, <1>4, TransportFields, HostFields DEF TransportOK
  <2>3. PICK k : k = [h EXCEPT !.net[i].sdk = FALSE]
    OBVIOUS
  <2>4. PICK v : v = DropSdk(c)
    OBVIOUS
  <2>5. NetMove(h, k, i, v)
    BY <1>1, <2>3, <2>4, PlainMoves
  <2>6. v \in Transport
    BY <2>4, SetTyped
  <2>7. v.recOps = c.recOps /\ v.recOpen = c.recOpen /\ v.st = c.st /\ v.cancel = c.cancel
    BY <2>4 DEF DropSdk, Transport
  <2>8. v.failed = c.failed /\ ~v.sdk /\ v.producer = c.producer /\ v.instrumented = c.instrumented
    BY <2>4 DEF DropSdk, Transport
  <2>9. k \in Host /\ k.net[i] = v
    BY <2>5, HostFields DEF NetMove
  <2>10. k.transports # 0
    <3>1. k.transports = h.transports + v.recOpen - c.recOpen
      BY <1>1, <2>5 DEF NetMove
    <3> QED BY <1>2, <2>2, <2>7, <3>1
  <2>11. PICK u : u = LessOpen(v)
    OBVIOUS
  <2>12. n = Closed(k, i)
    BY <1>1, <1>4, <2>3 DEF SdkEnds
  <2>13. NetMove(k, n, i, u)
    BY <2>2, <2>7, <2>9, <2>10, <2>11, <2>12, ClosedIs
  <2>14. NetMove(h, n, i, u)
    BY <2>5, <2>9, <2>13, MoveThenMove
  <2>15. u.recOps = c.recOps /\ u.recOpen = c.recOpen - 1 /\ u.st = c.st /\ u.cancel = c.cancel
    BY <2>6, <2>7, <2>11 DEF LessOpen, Transport
  <2>16. u.failed = c.failed /\ ~u.sdk /\ u.producer = c.producer /\ u.instrumented = c.instrumented
    BY <2>6, <2>8, <2>11 DEF LessOpen, Transport
  <2>17. TransportOK(u) /\ WeightOf(u) <= WeightOf(c)
    BY <1>2, <1>4, <2>2, <2>15, <2>16 DEF TransportOK, FlightOf, Live, WeightOf
  <2>18. Native(n)
    BY <1>1, <2>14, <2>17, NativeMove, WeightFalls
  <2>19. n \in Host /\ SameBudget(h, n) /\ n.net[i] = u /\ \A j \in Ids : j # i => n.net[j] = h.net[j]
    BY <2>14, HostFields DEF NetMove
  <2>20. n.instrumented = h.instrumented
    BY <2>14 DEF NetMove
  <2> QED BY <1>1, <2>1, <2>15, <2>16, <2>18, <2>19, <2>20 DEF SdkEnded
<1> QED BY <1>3, <1>4

\* k is h with call i settled as e.
Settles(h, k, i, e) ==
    /\ k \in Host /\ e \in Attempt /\ ~IsPending(e)
    /\ k.sealed = h.sealed /\ k.closed = h.closed
    /\ k.call = [h.call EXCEPT ![i] = e]
    /\ k.active = h.active - 1 /\ k.reserved = h.reserved + WantOf(e) - WantOf(h.call[i])

LEMMA SettledCall ==
    ASSUME NEW h, HostInv(h), NEW i \in Ids, IsPending(h.call[i]), NEW n, SdkEnded(h, n, i),
           NEW k, NEW e, SameScope(n, k), k.woken = n.woken, Settles(h, k, i, e),
           EntryOK(e), h.closed # None => ShutEntryOK(e)
    PROVE  /\ Closable(k) /\ Stable(h, k) /\ Ledger(k) = Ledger(h)
           /\ k.call[i] = e /\ \A j \in Ids : j # i => k.call[j] = h.call[j]
<1>0. h \in Host /\ CallInv(h) /\ Native(h) /\ Linked(h) /\ Books(h)
  BY DEF HostInv, CallInv
<1>1. k \in Host /\ e \in Attempt /\ ~IsPending(e) /\ k.closed = h.closed /\ e # None
  BY NoneAssumption DEF Settles
<1>2. k.call[i] = e /\ \A j \in Ids : j # i => k.call[j] = h.call[j]
  BY <1>0, HostFields DEF Settles
<1>3. h.call[i] # None
  BY DEF IsPending
<1>4. Ledger(k) = Ledger(h)
  BY <1>1, <1>2, <1>3 DEF Ledger
<1>5. ActOf(e) = 0 /\ ActOf(h.call[i]) = 1 /\ h.active \in Nat
  BY <1>0, <1>1, HostFields DEF ActOf
<1>6. Books(k)
  <2>1. /\ h.reserved = Total([j \in Ids |-> WantOf(h.call[j])])
        /\ h.active = Total([j \in Ids |-> ActOf(h.call[j])])
    BY <1>0 DEF Books
  <2>2. /\ k.reserved = h.reserved + WantOf(e) - WantOf(h.call[i])
        /\ k.active = h.active + ActOf(e) - ActOf(h.call[i])
        /\ k.call = [h.call EXCEPT ![i] = e]
    BY <1>5 DEF Settles
  <2>3. /\ k.reserved = Total([j \in Ids |-> WantOf(k.call[j])])
        /\ k.active = Total([j \in Ids |-> ActOf(k.call[j])])
    BY <1>0, <1>1, <2>1, <2>2, BooksMove
  <2>4. k.active <= MaxConcurrent
    BY <1>0, <1>5, NumbersAreNat DEF Settles, Books
  <2>5. \A j \in Ledger(k) : EntryOK(k.call[j])
    BY <1>0, <1>2, <1>4 DEF Books, Ledger
  <2> QED BY <1>0, <1>4, <2>3, <2>4, <2>5 DEF Books
<1>7. n \in Host /\ Native(n)
  BY DEF SdkEnded
<1>8. k.sealed = n.sealed
  BY DEF SdkEnded, SameBudget, Settles
<1>9. Native(k)
  <2>1. WokenOK(k)
    BY <1>7, <1>8 DEF Native, WokenOK, Settled, SameScope
  <2> QED BY <1>7, <2>1, SameNative
<1>10. k.net = n.net /\ k.instrumented = h.instrumented
  BY DEF SameScope, SdkEnded
<1>11. ASSUME NEW j \in Ids PROVE PairOK(k.call[j], k.net[j])
  <2>1. PairOK(h.call[j], h.net[j])
    BY <1>0 DEF Linked
  <2>2. CASE j # i
    <3>1. k.net[j] = h.net[j] /\ k.call[j] = h.call[j]
      BY <1>2, <1>10, <2>2 DEF SdkEnded
    <3> QED BY <2>1, <3>1
  <2>3. CASE j = i
    <3>1. ~k.net[i].sdk /\ k.net[i].instrumented = h.net[i].instrumented
      BY <1>10 DEF SdkEnded
    <3>2. h.net[i].instrumented
      BY <1>3, <2>1, <2>3 DEF PairOK
    <3> QED BY <1>1, <1>2, <2>3, <3>1, <3>2 DEF PairOK
  <2> QED BY <2>2, <2>3
<1>12. Ledger(k) # {} => k.instrumented
  BY <1>0, <1>4, <1>10 DEF Linked
<1>13. ASSUME k.closed # None PROVE Shut(k)
  <2>1. Shut(h) /\ ShutEntryOK(e)
    BY <1>0, <1>1, <1>13 DEF CallInv
  <2>2. k.sealed
    BY <2>1 DEF Shut, Settles
  <2> QED BY <1>2, <1>4, <2>1, <2>2 DEF Shut, Ledger
<1>14. Closable(k)
  BY <1>1, <1>6, <1>9, <1>11, <1>12, <1>13 DEF Closable
<1>15. Stable(h, k)
  <2>1. ASSUME Settled(h) PROVE Settled(k)
    <3>1. n = h
      BY <2>1 DEF SdkEnded
    <3> QED BY <1>8, <2>1, <3>1 DEF Settled, SameScope
  <2>2. h.sealed => k.sealed
    BY DEF Settles
  <2>3. k.active <= h.active
    BY <1>5 DEF Settles
  <2> QED BY <1>4, <2>1, <2>2, <2>3 DEF Stable
<1> QED BY <1>2, <1>4, <1>14, <1>15

LEMMA StableThen ==
    ASSUME NEW h \in Host, NEW k \in Host, NEW g \in Host, Stable(h, k), Stable(k, g)
    PROVE  Stable(h, g)
<1>1. h.active \in Nat /\ k.active \in Nat /\ g.active \in Nat
  BY HostFields
<1> QED BY <1>1 DEF Stable

RejectEntry(c) == [c EXCEPT !.outcome = IF @ = "pending" THEN "rejected" ELSE @, !.pc = "done"]

SetCall(h, i, c) == [h EXCEPT !.call[i] = c]

LEMMA SetCallIs ==
    ASSUME NEW h \in Host, NEW i \in Ids, NEW c \in Attempt, NEW k, k = SetCall(h, i, c)
    PROVE  /\ k \in Host /\ k.call = [h.call EXCEPT ![i] = c] /\ SameScope(h, k)
           /\ k.closed = h.closed /\ k.active = h.active /\ k.reserved = h.reserved
           /\ k.obsIn = h.obsIn /\ k.obsOut = h.obsOut
           /\ k.woken = h.woken /\ k.sealed = h.sealed
<1>1. [h.call EXCEPT ![i] = c] \in [Ids -> Attempt \cup {None}]
  BY HostFields
<1>2. /\ k \in Host /\ k.call = [h.call EXCEPT ![i] = c]
      /\ k.closed = h.closed /\ k.active = h.active /\ k.reserved = h.reserved
      /\ k.obsIn = h.obsIn /\ k.obsOut = h.obsOut
  BY <1>1 DEF SetCall, Host
<1>3. SameScope(h, k)
  BY DEF SetCall, SameScope, Host
<1>4. k.woken = h.woken /\ k.sealed = h.sealed
  BY DEF SetCall, Host
<1> QED BY <1>2, <1>3, <1>4

LEMMA RejectIs ==
    ASSUME NEW h \in Host, NEW i \in Ids, NEW code, h.call[i] \in Attempt
    PROVE  Reject(h, i, code) = Close(SetCall(h, i, RejectEntry(h.call[i])), code)
BY DEF Reject, SetCall, RejectEntry, Host
Receipt(n, i, e, a, rs, oi, oo) ==
    [n EXCEPT !.active = a, !.obsIn = oi, !.obsOut = oo, !.reserved = rs, !.call[i] = e]

ReceiptTo(n, r, i, e, a, rs, oi, oo) ==
    /\ r \in Host /\ r.call = [n.call EXCEPT ![i] = e] /\ SameScope(n, r)
    /\ r.closed = n.closed /\ r.active = a /\ r.reserved = rs
    /\ r.obsIn = oi /\ r.obsOut = oo
    /\ r.woken = n.woken /\ r.sealed = n.sealed

LEMMA ReceiptIs ==
    ASSUME NEW n \in Host, NEW i \in Ids, NEW e \in Attempt, NEW a \in Nat, NEW rs \in Nat,
           NEW oi \in Nat, NEW oo \in Nat, NEW r, r = Receipt(n, i, e, a, rs, oi, oo)
    PROVE  ReceiptTo(n, r, i, e, a, rs, oi, oo)
<1>1. [n.call EXCEPT ![i] = e] \in [Ids -> Attempt \cup {None}]
  BY HostFields
<1>2. /\ r \in Host /\ r.call = [n.call EXCEPT ![i] = e]
      /\ r.closed = n.closed /\ r.active = a /\ r.reserved = rs
      /\ r.obsIn = oi /\ r.obsOut = oo
  BY <1>1 DEF Receipt, Host
<1>3. SameScope(n, r)
  BY DEF Receipt, SameScope, Host
<1>4. r.woken = n.woken /\ r.sealed = n.sealed
  BY DEF Receipt, Host
<1> QED BY <1>2, <1>3, <1>4 DEF ReceiptTo

\* What is known of a call whose provider settles.
LEMMA PendingFacts ==
    ASSUME NEW h, HostInv(h), NEW i \in Ids, IsPending(h.call[i])
    PROVE  /\ h.call[i] \in Attempt /\ EntryOK(h.call[i]) /\ h.call[i].want \in Nat
           /\ h.call[i].outcome \in {"pending", "rejected"}
           /\ h.closed = None => OpenEntryOK(h.call[i]) /\ Open(h)
           /\ WantOf(h.call[i]) = h.call[i].want
           /\ h.active - 1 \in Nat /\ h.reserved - h.call[i].want \in Nat
<1>0. h \in Host /\ CallInv(h) /\ Books(h)
  BY DEF HostInv, CallInv
<1>1. PICK c : c = h.call[i]
  OBVIOUS
<1>2. c \in Attempt /\ i \in Ledger(h)
  BY <1>0, <1>1, HostFields DEF IsPending, Ledger
<1>3. EntryOK(c) /\ (h.closed = None => OpenEntryOK(c) /\ Open(h))
  BY <1>0, <1>1, <1>2 DEF CallInv, Books, Open
<1>4. c.settle = "pending"
  BY <1>1 DEF IsPending
<1>5. c.want \in Nat /\ c.outcome \in {"pending", "succeeded", "rejected"}
  BY <1>2 DEF Attempt
<1>6. c.outcome \in {"pending", "rejected"}
  BY <1>3, <1>4, <1>5 DEF EntryOK
<1>7. WantOf(c) = c.want /\ ActOf(c) = 1
  BY <1>1, <1>4 DEF WantOf, Booked, ActOf, IsPending
<1> DEFINE wants == [j \in Ids |-> WantOf(h.call[j])]
           acts == [j \in Ids |-> ActOf(h.call[j])]
<1>8. wants \in [Ids -> Nat] /\ acts \in [Ids -> Nat] /\ wants[i] = c.want /\ acts[i] = 1
  BY <1>0, <1>1, <1>7, HostFields, WantTyped
<1>9. h.reserved = Total(wants) /\ h.active = Total(acts)
  BY <1>0 DEF Books
<1> HIDE DEF wants, acts
<1>10. c.want <= h.reserved /\ 1 <= h.active
  BY <1>8, <1>9, TotalElement
<1>11. h.reserved \in Nat /\ h.active \in Nat
  BY <1>0, HostFields
<1>12. h.active - 1 \in Nat /\ h.reserved - c.want \in Nat
  BY <1>5, <1>10, <1>11
<1> QED BY <1>1, <1>2, <1>3, <1>5, <1>6, <1>7, <1>12

\* A call that is settled and then rejected closes the budget.
LEMMA SettleAndReject ==
    ASSUME NEW h, HostInv(h), NEW i \in Ids, IsPending(h.call[i]), NEW n, SdkEnded(h, n, i),
           NEW r, NEW e, SameScope(n, r), r.woken = n.woken, Settles(h, r, i, e),
           e.outcome \in {"pending", "rejected"}, e.usage = "reported" => e.settle = "fulfilled",
           NEW code \in Codes
    PROVE  Keeps(h, Reject(r, i, code))
<1>0. h \in Host /\ CallInv(h) /\ Native(h) /\ Linked(h) /\ Books(h)
  BY DEF HostInv, CallInv
<1>1. r \in Host /\ e \in Attempt /\ ~IsPending(e) /\ r.call = [h.call EXCEPT ![i] = e]
  BY DEF Settles
<1>2. r.call[i] = e
  BY <1>0, <1>1, HostFields
<1>3. PICK d : d = RejectEntry(e)
  OBVIOUS
<1>4. d \in Attempt
  BY <1>1, <1>3 DEF RejectEntry, Attempt
<1>5. /\ d.outcome = "rejected" /\ d.pc = "done" /\ d.settle = e.settle /\ d.usage = e.usage
      /\ d.want = e.want
  BY <1>1, <1>3 DEF RejectEntry, Attempt
<1>6. EntryOK(d) /\ ShutEntryOK(d)
  <2>1. e.settle # "pending"
    BY <1>1, NoneAssumption DEF IsPending
  <2> QED BY <1>5, <2>1 DEF EntryOK, ShutEntryOK
<1>7. d # None /\ e # None
  BY <1>1, <1>4, NoneAssumption
<1>8. ~IsPending(d) /\ WantOf(d) = WantOf(e)
  BY <1>1, <1>5, <1>7 DEF IsPending, WantOf, Booked
<1>9. PICK k : k = SetCall(r, i, d)
  OBVIOUS
<1>10. /\ k \in Host /\ k.call = [r.call EXCEPT ![i] = d] /\ SameScope(r, k)
       /\ k.closed = r.closed /\ k.active = r.active /\ k.reserved = r.reserved
  BY <1>1, <1>4, <1>9, SetCallIs
<1>11. k.woken = r.woken /\ k.sealed = r.sealed
  BY <1>1, <1>9 DEF SetCall, Host
<1>12. Settles(h, k, i, d)
  <2>1. k.call = [h.call EXCEPT ![i] = d]
    BY <1>0, <1>1, <1>10, HostFields
  <2> QED BY <1>4, <1>8, <1>10, <1>11, <2>1 DEF Settles
<1>13. SameScope(n, k) /\ k.woken = n.woken
  BY <1>10, <1>11 DEF SameScope
<1>14. /\ Closable(k) /\ Stable(h, k) /\ Ledger(k) = Ledger(h)
       /\ k.call[i] = d /\ \A j \in Ids : j # i => k.call[j] = h.call[j]
  BY <1>6, <1>12, <1>13, SettledCall
<1>15. PICK g : g = Close(k, code)
  OBVIOUS
<1>16. ClosesTo(k, g)
  BY <1>14, <1>15, CloseIs
<1>17. Reject(r, i, code) = g
  BY <1>1, <1>2, <1>3, <1>9, <1>15, RejectIs
<1>18. HostInv(g) /\ Stable(k, g)
  BY <1>16 DEF ClosesTo
<1>19. Stable(h, g)
  BY <1>0, <1>10, <1>14, <1>18, StableThen DEF HostInv
<1>20. NotLate(h, g)
  <2>1. ASSUME NEW j \in Ids, g.call[j] # None /\ g.call[j].outcome = "succeeded"
        PROVE  h.call[j].outcome = "succeeded"
    <3>1. k.call[j].outcome = "succeeded"
      BY <1>16, <2>1 DEF ClosesTo
    <3>2. j # i
      BY <1>5, <1>14, <3>1
    <3> QED BY <1>14, <3>1, <3>2
  <2> QED BY <2>1 DEF NotLate
<1> QED BY <1>17, <1>18, <1>19, <1>20 DEF Keeps

\* The books after a provider that rejected, as the code writes them.
RejectedAs(n, i, late) ==
    [n EXCEPT !.active = @ - 1, !.call[i].settle = "rejected",
              !.call[i].usage = "unknown", !.call[i].late = late]

RejectedEntry(c, late) == [c EXCEPT !.settle = "rejected", !.usage = "unknown", !.late = late]

LEMMA RejectedReceipt ==
    ASSUME NEW n \in Host, NEW i \in Ids, NEW c \in Attempt, n.call[i] = c, NEW late \in BOOLEAN,
           NEW e \in Attempt, e = RejectedEntry(c, late), NEW a \in Nat, a = n.active - 1
    PROVE  RejectedAs(n, i, late) = Receipt(n, i, e, a, n.reserved, n.obsIn, n.obsOut)
<1>1. RejectedAs(n, i, late) = [n EXCEPT !.active = a, !.call[i] = e]
  BY ZenonT(60) DEF RejectedAs, RejectedEntry
<1>2. [n EXCEPT !.active = a, !.call[i] = e]
      = Receipt(n, i, e, a, n.reserved, n.obsIn, n.obsOut)
  BY DEF Host, Receipt
<1> QED BY <1>1, <1>2

LEMMA ProviderRejectsKeeps ==
    ASSUME HostInv(m), NEW i \in Ids, ProviderRejects(i)
    PROVE  Keeps(m, m')
<1>0. m \in Host /\ Native(m)
  BY DEF HostInv
<1>1. IsPending(m.call[i])
  BY DEF ProviderRejects, ClientReady, IsPending
<1>2. PICK c : c = m.call[i]
  OBVIOUS
<1>3. /\ c \in Attempt /\ EntryOK(c) /\ c.want \in Nat /\ c.outcome \in {"pending", "rejected"}
      /\ WantOf(c) = c.want /\ m.active - 1 \in Nat
  BY <1>1, <1>2, PendingFacts
<1>4. PICK n : n = SdkEnds(m, i)
  OBVIOUS
<1>5. SdkEnded(m, n, i)
  BY <1>0, <1>4, SdkEndsIs
<1>6. /\ n \in Host /\ n.call = m.call /\ n.active = m.active /\ n.reserved = m.reserved
      /\ n.closed = m.closed
  BY <1>5 DEF SdkEnded, SameBudget
<1>7. n.sealed = m.sealed
  BY <1>5 DEF SdkEnded, SameBudget
<1>a. PICK late \in BOOLEAN : late = (n.call[i].outcome = "rejected")
  OBVIOUS
<1>8. PICK e : e = RejectedEntry(c, late)
  OBVIOUS
<1>9. e \in Attempt
  BY <1>3, <1>8 DEF Attempt, RejectedEntry
<1>10. e.settle = "rejected" /\ e.usage = "unknown" /\ e.outcome = c.outcome /\ e.want = c.want
  BY <1>3, <1>8 DEF Attempt, RejectedEntry
<1>11. e # None
  BY <1>9, NoneAssumption
<1>12. ~IsPending(e) /\ WantOf(e) = c.want
  BY <1>10, <1>11 DEF IsPending, WantOf, Booked
<1>13. PICK r : r = Receipt(n, i, e, m.active - 1, m.reserved, n.obsIn, n.obsOut)
  OBVIOUS
<1>14. m.reserved \in Nat /\ n.obsIn \in Nat /\ n.obsOut \in Nat
  BY <1>0, <1>6, HostFields
<1>15. /\ r \in Host /\ r.call = [n.call EXCEPT ![i] = e] /\ SameScope(n, r)
       /\ r.closed = n.closed /\ r.active = m.active - 1 /\ r.reserved = m.reserved
  <2>1. ReceiptTo(n, r, i, e, m.active - 1, m.reserved, n.obsIn, n.obsOut)
    BY <1>3, <1>6, <1>9, <1>13, <1>14, ReceiptIs
  <2> QED BY <2>1 DEF ReceiptTo
<1>16. r.woken = n.woken /\ r.sealed = n.sealed
  BY <1>6, <1>13 DEF Receipt, Host
<1>17. m' = Reject(r, i, "error")
  <2>1. n.call[i] = c /\ m.active - 1 = n.active - 1
    BY <1>2, <1>6
  <2>2. RejectedAs(n, i, late) = Receipt(n, i, e, m.active - 1, n.reserved, n.obsIn, n.obsOut)
    BY <1>3, <1>6, <1>8, <1>9, <2>1, RejectedReceipt
  <2>3. r = RejectedAs(n, i, n.call[i].outcome = "rejected")
    BY <1>6, <1>a, <1>13, <2>2
  <2> QED BY <1>4, <2>3 DEF ProviderRejects, RejectedAs
<1>18. Settles(m, r, i, e)
  <2>1. m.reserved = m.reserved + WantOf(e) - WantOf(c)
    BY <1>3, <1>12, <1>14
  <2> QED BY <1>2, <1>6, <1>7, <1>9, <1>12, <1>15, <1>16, <2>1 DEF Settles
<1>19. "error" \in Codes
  BY DEF Codes
<1>20. e.outcome \in {"pending", "rejected"} /\ e.usage # "reported"
  BY <1>3, <1>10
<1>21. Keeps(m, Reject(r, i, "error"))
  BY <1>1, <1>5, <1>15, <1>16, <1>18, <1>19, <1>20, SettleAndReject
<1> QED BY <1>17, <1>21
\* The books after a provider that answered, as the code writes them.
FulfilledAs(n, i, use, late) ==
    [n EXCEPT !.active = @ - 1, !.obsIn = @ + use.inp, !.obsOut = @ + use.out,
              !.reserved = IF use.reported THEN @ - n.call[i].want ELSE @,
              !.call[i].settle = "fulfilled", !.call[i].late = late,
              !.call[i].usage = IF use.reported THEN "reported" ELSE "unknown"]

FulfilledEntry(c, use, late) ==
    [c EXCEPT !.settle = "fulfilled", !.late = late,
              !.usage = IF use.reported THEN "reported" ELSE "unknown"]

AnsweredAs(p, i, late, u) ==
    [p EXCEPT !.call[i].settle = "fulfilled", !.call[i].late = late, !.call[i].usage = u]

AnsweredEntry(c, late, u) == [c EXCEPT !.settle = "fulfilled", !.late = late, !.usage = u]

LEMMA AnsweredIs ==
    ASSUME NEW p, NEW i, NEW c, p.call[i] = c, NEW late, NEW u, NEW e, e = AnsweredEntry(c, late, u)
    PROVE  AnsweredAs(p, i, late, u) = SetCall(p, i, e)
BY Zenon DEF AnsweredAs, AnsweredEntry, SetCall

LEMMA FulfilledReceipt ==
    ASSUME NEW n \in Host, NEW i \in Ids, NEW c \in Attempt, n.call[i] = c, NEW late \in BOOLEAN,
           NEW use, NEW e \in Attempt, e = FulfilledEntry(c, use, late),
           NEW a \in Nat, a = n.active - 1, NEW oi \in Nat, oi = n.obsIn + use.inp,
           NEW oo \in Nat, oo = n.obsOut + use.out,
           NEW rs \in Nat, rs = IF use.reported THEN n.reserved - c.want ELSE n.reserved
    PROVE  FulfilledAs(n, i, use, late) = Receipt(n, i, e, a, rs, oi, oo)
<1>1. PICK u : u = IF use.reported THEN "reported" ELSE "unknown"
  OBVIOUS
<1>2. PICK p : p = [n EXCEPT !.active = a, !.obsIn = oi, !.obsOut = oo, !.reserved = rs]
  OBVIOUS
<1>a. PICK q : q = [n EXCEPT !.active = a, !.obsIn = oi, !.obsOut = oo, !.reserved = rs,
                             !.call[i].settle = "fulfilled", !.call[i].late = late,
                             !.call[i].usage = u]
  OBVIOUS
<1>3. FulfilledAs(n, i, use, late) = q
  BY <1>1, <1>a, Zenon DEF FulfilledAs
<1>4. q = AnsweredAs(p, i, late, u)
  BY <1>2, <1>a, Zenon DEF AnsweredAs
<1>5. p.call[i] = c
  BY <1>2 DEF Host
<1>6. e = AnsweredEntry(c, late, u)
  BY <1>1, Zenon DEF FulfilledEntry, AnsweredEntry
<1>7. AnsweredAs(p, i, late, u) = SetCall(p, i, e)
  BY <1>5, <1>6, AnsweredIs
<1>8. SetCall(p, i, e) = Receipt(n, i, e, a, rs, oi, oo)
  BY <1>2 DEF Receipt, SetCall, Host
<1> QED BY <1>3, <1>4, <1>7, <1>8

\* An attempt of a closed budget is over.
LEMMA ShutCall ==
    ASSUME NEW h, HostInv(h), h.closed # None, NEW i \in Ids, h.call[i] # None,
           NEW d \in Attempt, d.settle = h.call[i].settle, d.usage = h.call[i].usage,
           d.want = h.call[i].want, d.pc = "done", d.outcome = "rejected",
           NEW k, k = SetCall(h, i, d)
    PROVE  ClosesTo(h, k)
<1>0. h \in Host /\ CallInv(h) /\ Native(h) /\ Linked(h) /\ Books(h) /\ Shut(h)
  BY DEF HostInv, CallInv
<1>1. PICK c \in Attempt : c = h.call[i]
  BY <1>0, HostFields
<1>2. d # None /\ c # None
  BY NoneAssumption
<1>3. IsPending(d) = IsPending(c) /\ WantOf(d) = WantOf(c) /\ ActOf(d) = ActOf(c)
  BY <1>1, <1>2 DEF IsPending, WantOf, ActOf, Booked
<1>4. /\ k \in Host /\ k.call = [h.call EXCEPT ![i] = d] /\ SameScope(h, k)
      /\ k.closed = h.closed /\ k.active = h.active /\ k.reserved = h.reserved
  BY <1>0, SetCallIs
<1>5. k.woken = h.woken /\ k.sealed = h.sealed
  BY <1>0 DEF SetCall, Host
<1>6. k.call[i] = d /\ \A j \in Ids : j # i => k.call[j] = h.call[j]
  BY <1>0, <1>4, HostFields
<1>7. Ledger(k) = Ledger(h)
  BY <1>1, <1>2, <1>6 DEF Ledger
<1>8. EntryOK(c)
  BY <1>0, <1>1, <1>2 DEF Books, Ledger
<1>9. EntryOK(d) /\ ShutEntryOK(d)
  BY <1>1, <1>8 DEF EntryOK, ShutEntryOK
<1>10. Books(k)
  <2>1. /\ h.reserved = Total([j \in Ids |-> WantOf(h.call[j])])
        /\ h.active = Total([j \in Ids |-> ActOf(h.call[j])])
    BY <1>0 DEF Books
  <2>2. /\ [j \in Ids |-> WantOf(k.call[j])] = [j \in Ids |-> WantOf(h.call[j])]
        /\ [j \in Ids |-> ActOf(k.call[j])] = [j \in Ids |-> ActOf(h.call[j])]
    BY <1>1, <1>3, <1>6
  <2>3. \A j \in Ledger(k) : EntryOK(k.call[j])
    BY <1>0, <1>6, <1>7, <1>9 DEF Books, Ledger
  <2> QED BY <1>0, <1>4, <1>7, <2>1, <2>2, <2>3 DEF Books
<1>11. Shut(k)
  BY <1>0, <1>5, <1>6, <1>7, <1>9 DEF Shut, Ledger
<1>12. Native(k)
  <2>1. WokenOK(k)
    BY <1>0, <1>4, <1>5 DEF Native, WokenOK, Settled, SameScope
  <2> QED BY <1>0, <1>4, <2>1, SameNative
<1>13. Linked(k)
  <2>1. ASSUME NEW j \in Ids PROVE PairOK(k.call[j], k.net[j])
    <3>1. PairOK(h.call[j], h.net[j]) /\ k.net = h.net
      BY <1>0, <1>4 DEF Linked, SameScope
    <3>2. CASE j # i
      BY <1>6, <3>1, <3>2
    <3>3. CASE j = i
      BY <1>1, <1>2, <1>3, <1>6, <3>1, <3>3 DEF PairOK
    <3> QED BY <3>2, <3>3
  <2>2. Ledger(k) # {} => k.instrumented
    BY <1>0, <1>4, <1>7 DEF Linked, SameScope
  <2> QED BY <1>4, <2>1, <2>2 DEF Linked
<1>14. HostInv(k)
  BY <1>4, <1>10, <1>11, <1>12, <1>13 DEF HostInv, CallInv
<1>15. Stable(h, k)
  <2>1. h.active \in Nat
    BY <1>0, HostFields
  <2>2. Settled(h) => Settled(k)
    BY <1>4, <1>5 DEF Settled, SameScope
  <2> QED BY <1>4, <1>5, <1>7, <2>1, <2>2 DEF Stable
<1>16. \A j \in Ids : k.call[j] # None /\ k.call[j].outcome = "succeeded"
                          => h.call[j].outcome = "succeeded"
  BY <1>6
<1> QED BY <1>4, <1>7, <1>14, <1>15, <1>16 DEF ClosesTo

LEMMA ClosesThen ==
    ASSUME NEW h \in Host, NEW k, NEW g, ClosesTo(h, k), ClosesTo(k, g)
    PROVE  ClosesTo(h, g)
<1>1. k \in Host /\ g \in Host /\ Stable(h, k) /\ Stable(k, g)
  BY DEF ClosesTo, HostInv
<1>2. Stable(h, g)
  BY <1>1, StableThen
<1>3. Ledger(g) = Ledger(h)
  BY DEF ClosesTo
<1>4. ASSUME NEW j \in Ids, g.call[j] # None /\ g.call[j].outcome = "succeeded"
      PROVE  h.call[j].outcome = "succeeded"
  <2>1. k.call[j].outcome = "succeeded"
    BY <1>4 DEF ClosesTo
  <2>2. k.call[j] # None
    BY <1>3, <1>4 DEF ClosesTo, Ledger
  <2> QED BY <2>1, <2>2 DEF ClosesTo
<1> QED BY <1>2, <1>3, <1>4 DEF ClosesTo
\* An answer that is accepted leaves the budget open.
LEMMA AcceptKeeps ==
    ASSUME NEW h, HostInv(h), h.closed = None, NEW i \in Ids, IsPending(h.call[i]),
           WeightOf(h.net[i]) = 0, NEW n, SdkEnded(h, n, i),
           NEW r, NEW e, SameScope(n, r), r.woken = n.woken, Settles(h, r, i, e),
           e.settle = "fulfilled", e.usage = "reported", ~e.late, e.outcome = "pending",
           r.obsOut + r.reserved <= MaxObservedOutput, r.obsIn <= MaxObservedInput,
           NEW d \in Attempt, d.settle = e.settle, d.usage = e.usage, d.late = e.late,
           d.outcome = e.outcome, d.pc = "answer",
           NEW k, k = SetCall(r, i, d)
    PROVE  Keeps(h, k)
<1>0. h \in Host /\ CallInv(h) /\ Native(h) /\ Linked(h) /\ Open(h)
  BY DEF HostInv, CallInv
<1>1. r \in Host /\ e \in Attempt /\ r.call = [h.call EXCEPT ![i] = e] /\ r.closed = None
  BY DEF Settles
<1>2. d # None /\ e # None
  BY <1>1, NoneAssumption
<1>3. ~IsPending(d) /\ WantOf(d) = 0 /\ WantOf(e) = 0
  BY <1>2 DEF IsPending, WantOf, Booked
<1>4. EntryOK(d) /\ OpenEntryOK(d)
  BY DEF EntryOK, OpenEntryOK
<1>5. /\ k \in Host /\ k.call = [r.call EXCEPT ![i] = d] /\ SameScope(r, k)
      /\ k.closed = r.closed /\ k.active = r.active /\ k.reserved = r.reserved
      /\ k.obsIn = r.obsIn /\ k.obsOut = r.obsOut
  BY <1>1, SetCallIs
<1>6. k.woken = r.woken /\ k.sealed = r.sealed
  BY <1>1 DEF SetCall, Host
<1>7. Settles(h, k, i, d)
  <2>1. k.call = [h.call EXCEPT ![i] = d]
    BY <1>0, <1>1, <1>5, HostFields
  <2> QED BY <1>3, <1>5, <1>6, <2>1 DEF Settles
<1>8. SameScope(n, k) /\ k.woken = n.woken
  BY <1>5, <1>6 DEF SameScope
<1>9. /\ Closable(k) /\ Stable(h, k) /\ Ledger(k) = Ledger(h)
      /\ k.call[i] = d /\ \A j \in Ids : j # i => k.call[j] = h.call[j]
  BY <1>4, <1>7, <1>8, SettledCall
<1>10. Open(k)
  BY <1>0, <1>4, <1>5, <1>9 DEF Open, Ledger
<1>11. CallInv(k)
  BY <1>1, <1>5, <1>9, <1>10 DEF CallInv, Closable
<1>12. ASSUME NEW j \in Ids PROVE OpenPairOK(k.call[j], k.net[j])
  <2>0. k.net = n.net
    BY <1>8 DEF SameScope
  <2>1. CASE j # i
    <3>1. k.call[j] = h.call[j] /\ k.net[j] = h.net[j]
      BY <1>9, <2>0, <2>1 DEF SdkEnded
    <3>2. OpenPairOK(h.call[j], h.net[j])
      BY <1>0 DEF Linked
    <3> QED BY <3>1, <3>2
  <2>2. CASE j = i
    <3>1. n.net[i].st = h.net[i].st /\ n.net[i].cancel = h.net[i].cancel
      BY DEF SdkEnded
    <3>2. WeightOf(n.net[i]) = 0
      BY <3>1 DEF WeightOf, Live
    <3> QED BY <2>0, <2>2, <3>2 DEF OpenPairOK
  <2> QED BY <2>1, <2>2
<1>13. HostInv(k)
  BY <1>5, <1>9, <1>11, <1>12 DEF HostInv, Closable, Linked
<1> QED BY <1>9, <1>13 DEF Keeps, NotLate

\* One that comes after the deadline closes it first.
LEMMA LateAnswerKeeps ==
    ASSUME NEW h, HostInv(h), h.closed = None, NEW i \in Ids, IsPending(h.call[i]),
           NEW n, SdkEnded(h, n, i),
           NEW r, NEW e, SameScope(n, r), r.woken = n.woken, Settles(h, r, i, e), EntryOK(e),
           e.outcome # "succeeded"
    PROVE  Keeps(h, Reject(Close(r, "deadline"), i, "deadline"))
<1>0. h \in Host
  BY DEF HostInv
<1>1. /\ Closable(r) /\ Stable(h, r) /\ Ledger(r) = Ledger(h) /\ r.call[i] = e
      /\ \A j \in Ids : j # i => r.call[j] = h.call[j]
  BY SettledCall
<1>2. r \in Host
  BY DEF Settles
<1>3. "deadline" \in Codes
  BY DEF Codes
<1>4. PICK k : k = Close(r, "deadline")
  OBVIOUS
<1>5. ClosesTo(r, k)
  BY <1>1, <1>3, <1>4, CloseIs
<1>6. k \in Host /\ HostInv(k) /\ k.closed # None
  BY <1>5 DEF ClosesTo, HostInv
<1>7. k.call[i] # None
  BY <1>1, <1>5 DEF ClosesTo, Ledger, IsPending
<1>8. PICK c \in Attempt : c = k.call[i]
  BY <1>6, <1>7, HostFields
<1>9. c.outcome \in {"pending", "rejected"}
  <2>1. c.outcome # "succeeded"
    BY <1>1, <1>5, <1>7, <1>8 DEF ClosesTo
  <2> QED BY <1>8, <2>1 DEF Attempt
<1>10. PICK d : d = RejectEntry(c)
  OBVIOUS
<1>11. d \in Attempt
  BY <1>10 DEF RejectEntry, Attempt
<1>12. /\ d.outcome = "rejected" /\ d.pc = "done" /\ d.settle = c.settle /\ d.usage = c.usage
       /\ d.want = c.want
  BY <1>9, <1>10 DEF RejectEntry, Attempt
<1>13. PICK g : g = SetCall(k, i, d)
  OBVIOUS
<1>14. ClosesTo(k, g)
  BY <1>6, <1>7, <1>8, <1>11, <1>12, <1>13, ShutCall
<1>15. Reject(k, i, "deadline") = g
  <2>1. Reject(k, i, "deadline") = Close(g, "deadline")
    BY <1>6, <1>8, <1>10, <1>13, RejectIs
  <2>2. g.closed # None
    BY <1>14 DEF ClosesTo
  <2> QED BY <2>1, <2>2 DEF Close
<1>16. ClosesTo(r, g)
  BY <1>2, <1>5, <1>14, ClosesThen
<1>17. HostInv(g) /\ Stable(r, g)
  BY <1>16 DEF ClosesTo
<1>18. Stable(h, g)
  BY <1>0, <1>1, <1>2, <1>17, StableThen DEF HostInv
<1> QED BY <1>4, <1>15, <1>17, <1>18 DEF Keeps, NotLate
\* What receive() does with the booked answer r.
Judged(r, i, use, valid, want, late) ==
    IF r.closed # None THEN Reject(r, i, r.closed)
    ELSE IF ~use.reported THEN Reject(r, i, "error")
    ELSE IF \/ r.obsIn > MaxObservedInput \/ r.obsOut > MaxObservedOutput
            \/ use.out > want THEN Reject(r, i, "limit")
    ELSE IF ~valid THEN Reject(r, i, "error")
    ELSE IF late THEN Reject(Close(r, "deadline"), i, "deadline")
    ELSE [r EXCEPT !.call[i].pc = "answer"]

LEMMA UsageFields ==
    ASSUME NEW use \in Usage
    PROVE  /\ use.inp \in Nat /\ use.out \in Nat /\ use.reported \in BOOLEAN
           /\ ~use.reported => use.inp = 0 /\ use.out = 0
<1>1. CASE use \in [inp: 0..MaxIn, out: 0..MaxOut, reported: {TRUE}]
  <2>1. use.inp \in 0..MaxIn /\ use.out \in 0..MaxOut /\ use.reported \in {TRUE}
    BY <1>1
  <2>2. use.reported = TRUE
    BY <2>1
  <2>3. use.inp \in Nat /\ use.out \in Nat
    BY <2>1, LimitsAssumption
  <2> QED BY <2>2, <2>3, Zenon
<1>2. CASE use \in [inp: {0}, out: {0}, reported: {FALSE}]
  <2>1. use.inp \in {0} /\ use.out \in {0} /\ use.reported \in {FALSE}
    BY <1>2
  <2>2. use.reported = FALSE /\ use.inp = 0 /\ use.out = 0
    BY <2>1
  <2>3. use.inp \in Nat /\ use.out \in Nat
    BY <2>2
  <2> QED BY <2>2, <2>3, Zenon
<1> QED BY <1>1, <1>2 DEF Usage

LEMMA ReceiveIs ==
    ASSUME NEW n, NEW i, NEW use, NEW valid
    PROVE  Receive(n, i, use, valid)
           = Judged(FulfilledAs(n, i, use, n.call[i].outcome = "rejected"), i, use, valid,
                    n.call[i].want, past)
BY Zenon DEF Receive, Judged, FulfilledAs

LEMMA ProviderFulfilsKeeps ==
    ASSUME HostInv(m), past \in BOOLEAN, NEW i \in Ids, NEW use \in Usage, NEW valid \in BOOLEAN,
           ProviderFulfils(i, use, valid)
    PROVE  Keeps(m, m')
<1>0. m \in Host /\ Native(m)
  BY DEF HostInv
<1>1. IsPending(m.call[i]) /\ ~m.net[i].failed /\ m.net[i].st = "end"
  BY DEF ProviderFulfils, ClientReady, IsPending
<1>2. PICK c : c = m.call[i]
  OBVIOUS
<1>3. /\ c \in Attempt /\ EntryOK(c) /\ c.want \in Nat /\ c.outcome \in {"pending", "rejected"}
      /\ WantOf(c) = c.want /\ m.active - 1 \in Nat /\ m.reserved - c.want \in Nat
  BY <1>1, <1>2, PendingFacts
<1>4. PICK n : n = SdkEnds(m, i)
  OBVIOUS
<1>5. SdkEnded(m, n, i)
  BY <1>0, <1>4, SdkEndsIs
<1>6. /\ n \in Host /\ n.call = m.call /\ n.active = m.active /\ n.reserved = m.reserved
      /\ n.closed = m.closed /\ n.obsIn = m.obsIn /\ n.obsOut = m.obsOut
  BY <1>5 DEF SdkEnded, SameBudget
<1>7. n.sealed = m.sealed
  BY <1>5 DEF SdkEnded, SameBudget
<1>u. /\ use.inp \in Nat /\ use.out \in Nat /\ use.reported \in BOOLEAN
      /\ ~use.reported => use.inp = 0 /\ use.out = 0
  BY UsageFields
<1>a. PICK late \in BOOLEAN : late = (n.call[i].outcome = "rejected")
  OBVIOUS
<1>8. PICK e : e = FulfilledEntry(c, use, late)
  OBVIOUS
<1>9. e \in Attempt
  BY <1>3, <1>8 DEF Attempt, FulfilledEntry
<1>10. /\ e.settle = "fulfilled" /\ e.outcome = c.outcome /\ e.want = c.want /\ e.pc = c.pc
       /\ e.usage = IF use.reported THEN "reported" ELSE "unknown"
  BY <1>3, <1>8 DEF Attempt, FulfilledEntry
<1>b. e.late = late
  BY <1>3, <1>8 DEF Attempt, FulfilledEntry
<1>11. e # None
  BY <1>9, NoneAssumption
<1>12. ~IsPending(e) /\ WantOf(e) = IF use.reported THEN 0 ELSE c.want
  BY <1>10, <1>11 DEF IsPending, WantOf, Booked
<1>13. m.reserved \in Nat /\ m.obsIn \in Nat /\ m.obsOut \in Nat
  BY <1>0, HostFields
<1>14. PICK rs \in Nat : rs = IF use.reported THEN m.reserved - c.want ELSE m.reserved
  BY <1>3, <1>13
<1>15. PICK oi \in Nat : oi = m.obsIn + use.inp
  BY <1>13, <1>u
<1>16. PICK oo \in Nat : oo = m.obsOut + use.out
  BY <1>13, <1>u
<1>17. PICK r : r = Receipt(n, i, e, m.active - 1, rs, oi, oo)
  OBVIOUS
<1>18. /\ r \in Host /\ r.call = [n.call EXCEPT ![i] = e] /\ SameScope(n, r)
       /\ r.closed = n.closed /\ r.active = m.active - 1 /\ r.reserved = rs
       /\ r.obsIn = oi /\ r.obsOut = oo
  <2>1. ReceiptTo(n, r, i, e, m.active - 1, rs, oi, oo)
    BY <1>3, <1>6, <1>9, <1>17, ReceiptIs
  <2> QED BY <2>1 DEF ReceiptTo
<1>19. r.woken = n.woken /\ r.sealed = n.sealed
  BY <1>6, <1>17 DEF Receipt, Host
<1>20. m' = Judged(r, i, use, valid, c.want, past)
  <2>1. n.call[i] = c /\ m.active - 1 = n.active - 1
    BY <1>2, <1>6
  <2>2. /\ oi = n.obsIn + use.inp /\ oo = n.obsOut + use.out
        /\ rs = IF use.reported THEN n.reserved - c.want ELSE n.reserved
    BY <1>6, <1>14, <1>15, <1>16
  <2>3. FulfilledAs(n, i, use, late) = Receipt(n, i, e, m.active - 1, rs, oi, oo)
    BY <1>3, <1>6, <1>8, <1>9, <2>1, <2>2, FulfilledReceipt
  <2>4. r = FulfilledAs(n, i, use, n.call[i].outcome = "rejected")
    BY <1>a, <1>17, <2>3
  <2>5. Receive(n, i, use, valid) = Judged(r, i, use, valid, c.want, past)
    BY <2>1, <2>4, ReceiveIs
  <2> QED BY <1>4, <2>5 DEF ProviderFulfils
<1>21. Settles(m, r, i, e)
  <2>1. rs = m.reserved + WantOf(e) - WantOf(c)
    BY <1>3, <1>12, <1>13, <1>14
  <2> QED BY <1>2, <1>6, <1>7, <1>9, <1>12, <1>18, <1>19, <2>1 DEF Settles
<1>22. e.outcome \in {"pending", "rejected"}
  BY <1>3, <1>10
<1>23. \A code \in Codes : Keeps(m, Reject(r, i, code))
  BY <1>1, <1>5, <1>10, <1>18, <1>19, <1>21, <1>22, SettleAndReject
<1>24. CASE r.closed # None
  <2>1. r.closed \in Codes
    BY <1>18, <1>24, HostFields
  <2> QED BY <1>20, <1>23, <1>24, <2>1 DEF Judged
<1>25. CASE r.closed = None /\ ~use.reported
  BY <1>20, <1>23, <1>25 DEF Judged, Codes
<1>26. CASE r.closed = None /\ use.reported
  <2>0. m.closed = None
    BY <1>6, <1>18, <1>26
  <2>1. c.pc = "race" /\ c.outcome = "pending" /\ Open(m)
    <3>1. OpenEntryOK(c) /\ Open(m)
      BY <1>1, <1>2, <2>0, PendingFacts
    <3>2. c.settle = "pending"
      BY <1>1, <1>2 DEF IsPending
    <3> QED BY <3>1, <3>2 DEF OpenEntryOK
  <2>2. CASE r.obsIn > MaxObservedInput \/ r.obsOut > MaxObservedOutput \/ use.out > c.want
    BY <1>20, <1>23, <1>26, <2>2 DEF Judged, Codes
  <2>3. CASE /\ ~(r.obsIn > MaxObservedInput \/ r.obsOut > MaxObservedOutput \/ use.out > c.want)
             /\ ~valid
    BY <1>20, <1>23, <1>26, <2>3 DEF Judged, Codes
  <2>4. CASE /\ ~(r.obsIn > MaxObservedInput \/ r.obsOut > MaxObservedOutput \/ use.out > c.want)
             /\ valid /\ past
    <3>1. m' = Reject(Close(r, "deadline"), i, "deadline")
      BY <1>20, <1>26, <2>4 DEF Judged
    <3>2. EntryOK(e) /\ e.outcome # "succeeded"
      BY <1>10, <2>1 DEF EntryOK
    <3> QED BY <1>1, <1>5, <1>18, <1>19, <1>21, <2>0, <3>1, <3>2, LateAnswerKeeps
  <2>5. CASE /\ ~(r.obsIn > MaxObservedInput \/ r.obsOut > MaxObservedOutput \/ use.out > c.want)
             /\ valid /\ ~past
    <3>1. m' = [r EXCEPT !.call[i].pc = "answer"]
      BY <1>20, <1>26, <2>5 DEF Judged
    <3>2. PICK d : d = [e EXCEPT !.pc = "answer"]
      OBVIOUS
    <3>3. d \in Attempt /\ d.settle = e.settle /\ d.usage = e.usage /\ d.outcome = e.outcome /\ d.pc = "answer"
      BY <1>9, <3>2 DEF Attempt
    <3>4. d.late = e.late
      BY <1>9, <3>2 DEF Attempt
    <3>5. r.call[i] = e
      BY <1>6, <1>18, HostFields
    <3>6. PICK k : k = SetCall(r, i, d)
      OBVIOUS
    <3>7. m' = k
      BY <1>18, <3>1, <3>2, <3>5, <3>6 DEF SetCall, Host
    <3>8. ~e.late
      BY <1>2, <1>6, <1>a, <1>b, <2>1
    <3>9. e.settle = "fulfilled" /\ e.usage = "reported" /\ e.outcome = "pending"
      BY <1>10, <1>26, <2>1
    <3>10. r.obsIn <= MaxObservedInput /\ use.out <= c.want
      BY <1>3, <1>18, <1>u, <2>5, NumbersAreNat
    <3>11. r.obsOut + r.reserved <= MaxObservedOutput
      <4>1. m.obsOut + m.reserved <= MaxObservedOutput
        BY <2>1 DEF Open
      <4> QED BY <1>3, <1>13, <1>14, <1>16, <1>18, <1>u, <1>26, <3>10, <4>1, NumbersAreNat
    <3>12. WeightOf(m.net[i]) = 0
      <4>1. TransportOK(m.net[i])
        BY <1>0, NativeFacts
      <4> QED BY <1>1, <4>1 DEF TransportOK, WeightOf, Live
    <3>13. Keeps(m, k)
      BY <1>1, <1>5, <1>18, <1>19, <1>21, <2>0, <3>3, <3>4, <3>6, <3>8, <3>9, <3>10, <3>11,
         <3>12, AcceptKeeps
    <3> QED BY <3>7, <3>13
  <2> QED BY <2>2, <2>3, <2>4, <2>5
<1> QED BY <1>24, <1>25, <1>26, <1>u
-----------------------------------------------------------------------------
(* The caller resumes, the budget is closed, the run is finalized.         *)

LEMMA HostCloses ==
    ASSUME NEW h, HostInv(h), NEW code \in Codes, NEW g, g = Close(h, code)
    PROVE  ClosesTo(h, g)
<1>1. Closable(h)
  BY DEF HostInv, CallInv, Linked, Closable
<1> QED BY <1>1, CloseIs

LEMMA ClosesKeeps ==
    ASSUME NEW h, NEW g, ClosesTo(h, g)
    PROVE  Keeps(h, g)
BY DEF ClosesTo, Keeps, NotLate

LEMMA KeepsSame ==
    ASSUME NEW h, HostInv(h)
    PROVE  Keeps(h, h)
<1>1. h.active \in Nat
  BY HostFields DEF HostInv
<1> QED BY <1>1 DEF Keeps, Stable, NotLate

\* The caller gets its answer while the budget is open.
LEMMA SucceedKeeps ==
    ASSUME NEW h, HostInv(h), h.closed = None, NEW i \in Ids, h.call[i] # None,
           h.call[i].pc = "answer", NEW d \in Attempt, d.settle = h.call[i].settle,
           d.usage = h.call[i].usage, d.want = h.call[i].want, d.late = h.call[i].late,
           d.pc = "done", d.outcome = "succeeded", NEW k, k = SetCall(h, i, d)
    PROVE  Keeps(h, k)
<1>0. h \in Host /\ CallInv(h) /\ Native(h) /\ Linked(h) /\ Books(h) /\ Open(h)
  BY DEF HostInv, CallInv
<1>1. PICK c \in Attempt : c = h.call[i]
  BY <1>0, HostFields
<1>2. d # None /\ c # None
  BY NoneAssumption
<1>3. IsPending(d) = IsPending(c) /\ WantOf(d) = WantOf(c) /\ ActOf(d) = ActOf(c)
  BY <1>1, <1>2 DEF IsPending, WantOf, ActOf, Booked
<1>4. /\ k \in Host /\ k.call = [h.call EXCEPT ![i] = d] /\ SameScope(h, k)
      /\ k.closed = h.closed /\ k.active = h.active /\ k.reserved = h.reserved
      /\ k.obsIn = h.obsIn /\ k.obsOut = h.obsOut
  BY <1>0, SetCallIs
<1>5. k.woken = h.woken /\ k.sealed = h.sealed
  BY <1>0 DEF SetCall, Host
<1>6. k.call[i] = d /\ \A j \in Ids : j # i => k.call[j] = h.call[j]
  BY <1>0, <1>4, HostFields
<1>7. Ledger(k) = Ledger(h)
  BY <1>1, <1>2, <1>6 DEF Ledger
<1>8. EntryOK(c) /\ OpenEntryOK(c)
  BY <1>0, <1>1, <1>2 DEF Books, Open, Ledger
<1>9. EntryOK(d) /\ OpenEntryOK(d)
  BY <1>1, <1>8 DEF EntryOK, OpenEntryOK
<1>10. Books(k)
  <2>1. /\ h.reserved = Total([j \in Ids |-> WantOf(h.call[j])])
        /\ h.active = Total([j \in Ids |-> ActOf(h.call[j])])
    BY <1>0 DEF Books
  <2>2. /\ [j \in Ids |-> WantOf(k.call[j])] = [j \in Ids |-> WantOf(h.call[j])]
        /\ [j \in Ids |-> ActOf(k.call[j])] = [j \in Ids |-> ActOf(h.call[j])]
    BY <1>1, <1>3, <1>6
  <2>3. \A j \in Ledger(k) : EntryOK(k.call[j])
    BY <1>0, <1>6, <1>7, <1>9 DEF Books, Ledger
  <2> QED BY <1>0, <1>4, <1>7, <2>1, <2>2, <2>3 DEF Books
<1>11. Open(k)
  BY <1>0, <1>4, <1>6, <1>7, <1>9 DEF Open, Ledger
<1>12. Native(k)
  <2>1. WokenOK(k)
    BY <1>0, <1>4, <1>5 DEF Native, WokenOK, Settled, SameScope
  <2> QED BY <1>0, <1>4, <2>1, SameNative
<1>13. Linked(k)
  <2>1. ASSUME NEW j \in Ids PROVE PairOK(k.call[j], k.net[j]) /\ OpenPairOK(k.call[j], k.net[j])
    <3>1. PairOK(h.call[j], h.net[j]) /\ OpenPairOK(h.call[j], h.net[j]) /\ k.net = h.net
      BY <1>0, <1>4 DEF Linked, SameScope
    <3>2. CASE j # i
      BY <1>6, <3>1, <3>2
    <3>3. CASE j = i
      BY <1>1, <1>2, <1>3, <1>6, <3>1, <3>3 DEF PairOK, OpenPairOK
    <3> QED BY <3>2, <3>3
  <2>2. Ledger(k) # {} => k.instrumented
    BY <1>0, <1>4, <1>7 DEF Linked, SameScope
  <2> QED BY <2>1, <2>2 DEF Linked
<1>14. HostInv(k)
  BY <1>4, <1>10, <1>11, <1>12, <1>13 DEF HostInv, CallInv
<1>15. Stable(h, k)
  <2>1. h.active \in Nat
    BY <1>0, HostFields
  <2>2. Settled(h) => Settled(k)
    BY <1>4, <1>5 DEF Settled, SameScope
  <2> QED BY <1>4, <1>5, <1>7, <2>1, <2>2 DEF Stable
<1> QED BY <1>14, <1>15 DEF Keeps, NotLate

LEMMA ContinueKeeps ==
    ASSUME HostInv(m), NEW i \in Ids, Continue(i)
    PROVE  Keeps(m, m')
<1>0. m \in Host /\ m.call[i] # None /\ m.call[i].pc = "answer"
  BY DEF HostInv, Continue
<1>1. PICK h : h = IF past THEN Close(m, "deadline") ELSE m
  OBVIOUS
<1>2. m' = IF h.closed # None THEN [h EXCEPT !.call[i].pc = "done"]
           ELSE [h EXCEPT !.call[i].outcome = "succeeded", !.call[i].pc = "done"]
  BY <1>1 DEF Continue
<1>3. ClosesTo(m, h) \/ h = m
  <2>1. "deadline" \in Codes
    BY DEF Codes
  <2> QED BY <1>1, <2>1, HostCloses
<1>4. HostInv(h) /\ h \in Host /\ h.call[i] # None
  BY <1>0, <1>3 DEF ClosesTo, HostInv, Ledger
<1>5. PICK c \in Attempt : c = h.call[i]
  BY <1>4, HostFields
<1>6. CASE h.closed # None
  <2>1. PICK d : d = [c EXCEPT !.pc = "done"]
    OBVIOUS
  <2>2. /\ d \in Attempt /\ d.settle = c.settle /\ d.usage = c.usage /\ d.want = c.want
        /\ d.pc = "done" /\ d.outcome = c.outcome
    BY <2>1 DEF Attempt
  <2>3. PICK k : k = SetCall(h, i, d)
    OBVIOUS
  <2>4. m' = k
    BY <1>2, <1>4, <1>5, <1>6, <2>1, <2>3 DEF SetCall, Host
  <2>5. c.outcome = "rejected"
    <3>1. EntryOK(c) /\ ShutEntryOK(c)
      BY <1>4, <1>5, <1>6 DEF HostInv, CallInv, Books, Shut, Ledger
    <3>2. c.outcome = "succeeded" => m.call[i].outcome = "succeeded"
      BY <1>3, <1>4, <1>5 DEF ClosesTo
    <3>3. m.call[i].outcome # "succeeded"
      BY <1>0 DEF HostInv, CallInv, Books, EntryOK, Ledger
    <3>4. c.pc \in {"race", "answer", "done"}
      BY <1>5 DEF Attempt
    <3> QED BY <3>1, <3>2, <3>3, <3>4 DEF EntryOK, ShutEntryOK
  <2>6. ClosesTo(h, k)
    BY <1>4, <1>5, <1>6, <2>2, <2>3, <2>5, ShutCall
  <2>7. ClosesTo(m, k)
    BY <1>0, <1>3, <2>6, ClosesThen
  <2> QED BY <2>4, <2>7, ClosesKeeps
<1>7. CASE h.closed = None
  <2>0. h = m
    BY <1>3, <1>7 DEF ClosesTo
  <2>1. PICK d : d = [c EXCEPT !.outcome = "succeeded", !.pc = "done"]
    OBVIOUS
  <2>2. /\ d \in Attempt /\ d.settle = c.settle /\ d.usage = c.usage /\ d.want = c.want
        /\ d.pc = "done" /\ d.outcome = "succeeded"
    BY <2>1 DEF Attempt
  <2>3. d.late = c.late
    BY <2>1 DEF Attempt
  <2>4. PICK k : k = SetCall(h, i, d)
    OBVIOUS
  <2>5. m' = k
    BY <1>2, <1>4, <1>5, <1>7, <2>1, <2>4 DEF SetCall, Host
  <2>6. Keeps(m, k)
    BY <1>0, <1>5, <1>7, <2>0, <2>2, <2>3, <2>4, SucceedKeeps
  <2> QED BY <2>5, <2>6
<1> QED BY <1>6, <1>7

LEMMA CancelKeeps ==
    ASSUME HostInv(m), Cancel \/ DeadlineCloses
    PROVE  Keeps(m, m')
<1>1. PICK code \in Codes : m' = Close(m, code)
  BY DEF Cancel, DeadlineCloses, Codes
<1>2. PICK g : g = Close(m, code)
  OBVIOUS
<1>3. ClosesTo(m, g)
  BY <1>2, HostCloses
<1> QED BY <1>1, <1>2, <1>3, ClosesKeeps

LEMMA SealKeeps ==
    ASSUME NEW h, HostInv(h), NEW g, g = Seal(h)
    PROVE  Keeps(h, g) /\ g.sealed /\ Ledger(g) = Ledger(h)
<1>0. h \in Host /\ CallInv(h) /\ Native(h) /\ Linked(h)
  BY DEF HostInv
<1>1. /\ g \in Host /\ Native(g) /\ SameScope(h, g) /\ g.sealed
  BY <1>0, SealIs
<1>2. /\ g.call = h.call /\ g.closed = h.closed /\ g.active = h.active
      /\ g.reserved = h.reserved /\ g.obsIn = h.obsIn /\ g.obsOut = h.obsOut
  BY <1>0, SealIs
<1>3. Ledger(g) = Ledger(h)
  BY <1>2 DEF Ledger
<1>4. CallInv(g)
  BY <1>0, <1>1, <1>2, <1>3 DEF CallInv, Books, Open, Shut
<1>5. Linked(g)
  BY <1>0, <1>1, <1>2, <1>3 DEF Linked, SameScope
<1>6. Stable(h, g)
  BY <1>0, <1>1, <1>2, <1>3, HostFields DEF Stable, Settled, SameScope
<1>7. NotLate(h, g)
  BY <1>2 DEF NotLate
<1> QED BY <1>1, <1>3, <1>4, <1>5, <1>6, <1>7 DEF Keeps, HostInv

LEMMA FinalizeKeeps ==
    ASSUME HostInv(m), Finalize
    PROVE  Keeps(m, m') /\ m'.sealed
<1>1. PICK h : h = IF m.active > 0 THEN Close(m, "cancelled") ELSE m
  OBVIOUS
<1>2. m' = Seal(h)
  BY <1>1 DEF Finalize
<1>3. ClosesTo(m, h) \/ h = m
  <2>1. "cancelled" \in Codes
    BY DEF Codes
  <2> QED BY <1>1, <2>1, HostCloses
<1>4. Keeps(m, h)
  BY <1>3, ClosesKeeps, KeepsSame
<1>5. PICK g : g = Seal(h)
  OBVIOUS
<1>6. Keeps(h, g) /\ g.sealed
  BY <1>4, <1>5, SealKeeps DEF Keeps
<1>7. HostInv(g) /\ Stable(m, g)
  <2>1. m \in Host /\ h \in Host /\ g \in Host
    BY <1>4, <1>6 DEF Keeps, HostInv
  <2> QED BY <1>4, <1>6, <2>1, StableThen DEF Keeps
<1>8. NotLate(m, g)
  <2>1. h \in Host /\ g.call = h.call
    BY <1>4, <1>5, SealIs DEF Keeps, HostInv
  <2> QED BY <1>4, <2>1 DEF Keeps, NotLate
<1> QED BY <1>2, <1>5, <1>6, <1>7, <1>8 DEF Keeps

LEMMA WaitKeeps ==
    ASSUME NEW h, HostInv(h), NEW g, g = [h EXCEPT !.waiting = TRUE]
    PROVE  Keeps(h, g)
<1>0. h \in Host /\ CallInv(h) /\ Native(h) /\ Linked(h)
  BY DEF HostInv
<1>1. g \in Host /\ SameBudget(h, g) /\ SameScope(h, g)
  <2>1. g \in Host
    BY <1>0 DEF Host
  <2>2. SameBudget(h, g)
    BY <1>0 DEF Host, SameBudget
  <2>3. SameScope(h, g)
    BY <1>0 DEF Host, SameScope
  <2> QED BY <2>1, <2>2, <2>3
<1>2. g.woken = h.woken
  BY <1>0 DEF Host
<1>3. CallInv(g) /\ Ledger(g) = Ledger(h)
  BY <1>0, <1>1, SameCalls
<1>4. g.call = h.call /\ g.closed = h.closed /\ g.active = h.active
  BY <1>1 DEF SameBudget
<1>5. g.sealed = h.sealed
  BY <1>1 DEF SameBudget
<1>6. Settled(g) = Settled(h)
  BY <1>1, <1>5 DEF Settled, SameScope
<1>7. Native(g)
  BY <1>0, <1>1, <1>2, <1>6, SameNative DEF Native, WokenOK
<1>8. Linked(g)
  BY <1>0, <1>1, <1>3, <1>4 DEF Linked, SameScope
<1>9. Stable(h, g)
  BY <1>0, <1>3, <1>4, <1>5, <1>6, HostFields DEF Stable
<1> QED BY <1>1, <1>3, <1>4, <1>7, <1>8, <1>9 DEF Keeps, HostInv, NotLate
-----------------------------------------------------------------------------
(* The specification.                                                      *)

LEMMA FinKeeps ==
    ASSUME NEW h \in Host, NEW g \in Host, NEW f, FinInv(h, f), Stable(h, g)
    PROVE  FinInv(g, f)
<1>1. h.active \in Nat /\ g.active \in Nat
  BY HostFields
<1> QED BY <1>1 DEF FinInv, Stable

LEMMA NativeKeeps ==
    ASSUME HostInv(m), NEW i \in Ids, NativeStep(i) \/ SdkFetches(i)
    PROVE  Keeps(m, m') /\ UNCHANGED <<client, past, fin>>
<1>0. m \in Host /\ Native(m)
  BY DEF HostInv
<1>1. ASSUME Shift(m, m', i) PROVE Keeps(m, m')
  <2>1. PICK g : g = m'
    OBVIOUS
  <2>2. HostInv(g) /\ Stable(m, g) /\ g.call = m.call
    BY <1>1, <2>1, ShiftKeeps
  <2> QED BY <2>1, <2>2 DEF Keeps, NotLate
<1>2. CASE SdkFetches(i)
  <2>1. HostInv(m') /\ Stable(m, m') /\ m'.call = m.call
    BY <1>2, SdkFetchKeeps
  <2>2. Keeps(m, m')
    BY <2>1 DEF Keeps, NotLate
  <2> QED BY <1>2, <2>2 DEF SdkFetches
<1>3. ASSUME NEW ok \in BOOLEAN, FetchSettles(i, ok)
      PROVE  Keeps(m, m') /\ UNCHANGED <<client, past, fin>>
  <2>1. Shift(m, m', i)
    BY <1>0, <1>3, FetchShifts
  <2> QED BY <1>1, <1>3, <2>1 DEF FetchSettles
<1>4. ASSUME NEW ok \in BOOLEAN, ReadSettles(i, ok)
      PROVE  Keeps(m, m') /\ UNCHANGED <<client, past, fin>>
  <2>1. Shift(m, m', i)
    BY <1>0, <1>4, ReadShifts
  <2> QED BY <1>1, <1>4, <2>1 DEF ReadSettles
<1>5. CASE CancelSettles(i)
  <2>1. Shift(m, m', i)
    BY <1>0, <1>5, CancelShifts
  <2> QED BY <1>1, <1>5, <2>1 DEF CancelSettles
<1> QED BY <1>2, <1>3, <1>4, <1>5 DEF NativeStep

LEMMA ReactionKeeps ==
    ASSUME HostInv(m), past \in BOOLEAN, NEW i \in Ids, Reaction(i)
    PROVE  Keeps(m, m') /\ UNCHANGED <<client, past, fin>>
<1>1. ASSUME NEW use \in Usage, NEW valid \in BOOLEAN, ProviderFulfils(i, use, valid)
      PROVE  Keeps(m, m') /\ UNCHANGED <<client, past, fin>>
  <2>1. Keeps(m, m')
    BY <1>1, ProviderFulfilsKeeps
  <2> QED BY <1>1, <2>1 DEF ProviderFulfils
<1>2. CASE ProviderRejects(i)
  <2>1. Keeps(m, m')
    BY <1>2, ProviderRejectsKeeps
  <2> QED BY <1>2, <2>1 DEF ProviderRejects
<1>3. CASE Continue(i)
  <2>1. Keeps(m, m')
    BY <1>3, ContinueKeeps
  <2> QED BY <1>3, <2>1 DEF Continue
<1> QED BY <1>1, <1>2, <1>3 DEF Reaction

\* When the scope has settled and every reaction has run, every attempt has
\* settled too: releaseAfterJoin() finds nothing to keep the permit for.
LEMMA SettledAndDrained ==
    ASSUME NEW h, HostInv(h), Settled(h), Drained(h)
    PROVE  NativeSettled(h)
<1>0. h \in Host /\ CallInv(h) /\ Native(h) /\ Linked(h) /\ Books(h)
  BY DEF HostInv, CallInv
<1>1. ASSUME NEW i \in Ids PROVE ~IsPending(h.call[i]) /\ h.net[i].recOpen = 0 /\ h.net[i].recOps = 0
  <2>1. ~Live(h.net[i]) /\ ~h.net[i].sdk /\ h.net[i].recOpen = 0 /\ h.net[i].recOps = 0
    BY <1>0, SettledIsQuiet
  <2>2. PairOK(h.call[i], h.net[i])
    BY <1>0 DEF Linked
  <2>3. h.net[i].st \in {"idle", "fetch", "read", "end"}
    BY <1>0, HostFields, TransportFields
  <2>4. ASSUME IsPending(h.call[i]) PROVE FALSE
    <3>1. h.net[i].st = "end"
      BY <2>1, <2>2, <2>3, <2>4 DEF PairOK, Live
    <3>2. ClientReady(h, i)
      BY <2>4, <3>1 DEF ClientReady, IsPending
    <3> QED BY <3>2 DEF Drained
  <2> QED BY <2>1, <2>4
<1>2. h.active = 0
  <2> DEFINE acts == [j \in Ids |-> ActOf(h.call[j])]
  <2>1. acts \in [Ids -> Nat] /\ \A j \in Ids : acts[j] = 0
    BY <1>1 DEF ActOf
  <2>2. h.active = Total(acts)
    BY <1>0 DEF Books
  <2> HIDE DEF acts
  <2> QED BY <2>1, <2>2, TotalOfNone
<1>3. ASSUME NEW i \in Ledger(h) PROVE h.call[i].settle # "pending" /\ AttemptSettled(h, i)
  <2>1. i \in Ids /\ h.call[i] # None
    BY DEF Ledger
  <2>2. h.net[i].instrumented
    BY <1>0, <2>1 DEF Linked, PairOK
  <2> QED BY <1>1, <2>1, <2>2 DEF IsPending, AttemptSettled
<1> QED BY <1>2, <1>3 DEF NativeSettled

\* The actions of the finalization.
FinSteps == Finalize \/ GuestExits \/ JoinReturns \/ ReleaseAfterJoin \/ GuestFails

LEMMA FinStepKeeps ==
    ASSUME BudgetInv, FinSteps
    PROVE  Keeps(m, m') /\ FinInv(m', fin') /\ UNCHANGED <<client, past>>
           /\ fin' \in {"run", "exit", "join", "release", "released", "kept", "broken"}
<1>0. HostInv(m) /\ FinInv(m, fin) /\ m \in Host
  BY DEF BudgetInv, HostInv
<1>k. Keeps(m, m)
  BY <1>0, KeepsSame
<1>1. CASE Finalize
  <2>1. Keeps(m, m') /\ m'.sealed
    BY <1>0, <1>1, FinalizeKeeps
  <2>2. fin' = "exit" /\ UNCHANGED <<client, past>>
    BY <1>1 DEF Finalize
  <2> QED BY <2>1, <2>2 DEF FinInv
<1>2. CASE GuestExits
  <2>0. m.sealed /\ UNCHANGED <<client, past>>
    BY <1>0, <1>2 DEF GuestExits, FinInv
  <2>1. CASE /\ ~m.instrumented \/ \E i \in Ledger(m) : ~m.net[i].instrumented
             /\ fin' = "kept" /\ m' = m
    <3>1. Ledger(m) = {}
      BY <1>0, <2>1 DEF HostInv, Linked, PairOK, Ledger
    <3> QED BY <1>k, <2>0, <2>1, <3>1 DEF FinInv
  <2>2. CASE Settled(m) /\ fin' = "release" /\ m' = m
    BY <1>k, <2>0, <2>2 DEF FinInv
  <2>3. CASE fin' = "join" /\ m' = [m EXCEPT !.waiting = TRUE]
    <3>1. PICK g : g = [m EXCEPT !.waiting = TRUE]
      OBVIOUS
    <3>2. Keeps(m, g)
      BY <1>0, <3>1, WaitKeeps
    <3>3. g.sealed
      BY <2>0, <3>2 DEF Keeps, Stable
    <3> QED BY <2>0, <2>3, <3>1, <3>2, <3>3 DEF FinInv
  <2> QED BY <1>2, <2>1, <2>2, <2>3 DEF GuestExits
<1>3. CASE JoinReturns
  <2>1. fin = "join" /\ m.woken /\ fin' = "release" /\ m' = m /\ UNCHANGED <<client, past>>
    BY <1>3 DEF JoinReturns
  <2>2. Settled(m) /\ m.sealed
    BY <1>0, <2>1 DEF HostInv, Native, WokenOK, Settled
  <2> QED BY <1>k, <2>1, <2>2 DEF FinInv
<1>4. CASE ReleaseAfterJoin
  <2>1. /\ fin = "release" /\ Drained(m) /\ m' = m /\ UNCHANGED <<client, past>>
        /\ fin' = IF NativeSettled(m) THEN "released" ELSE "kept"
    BY <1>4 DEF ReleaseAfterJoin
  <2>2. Settled(m) /\ m.sealed
    BY <1>0, <2>1 DEF FinInv
  <2>3. NativeSettled(m) /\ m.active = 0
    BY <1>0, <2>1, <2>2, SettledAndDrained DEF NativeSettled
  <2> QED BY <1>k, <2>1, <2>2, <2>3 DEF FinInv
<1>5. CASE GuestFails
  <2>1. fin # "run" /\ fin' = "broken" /\ m' = m /\ UNCHANGED <<client, past>>
    BY <1>5 DEF GuestFails
  <2> QED BY <1>0, <1>k, <2>1 DEF FinInv
<1> QED BY <1>1, <1>2, <1>3, <1>4, <1>5 DEF FinSteps

\* Every step of the specification preserves the invariant, and lets nothing
\* succeed once the budget is closed.
LEMMA StepKeeps ==
    ASSUME BudgetInv, [Next]_vars
    PROVE  BudgetInv' /\ NotLate(m, m')
<1>0. HostInv(m) /\ FinInv(m, fin) /\ m \in Host /\ TypeOK /\ past \in BOOLEAN /\ client \in Clients
  BY DEF BudgetInv, HostInv, TypeOK
<1>1. ASSUME Keeps(m, m'), FinInv(m', fin'), client' = client, past' \in BOOLEAN,
             fin' \in {"run", "exit", "join", "release", "released", "kept", "broken"}
      PROVE  BudgetInv' /\ NotLate(m, m')
  <2>1. HostInv(m') /\ NotLate(m, m') /\ m' \in Host
    BY <1>1 DEF Keeps, HostInv
  <2>2. TypeOK'
    BY <1>0, <1>1, <2>1 DEF TypeOK
  <2>3. HostInv(m)' /\ FinInv(m, fin)'
    BY <1>1, <2>1 DEF HostInv, CallInv, Books, Open, Shut, Native, WokenOK, Linked, FinInv, Ledger, Settled
  <2> QED BY <2>1, <2>2, <2>3 DEF BudgetInv
<1>2. ASSUME Keeps(m, m'), UNCHANGED <<client, fin>>, past' \in BOOLEAN
      PROVE  BudgetInv' /\ NotLate(m, m')
  <2>1. m' \in Host /\ Stable(m, m')
    BY <1>2 DEF Keeps, HostInv
  <2>2. PICK g : g = m'
    OBVIOUS
  <2>3. FinInv(g, fin)
    BY <1>0, <2>1, <2>2, FinKeeps
  <2>4. fin' = fin /\ client' = client
    BY <1>2
  <2>5. fin' \in {"run", "exit", "join", "release", "released", "kept", "broken"}
    BY <1>0, <2>4 DEF TypeOK
  <2> QED BY <1>1, <1>2, <2>2, <2>3, <2>4, <2>5
<1>3. CASE \E max \in 1..MaxOutputPerCall, bytes \in 1..MaxBytesPerCall : Admit(max, bytes)
  <2>1. PICK max \in 1..MaxOutputPerCall, bytes \in 1..MaxBytesPerCall : Admit(max, bytes)
    BY <1>3
  <2>2. Keeps(m, m')
    BY <1>0, <2>1, AdmitKeeps
  <2>3. UNCHANGED <<client, past, fin>>
    BY <2>1 DEF Admit
  <2> QED BY <1>0, <1>2, <2>2, <2>3
<1>4. ASSUME NEW i \in Ids, NativeStep(i) \/ SdkFetches(i)
      PROVE  BudgetInv' /\ NotLate(m, m')
  BY <1>0, <1>2, <1>4, NativeKeeps
<1>5. ASSUME NEW i \in Ids, Reaction(i)
      PROVE  BudgetInv' /\ NotLate(m, m')
  BY <1>0, <1>2, <1>5, ReactionKeeps
<1>6. CASE Cancel \/ DeadlineCloses
  <2>1. Keeps(m, m')
    BY <1>0, <1>6, CancelKeeps
  <2>2. UNCHANGED <<client, past, fin>>
    BY <1>6 DEF Cancel, DeadlineCloses
  <2> QED BY <1>0, <1>2, <2>1, <2>2
<1>7. CASE ClockPasses
  <2>1. m' = m /\ UNCHANGED <<client, fin>> /\ past' \in BOOLEAN
    BY <1>7 DEF ClockPasses
  <2> QED BY <1>0, <1>2, <2>1, KeepsSame
<1>8. CASE FinSteps
  BY <1>0, <1>1, <1>8, FinStepKeeps
<1>9. CASE UNCHANGED vars
  <2>1. m' = m /\ UNCHANGED <<client, past, fin>>
    BY <1>9 DEF vars
  <2> QED BY <1>0, <1>2, <2>1, KeepsSame
<1> QED BY <1>3, <1>4, <1>5, <1>6, <1>7, <1>8, <1>9 DEF Next, FinSteps
LEMMA InitHolds ==
    ASSUME Init
    PROVE  BudgetInv
<1>1. /\ client \in Clients /\ past = FALSE /\ fin = "run"
  BY DEF Init
<1> DEFINE idle == [st |-> "idle", cancel |-> "no", failed |-> FALSE, sdk |-> FALSE,
                    producer |-> FALSE, recOpen |-> 0, recOps |-> 0, instrumented |-> FALSE]
<1>2. m = [call |-> [i \in Ids |-> None], net |-> [i \in Ids |-> idle],
           closed |-> None, active |-> 0, bytes |-> 0, reserved |-> 0,
           obsIn |-> 0, obsOut |-> 0, instrumented |-> FALSE, sealed |-> FALSE,
           transports |-> 0, pending |-> 0, waiting |-> FALSE, woken |-> FALSE]
  BY DEF Init
<1>3. idle \in Transport
  BY DEF Transport
<1>4. TransportOK(idle) /\ WeightOf(idle) = 0 /\ idle.recOps = 0 /\ idle.recOpen = 0
  BY DEF TransportOK, WeightOf, FlightOf, Live
<1>5. PairOK(None, idle)
  BY DEF PairOK, IsPending
<1>6. PICK t : t = idle
  OBVIOUS
<1> HIDE DEF idle
<1>7. m \in Host
  BY <1>2, <1>3 DEF Host
<1>8. /\ m.call = [i \in Ids |-> None] /\ m.net = [i \in Ids |-> t] /\ m.closed = None
      /\ m.active = 0 /\ m.reserved = 0 /\ m.obsIn = 0 /\ m.obsOut = 0
      /\ m.transports = 0 /\ m.pending = 0
  BY <1>2, <1>6
<1>9. ~m.woken
  BY <1>2
<1>10. Ledger(m) = {}
  BY <1>8 DEF Ledger
<1> DEFINE zero == [j \in Ids |-> 0]
<1>11. Total(zero) = 0
  <2>1. zero \in [Ids -> Nat] /\ \A j \in Ids : zero[j] = 0
    OBVIOUS
  <2> HIDE DEF zero
  <2> QED BY <2>1, TotalOfNone
<1>12. /\ [j \in Ids |-> WantOf(m.call[j])] = zero /\ [j \in Ids |-> ActOf(m.call[j])] = zero
       /\ [j \in Ids |-> m.net[j].recOps] = zero /\ [j \in Ids |-> m.net[j].recOpen] = zero
       /\ [j \in Ids |-> WeightOf(m.net[j])] = zero
  <2>1. WantOf(None) = 0 /\ ActOf(None) = 0
    BY DEF WantOf, ActOf, Booked, IsPending
  <2>2. t.recOps = 0 /\ t.recOpen = 0 /\ WeightOf(t) = 0
    BY <1>4, <1>6
  <2>3. [j \in Ids |-> WantOf(m.call[j])] = zero /\ [j \in Ids |-> ActOf(m.call[j])] = zero
    BY <1>8, <2>1
  <2>4. [j \in Ids |-> m.net[j].recOps] = zero /\ [j \in Ids |-> m.net[j].recOpen] = zero
    BY <1>8, <2>2
  <2>5. [j \in Ids |-> WeightOf(m.net[j])] = zero
    BY <1>8, <2>2
  <2> QED BY <2>3, <2>4, <2>5
<1> HIDE DEF zero
<1>13. Books(m)
  <2>1. 0 \in 0..MaxAttempts /\ Ledger(m) = 1..0
    BY <1>10, NumbersAreNat
  <2>2. m.active <= MaxConcurrent
    BY <1>8, NumbersAreNat
  <2> QED BY <1>8, <1>10, <1>11, <1>12, <2>1, <2>2 DEF Books
<1>14. Open(m)
  BY <1>8, <1>10, NumbersAreNat DEF Open
<1>15. Native(m)
  <2>1. \A i \in Ids : TransportOK(m.net[i])
    BY <1>4, <1>6, <1>8
  <2>2. Total([i \in Ids |-> WeightOf(m.net[i])]) <= 2 * MaxConcurrent
    BY <1>11, <1>12, NumbersAreNat
  <2> QED BY <1>8, <1>9, <1>11, <1>12, <2>1, <2>2 DEF Native, WokenOK
<1>16. Linked(m)
  <2>1. \A i \in Ids : PairOK(m.call[i], m.net[i]) /\ OpenPairOK(m.call[i], m.net[i])
    BY <1>4, <1>5, <1>6, <1>8 DEF OpenPairOK
  <2> QED BY <1>10, <2>1 DEF Linked
<1>17. TypeOK
  BY <1>1, <1>7 DEF TypeOK
<1>18. FinInv(m, fin)
  BY <1>1 DEF FinInv
<1> QED BY <1>7, <1>8, <1>13, <1>14, <1>15, <1>16, <1>17, <1>18 DEF BudgetInv, HostInv, CallInv

LEMMA FlightIs == \A h, i : InFlight(h, i) = FlightOf(h.net[i])
BY DEF InFlight, FlightOf, Live

LEMMA InvIsSound ==
    ASSUME BudgetInv
    PROVE  BudgetSound
<1>0. m \in Host /\ CallInv(m) /\ Native(m) /\ Linked(m) /\ Books(m) /\ TypeOK
  BY DEF BudgetInv, HostInv, CallInv
<1>1. WithinLimits
  BY <1>0 DEF WithinLimits, CallInv, Open
<1>2. BooksBalance
  <2>1. [i \in Ids |-> IF /\ m.call[i] # None
                          /\ ~(m.call[i].settle = "fulfilled" /\ m.call[i].usage = "reported")
                       THEN m.call[i].want ELSE 0] = [i \in Ids |-> WantOf(m.call[i])]
    BY DEF WantOf, Booked
  <2>2. PICK A : A = {i \in Ledger(m) : m.call[i].settle = "pending"}
    OBVIOUS
  <2>3. A \in SUBSET Ids /\ \A i \in Ids : i \in A <=> IsPending(m.call[i])
    BY <2>2 DEF Ledger, IsPending
  <2>4. [i \in Ids |-> ActOf(m.call[i])] = [i \in Ids |-> IF i \in A THEN 1 ELSE 0]
    BY <2>3 DEF ActOf
  <2>5. Total([i \in Ids |-> IF i \in A THEN 1 ELSE 0]) = Cardinality(A)
    BY <2>3, TotalCounts
  <2>6. m.active = Cardinality(A)
    BY <1>0, <2>4, <2>5 DEF Books
  <2>7. m.reserved = Total([i \in Ids |-> WantOf(m.call[i])])
    BY <1>0 DEF Books
  <2> QED BY <2>1, <2>2, <2>6, <2>7 DEF BooksBalance
<1>3. UnknownSeals
  <2>1. ASSUME NEW i \in Ledger(m), m.call[i].usage = "unknown" PROVE m.closed # None /\ m.sealed
    <3>1. m.closed # None
      BY <1>0, <2>1 DEF CallInv, Open, OpenEntryOK
    <3> QED BY <1>0, <3>1 DEF CallInv, Shut
  <2> QED BY <2>1 DEF UnknownSeals
<1>4. OutcomesAreFinal
  BY <1>0 DEF OutcomesAreFinal, Books, EntryOK
<1>5. ScopeCountsNative
  <2>1. \A i \in Ids : m.net[i].recOps = InFlight(m, i) /\ m.net[i].cancel # "refused"
    BY <1>0, FlightIs DEF Native, TransportOK
  <2>2. [i \in Ids |-> InFlight(m, i)] = [i \in Ids |-> m.net[i].recOps]
    BY <2>1
  <2> QED BY <1>0, <2>1, <2>2 DEF ScopeCountsNative, Native
<1> QED BY <1>0, <1>1, <1>2, <1>3, <1>4, <1>5 DEF BudgetSound

LEMMA InvReleases ==
    ASSUME BudgetInv
    PROVE  ReleaseSound
<1>0. m \in Host /\ Native(m) /\ FinInv(m, fin)
  BY DEF BudgetInv, HostInv
<1>1. KeptForCause
  BY <1>0 DEF KeptForCause, FinInv
<1>2. ASSUME fin = "released"
      PROVE  /\ \A i \in Ids : InFlight(m, i) = 0
             /\ m.active = 0 /\ m.sealed /\ m.transports = 0
  <2>1. Settled(m) /\ m.active = 0
    BY <1>0, <1>2 DEF FinInv
  <2>2. \A i \in Ids : InFlight(m, i) = 0
    BY <1>0, <2>1, SettledIsQuiet, FlightIs
  <2> QED BY <2>1, <2>2 DEF Settled
<1> QED BY <1>1, <1>2 DEF ReleaseSound, ReleasedIsQuiet

\* For any limits and any number of attempts, the books of the model budget
\* are right in every reachable state, whatever the order in which providers,
\* the network, the clock and the run's end come: while it is open observed
\* and reserved output stay within the limit, the reservations and the active
\* count are those of the ledger, unknown usage has sealed it, a resumed
\* caller's outcome is final, and the scope counts exactly the native
\* operations in flight, with room for every cleanup (model-budget.ts,
\* native-operation-scope.ts, bounded-response.ts).
THEOREM BudgetIsSound == Spec => []BudgetSound
<1>1. Init => BudgetInv
  BY InitHolds
<1>2. BudgetInv /\ [Next]_vars => BudgetInv'
  BY StepKeeps
<1>3. BudgetInv => BudgetSound
  BY InvIsSound
<1> QED BY <1>1, <1>2, <1>3, PTL DEF Spec

\* The finalization of an RLM run gives its permit back only when nothing
\* native is in flight, no call is active and the scope is sealed, and it
\* keeps the permit of a guest that exited only when no model call was ever
\* made (rlm-runtime.ts, finalize and releaseAfterJoin).
THEOREM ReleaseIsSound == Spec => []ReleaseSound
<1>1. Init => BudgetInv
  BY InitHolds
<1>2. BudgetInv /\ [Next]_vars => BudgetInv'
  BY StepKeeps
<1>3. BudgetInv => ReleaseSound
  BY InvReleases
<1> QED BY <1>1, <1>2, <1>3, PTL DEF Spec

\* No step turns a call into a success once the budget is closed, also when
\* the close came between the response and the caller that awaits it
\* (createMessage's checkOpen after its await, model-budget.ts).
THEOREM NothingLateSucceeds == Spec => NoLateSuccess
<1>1. Init => BudgetInv
  BY InitHolds
<1>2. BudgetInv /\ [Next]_vars => BudgetInv'
  BY StepKeeps
<1>3. BudgetInv /\ [Next]_vars
        => [\A i \in Ids : (m'.call[i] # None /\ m'.call[i].outcome = "succeeded")
                              => m.call[i].outcome = "succeeded" \/ m.closed = None]_vars
  BY StepKeeps DEF NotLate
<1> QED BY <1>1, <1>2, <1>3, PTL DEF Spec, NoLateSuccess
=============================================================================
