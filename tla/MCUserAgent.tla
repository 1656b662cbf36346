---------------------------- MODULE MCUserAgent ----------------------------
(* TLC instances of UserAgent: small sets of sessions, runs, entries, tools. *)
EXTENDS UserAgent, TLC

CONSTANTS e1, e2, r1, r2, plain, slot

OneSession == 1..1
TwoSessions == 1..2
TwoEntries == {e1, e2}
NoTools == {}

EntrySymmetry == Permutations({e1, e2})
EntryRunSymmetry == Permutations({e1, e2}) \cup Permutations({r1, r2})
=============================================================================
