------------------------------- MODULE Permit -------------------------------
(* What the RLM backend promises its callers: one permit for the daemon        *)
(* process, held by the run whose work is under way and handed on only after   *)
(* all of that work (Worker thread, guest calls, provider I/O) has settled.    *)
(* RlmRun implements it.                                                       *)
CONSTANTS Runs, NoRun

VARIABLES
  holder,  \* the run that holds the permit, or NoRun
  busy     \* the runs with unsettled work

permitVars == <<holder, busy>>

PermitInit == holder = NoRun /\ busy = {}

(* Admission: only a free permit is taken, and work starts with it. *)
Take(r) ==
  /\ holder = NoRun
  /\ holder' = r
  /\ busy' = busy \cup {r}

(* The holder starts more work. *)
Work(r) ==
  /\ holder = r
  /\ busy' = busy \cup {r}
  /\ UNCHANGED holder

(* The last piece of a run's work settles. *)
Settle(r) ==
  /\ busy' = busy \ {r}
  /\ UNCHANGED holder

(* Release: never while any work of the holder is unsettled. *)
Give(r) ==
  /\ holder = r
  /\ r \notin busy
  /\ holder' = NoRun
  /\ UNCHANGED busy

PermitNext == \E r \in Runs : Take(r) \/ Work(r) \/ Settle(r) \/ Give(r)

PermitSpec == PermitInit /\ [][PermitNext]_permitVars
=============================================================================
