------------------------- MODULE ConnectionsProofs -------------------------
(***************************************************************************)
(* Proofs about Connections, for any services, flows, redirects and calls. *)
(*                                                                         *)
(* Why the properties hold: a flow is redeemed at most once, because it is *)
(* gone from then on and its credential is still unused (FlowGood, CbGood);*)
(* a credential belongs to the service of its flow (RowGood, CallGood); and*)
(* the in-flight map names the one call that refreshes a service, which    *)
(* alone can move that credential's refresh token on (FlightGood).         *)
(***************************************************************************)
EXTENDS Connections, TLAPS

\* No credential of the flow has been stored or read.
Unused(f) ==
    /\ connRefresh[f] = 0
    /\ \A s \in Services : connRow[s] # None => connRow[s].flow # f
    /\ \A k \in Calls : connCall[k].pc # "idle" => connCall[k].cred.flow # f

FlowGood(f) ==
    /\ connFlow[f].st # "new" => connFlow[f].svc \in Services
    /\ connFlow[f].st = "new" => connCli[f] = [pc |-> "none", out |-> None]
    /\ connFlow[f].st = "denied" => connFlow[f].said
    /\ connCli[f].out = "denied" => connFlow[f].said
    /\ connFlow[f].st # "gone" => Unused(f)

OnePending ==
    \A f, g \in Flows : connFlow[f].st = "pending" /\ connFlow[g].st = "pending"
                        /\ connFlow[f].svc = connFlow[g].svc => f = g

Redeems(c) == connCb[c].pc \in {"consumed", "minted"}

CbGood(c) ==
    /\ connCb[c].pc \in {"loaded", "consumed", "minted", "stamp"} =>
         connCb[c].flow \in Flows /\ connFlow[connCb[c].flow].st # "new"
    /\ Redeems(c) => connFlow[connCb[c].flow].st = "gone" /\ Unused(connCb[c].flow)
    /\ connCb[c].pc = "stamp" => connFlow[connCb[c].flow].said

OneRedeemer == \A c, d \in Callbacks : Redeems(c) /\ Redeems(d) /\ connCb[c].flow = connCb[d].flow => c = d

RowGood(s) == connRow[s] # None => connFlow[connRow[s].flow].svc = s

\* The refresh token of a stored credential works, or the call that spent it
\* is about to store the next one, or its answer was lost.
TokenGood(s) ==
    connRow[s] # None /\ ProviderOf[s] \in Rotating =>
        \/ connRow[s].gen = connRefresh[connRow[s].flow]
        \/ connRow[s].flow \in connLost
        \/ /\ connFlight[s] # None /\ connCall[connFlight[s]].pc = "encrypt"
           /\ connCall[connFlight[s]].cred = connRow[s]

CallGood(k) ==
    /\ connCall[k].pc # "idle" =>
         /\ connCall[k].svc \in Services /\ connCall[k].cred \in Credential
         /\ connCall[k].cred # None
         /\ connFlow[connCall[k].cred.flow].svc = connCall[k].svc
    /\ connCall[k].pc \in {"network", "encrypt"} => connFlight[connCall[k].svc] = k
    /\ connCall[k].pc = "encrypt" =>
         /\ connCall[k].cred.gen < MaxGen
         /\ ProviderOf[connCall[k].svc] \in Rotating =>
              connRefresh[connCall[k].cred.flow] = connCall[k].cred.gen + 1

FlightGood(s) ==
    connFlight[s] # None => /\ connCall[connFlight[s]].svc = s
                            /\ connCall[connFlight[s]].pc \in {"network", "encrypt"}

FlowsGood == (\A f \in Flows : FlowGood(f)) /\ OnePending
CbsGood == (\A c \in Callbacks : CbGood(c)) /\ OneRedeemer
RowsGood == \A s \in Services : RowGood(s) /\ TokenGood(s)
CallsGood == (\A k \in Calls : CallGood(k)) /\ \A s \in Services : FlightGood(s)

ConnInv == ConnTypeOK /\ FlowsGood /\ CbsGood /\ RowsGood /\ CallsGood

-----------------------------------------------------------------------------
CbRow == [pc: {"idle", "loaded", "consumed", "minted", "stamp", "done"}, flow: Flows \cup {None}]
CallRow == [pc: {"idle", "decrypt", "network", "encrypt", "joined"},
            svc: Services \cup {None}, cred: Credential \cup {None}]
CliRow == [pc: {"none", "wait", "abandon", "end"},
           out: {"denied", "expired", "timeout", "cancelled", None}]

LEMMA TypeParts ==
    ConnTypeOK <=> /\ connRow \in [Services -> Credential \cup {None}]
                   /\ connFlow \in [Flows -> FlowRow]
                   /\ connCb \in [Callbacks -> CbRow]
                   /\ connCall \in [Calls -> CallRow]
                   /\ connFlight \in [Services -> Calls \cup {None}]
                   /\ connRefresh \in [Flows -> 0..MaxGen]
                   /\ connExpired \subseteq Credential /\ connLost \subseteq Flows
                   /\ connCli \in [Flows -> CliRow]
BY DEF ConnTypeOK, CbRow, CallRow, CliRow

LEMMA InvParts ==
    ConnInv => /\ connRow \in [Services -> Credential \cup {None}]
               /\ connFlow \in [Flows -> FlowRow]
               /\ connCb \in [Callbacks -> CbRow]
               /\ connCall \in [Calls -> CallRow]
               /\ connFlight \in [Services -> Calls \cup {None}]
               /\ connRefresh \in [Flows -> 0..MaxGen]
               /\ connExpired \subseteq Credential /\ connLost \subseteq Flows
               /\ connCli \in [Flows -> CliRow]
               /\ FlowsGood /\ CbsGood /\ RowsGood /\ CallsGood
BY TypeParts DEF ConnInv

LEMMA InvMake ==
    (/\ connRow \in [Services -> Credential \cup {None}]
     /\ connFlow \in [Flows -> FlowRow]
     /\ connCb \in [Callbacks -> CbRow]
     /\ connCall \in [Calls -> CallRow]
     /\ connFlight \in [Services -> Calls \cup {None}]
     /\ connRefresh \in [Flows -> 0..MaxGen]
     /\ connExpired \subseteq Credential /\ connLost \subseteq Flows
     /\ connCli \in [Flows -> CliRow]
     /\ FlowsGood /\ CbsGood /\ RowsGood /\ CallsGood) => ConnInv
BY TypeParts DEF ConnInv

LEMMA InvMakeNext ==
    (/\ connRow' \in [Services -> Credential \cup {None}]
     /\ connFlow' \in [Flows -> FlowRow]
     /\ connCb' \in [Callbacks -> CbRow]
     /\ connCall' \in [Calls -> CallRow]
     /\ connFlight' \in [Services -> Calls \cup {None}]
     /\ connRefresh' \in [Flows -> 0..MaxGen]
     /\ connExpired' \subseteq Credential /\ connLost' \subseteq Flows
     /\ connCli' \in [Flows -> CliRow]
     /\ FlowsGood' /\ CbsGood' /\ RowsGood' /\ CallsGood') => ConnInv'
BY DEF ConnInv, ConnTypeOK, CbRow, CallRow, CliRow

-----------------------------------------------------------------------------
(* Steps of the flow: credentials and calls stay as they are.              *)

Same == UNCHANGED <<connRow, connCall, connFlight, connRefresh, connLost>>

\* What no step of a flow undoes.
FlowMoves ==
    \A f \in Flows :
        /\ connFlow[f].st # "new" => connFlow'[f].st # "new" /\ connFlow'[f].svc = connFlow[f].svc
        /\ connFlow[f].st = "gone" => connFlow'[f].st = "gone"
        /\ connFlow[f].st # "new" /\ connFlow[f].said => connFlow'[f].said

LEMMA StoredIsGone ==
    ASSUME ConnInv, NEW s \in Services, connRow[s] # None
    PROVE  connRow[s] \in Credential /\ connRow[s].flow \in Flows /\ connFlow[connRow[s].flow].st = "gone"
<1>1. connRow[s] \in Credential
  BY InvParts
<1>2. connRow[s].flow \in Flows
  BY <1>1 DEF Credential
<1> QED BY <1>1, <1>2, InvParts DEF FlowsGood, FlowGood, Unused

LEMMA ReadIsGone ==
    ASSUME ConnInv, NEW k \in Calls, connCall[k].pc # "idle"
    PROVE  connCall[k].cred.flow \in Flows /\ connFlow[connCall[k].cred.flow].st = "gone"
<1>1. connCall[k].cred \in Credential
  BY InvParts DEF CallsGood, CallGood
<1>2. connCall[k].cred.flow \in Flows
  BY <1>1 DEF Credential
<1> QED BY <1>1, <1>2, InvParts DEF FlowsGood, FlowGood, Unused

LEMMA SameCredentials ==
    ASSUME ConnInv, Same, FlowMoves
    PROVE  RowsGood' /\ CallsGood' /\ \A f \in Flows : Unused(f) => Unused(f)'
<1>1. ASSUME NEW s \in Services PROVE RowGood(s)' /\ TokenGood(s)'
  <2>1. RowGood(s) /\ TokenGood(s)
    BY InvParts DEF RowsGood
  <2>2. connRow[s] # None => connFlow'[connRow[s].flow].svc = connFlow[connRow[s].flow].svc
    BY StoredIsGone DEF FlowMoves
  <2> QED BY <2>1, <2>2 DEF Same, RowGood, TokenGood
<1>2. ASSUME NEW k \in Calls PROVE CallGood(k)'
  <2>1. CallGood(k)
    BY InvParts DEF CallsGood
  <2>2. connCall[k].pc # "idle" => connFlow'[connCall[k].cred.flow].svc = connFlow[connCall[k].cred.flow].svc
    BY ReadIsGone DEF FlowMoves
  <2> QED BY <2>1, <2>2 DEF Same, CallGood
<1>3. \A s \in Services : FlightGood(s)'
  BY InvParts DEF Same, FlightGood, CallsGood
<1> QED BY <1>1, <1>2, <1>3 DEF RowsGood, CallsGood, Same, Unused

LEMMA CbSame ==
    ASSUME ConnInv, Same, FlowMoves, NEW c \in Callbacks, connCb'[c] = connCb[c]
    PROVE  CbGood(c)' /\ (Redeems(c)' <=> Redeems(c))
<1>1. CbGood(c)
  BY InvParts DEF CbsGood
<1>2. \A f \in Flows : Unused(f) => Unused(f)'
  BY SameCredentials
<1> QED BY <1>1, <1>2 DEF CbGood, Redeems, FlowMoves

\* A redirect moves to x.
CbMay(c, x) ==
    /\ x \in CbRow
    /\ x.pc \in {"loaded", "consumed", "minted", "stamp"} =>
         x.flow \in Flows /\ connFlow'[x.flow].st # "new"
    /\ x.pc \in {"consumed", "minted"} =>
         /\ connFlow'[x.flow].st = "gone" /\ Unused(x.flow)
         /\ \A d \in Callbacks \ {c} : Redeems(d) => connCb[d].flow # x.flow
    /\ x.pc = "stamp" => connFlow'[x.flow].said

LEMMA CbStep ==
    ASSUME ConnInv, Same, FlowMoves, NEW c \in Callbacks, NEW x, CbMay(c, x),
           connCb' = [connCb EXCEPT ![c] = x]
    PROVE  connCb' \in [Callbacks -> CbRow] /\ CbsGood'
<1>0. connCb \in [Callbacks -> CbRow] /\ CbsGood
  BY InvParts
<1>1. connCb'[c] = x /\ \A d \in Callbacks \ {c} : connCb'[d] = connCb[d]
  BY <1>0
<1>2. connCb' \in [Callbacks -> CbRow]
  BY <1>0 DEF CbMay
<1>3. \A f \in Flows : Unused(f) => Unused(f)'
  BY SameCredentials
<1>4. CbGood(c)'
  BY <1>1, <1>3 DEF CbGood, CbMay, Redeems
<1>5. \A d \in Callbacks \ {c} : CbGood(d)' /\ (Redeems(d)' <=> Redeems(d))
  BY <1>1, CbSame
<1>6. OneRedeemer'
  <2> SUFFICES ASSUME NEW a \in Callbacks, NEW b \in Callbacks, Redeems(a)', Redeems(b)',
                      connCb'[a].flow = connCb'[b].flow
               PROVE  a = b
    BY DEF OneRedeemer
  <2>1. CASE a = c /\ b # c
    BY <1>1, <1>5, <2>1 DEF CbMay, Redeems
  <2>2. CASE a # c /\ b = c
    BY <1>1, <1>5, <2>2 DEF CbMay, Redeems
  <2>3. CASE a # c /\ b # c
    BY <1>0, <1>1, <1>5, <2>3 DEF CbsGood, OneRedeemer
  <2> QED BY <2>1, <2>2, <2>3
<1> QED BY <1>2, <1>4, <1>5, <1>6 DEF CbsGood

LEMMA CbsSame ==
    ASSUME ConnInv, Same, FlowMoves, UNCHANGED connCb
    PROVE  connCb' \in [Callbacks -> CbRow] /\ CbsGood'
<1>0. connCb \in [Callbacks -> CbRow] /\ CbsGood
  BY InvParts
<1>1. \A d \in Callbacks : CbGood(d)' /\ (Redeems(d)' <=> Redeems(d))
  BY CbSame
<1> QED BY <1>0, <1>1 DEF CbsGood, OneRedeemer

\* A flow moves to x, and its client to y.
FlowMay(f, x, y) ==
    /\ x \in FlowRow /\ y \in CliRow
    /\ x.st # "new" => x.svc \in Services
    /\ x.st = "new" => connFlow[f].st = "new" /\ y = connCli[f]
    /\ connFlow[f].st # "new" => x.st # "new" /\ x.svc = connFlow[f].svc
                                 /\ (connFlow[f].said => x.said)
    /\ connFlow[f].st = "gone" => x.st = "gone"
    /\ x.st = "denied" => x.said
    /\ y.out = "denied" => x.said
    /\ x.st = "pending" => connFlow[f].st = "pending"

LEMMA FlowStep ==
    ASSUME ConnInv, Same, NEW f \in Flows, NEW x, NEW y, FlowMay(f, x, y),
           connFlow' = [connFlow EXCEPT ![f] = x], connCli' = [connCli EXCEPT ![f] = y]
    PROVE  /\ connFlow' \in [Flows -> FlowRow] /\ connCli' \in [Flows -> CliRow]
           /\ FlowMoves /\ FlowsGood'
<1>0. connFlow \in [Flows -> FlowRow] /\ connCli \in [Flows -> CliRow] /\ FlowsGood
  BY InvParts
<1>1. /\ connFlow'[f] = x /\ connCli'[f] = y
      /\ \A g \in Flows \ {f} : connFlow'[g] = connFlow[g] /\ connCli'[g] = connCli[g]
  BY <1>0
<1>2. connFlow' \in [Flows -> FlowRow] /\ connCli' \in [Flows -> CliRow]
  BY <1>0 DEF FlowMay
<1>3. FlowMoves
  BY <1>1 DEF FlowMoves, FlowMay
<1>4. \A g \in Flows : Unused(g) => Unused(g)'
  BY <1>3, SameCredentials
<1>5. \A g \in Flows \ {f} : FlowGood(g)'
  BY <1>0, <1>1, <1>4 DEF FlowsGood, FlowGood
<1>6. FlowGood(f)'
  <2>1. FlowGood(f)
    BY <1>0 DEF FlowsGood
  <2> QED BY <1>1, <1>4, <2>1 DEF FlowGood, FlowMay
<1>7. OnePending'
  <2> SUFFICES ASSUME NEW a \in Flows, NEW b \in Flows, connFlow'[a].st = "pending",
                      connFlow'[b].st = "pending", connFlow'[a].svc = connFlow'[b].svc
               PROVE  a = b
    BY DEF OnePending
  <2>1. \A g \in Flows : connFlow'[g].st = "pending" =>
                             connFlow[g].st = "pending" /\ connFlow'[g].svc = connFlow[g].svc
    BY <1>1 DEF FlowMay
  <2> QED BY <1>0, <2>1 DEF FlowsGood, OnePending
<1> QED BY <1>2, <1>3, <1>5, <1>6, <1>7 DEF FlowsGood

LEMMA FlowsSame ==
    ASSUME ConnInv, Same, UNCHANGED connFlow, NEW f \in Flows, NEW y, FlowMay(f, connFlow[f], y),
           connCli' = [connCli EXCEPT ![f] = y]
    PROVE  /\ connFlow' \in [Flows -> FlowRow] /\ connCli' \in [Flows -> CliRow]
           /\ FlowMoves /\ FlowsGood'
<1>1. connFlow' = [connFlow EXCEPT ![f] = connFlow[f]]
  BY InvParts
<1> DEFINE x == connFlow[f]
<1> HIDE DEF x
<1>2. FlowMay(f, x, y) /\ connFlow' = [connFlow EXCEPT ![f] = x]
  BY <1>1 DEF x
<1> QED BY <1>2, FlowStep

\* The client of no flow moves.
LEMMA FlowOnly ==
    ASSUME ConnInv, Same, NEW f \in Flows, NEW x, FlowMay(f, x, connCli[f]),
           connFlow' = [connFlow EXCEPT ![f] = x], UNCHANGED connCli
    PROVE  /\ connFlow' \in [Flows -> FlowRow] /\ connCli' \in [Flows -> CliRow]
           /\ FlowMoves /\ FlowsGood'
<1>1. connCli' = [connCli EXCEPT ![f] = connCli[f]]
  BY InvParts
<1> DEFINE y == connCli[f]
<1> HIDE DEF y
<1>2. FlowMay(f, x, y) /\ connCli' = [connCli EXCEPT ![f] = y]
  BY <1>1 DEF y
<1> QED BY <1>2, FlowStep

LEMMA FlowsStay ==
    ASSUME ConnInv, Same, UNCHANGED <<connFlow, connCli>>
    PROVE  /\ connFlow' \in [Flows -> FlowRow] /\ connCli' \in [Flows -> CliRow]
           /\ FlowMoves /\ FlowsGood'
<1>1. connFlow \in [Flows -> FlowRow] /\ connCli \in [Flows -> CliRow] /\ FlowsGood
  BY InvParts
<1>2. FlowMoves
  BY DEF FlowMoves
<1>3. \A g \in Flows : Unused(g) => Unused(g)'
  BY <1>2, SameCredentials
<1> QED BY <1>1, <1>2, <1>3 DEF FlowsGood, FlowGood, OnePending

\* A step of a flow and a redirect keeps the invariant.
LEMMA FlowKeeps ==
    ASSUME ConnInv, Same, UNCHANGED connExpired,
           connFlow' \in [Flows -> FlowRow], connCli' \in [Flows -> CliRow], FlowMoves, FlowsGood',
           connCb' \in [Callbacks -> CbRow], CbsGood'
    PROVE  ConnInv'
<1>1. RowsGood' /\ CallsGood'
  BY SameCredentials
<1>2. /\ connRow' \in [Services -> Credential \cup {None}]
      /\ connCall' \in [Calls -> CallRow]
      /\ connFlight' \in [Services -> Calls \cup {None}]
      /\ connRefresh' \in [Flows -> 0..MaxGen]
      /\ connExpired' \subseteq Credential /\ connLost' \subseteq Flows
  BY InvParts DEF Same
<1> QED BY <1>1, <1>2, InvMakeNext

LEMMA FlowLapsesKeeps ==
    ASSUME ConnInv, NEW f \in Flows, FlowLapses(f)
    PROVE  ConnInv'
<1> DEFINE x == [connFlow[f] EXCEPT !.lapsed = TRUE]
<1>0. connFlow[f] \in FlowRow /\ connCli[f] \in CliRow /\ FlowGood(f) /\ Present(f)
  BY InvParts DEF FlowsGood, FlowLapses
<1>1. Same /\ UNCHANGED <<connCb, connCli, connExpired>>
  BY DEF FlowLapses, OnlyFlow, Same
<1>2. connFlow' = [connFlow EXCEPT ![f] = x]
  BY DEF FlowLapses
<1>3. /\ x \in FlowRow /\ x.st = connFlow[f].st /\ x.svc = connFlow[f].svc
      /\ x.said = connFlow[f].said
  BY <1>0 DEF FlowRow
<1> HIDE DEF x
<1>4. FlowMay(f, x, connCli[f])
  BY <1>0, <1>3 DEF FlowMay, FlowGood, Present
<1>5. /\ connFlow' \in [Flows -> FlowRow] /\ connCli' \in [Flows -> CliRow]
      /\ FlowMoves /\ FlowsGood'
  BY <1>1, <1>2, <1>4, FlowOnly
<1> QED BY <1>1, <1>5, CbsSame, FlowKeeps

\* What a client may have become after a look at its flow.
Polled(f, y) ==
    /\ connCli' = [connCli EXCEPT ![f] = y] /\ y \in CliRow
    /\ y.out = "denied" => connCli[f].out = "denied" \/ FlowStatus(f) = "denied"

LEMMA PollMoves ==
    ASSUME ConnInv, NEW f \in Flows, CliPolls(f)
    PROVE  \E y : Polled(f, y)
<1>0. connCli[f] \in CliRow
  BY InvParts
<1>1. CASE connCli' = [connCli EXCEPT ![f].pc = "end"]
  <2>1. /\ [connCli[f] EXCEPT !.pc = "end"] \in CliRow
        /\ [connCli[f] EXCEPT !.pc = "end"].out = connCli[f].out
    BY <1>0 DEF CliRow
  <2> QED BY <1>1, <2>1 DEF Polled
<1>2. ASSUME NEW o \in {"denied", "expired", "timeout", "cancelled"},
             o = "denied" => FlowStatus(f) = "denied",
             connCli' = [connCli EXCEPT ![f] = [pc |-> "abandon", out |-> o]]
      PROVE  Polled(f, [pc |-> "abandon", out |-> o])
  <2>1. [pc |-> "abandon", out |-> o] \in CliRow
    BY DEF CliRow
  <2> QED BY <1>2, <2>1 DEF Polled
<1> QED BY <1>1, <1>2 DEF CliPolls

LEMMA CliPollsKeeps ==
    ASSUME ConnInv, NEW f \in Flows, CliPolls(f)
    PROVE  ConnInv'
<1>0. connFlow[f] \in FlowRow /\ connCli[f] \in CliRow /\ FlowGood(f) /\ connCli[f].pc = "wait"
  BY InvParts DEF FlowsGood, CliPolls
<1>1. Same /\ UNCHANGED <<connCb, connFlow, connExpired>>
  BY DEF CliPolls, OnlyFlow, Same
<1>2. PICK y : Polled(f, y)
  BY PollMoves
<1>3. FlowStatus(f) = "denied" => connFlow[f].st = "denied"
  BY DEF FlowStatus
<1>4. connFlow[f].st # "new"
  BY <1>0 DEF FlowGood
<1>5. FlowMay(f, connFlow[f], y)
  BY <1>0, <1>2, <1>3, <1>4 DEF FlowMay, FlowGood, Polled
<1>6. /\ connFlow' \in [Flows -> FlowRow] /\ connCli' \in [Flows -> CliRow]
      /\ FlowMoves /\ FlowsGood'
  BY <1>1, <1>2, <1>5, FlowsSame DEF Polled
<1> QED BY <1>1, <1>6, CbsSame, FlowKeeps

\* A flow that is gone, with nothing else about it changed.
Gone(f) == [connFlow[f] EXCEPT !.st = "gone"]

LEMMA GoneMay ==
    ASSUME ConnInv, NEW f \in Flows, connFlow[f].st # "new", NEW y \in CliRow,
           y.out = "denied" => connCli[f].out = "denied"
    PROVE  FlowMay(f, Gone(f), y)
<1>0. connFlow[f] \in FlowRow /\ FlowGood(f)
  BY InvParts DEF FlowsGood
<1>1. /\ Gone(f) \in FlowRow /\ Gone(f).st = "gone" /\ Gone(f).svc = connFlow[f].svc
      /\ Gone(f).said = connFlow[f].said
  BY <1>0 DEF Gone, FlowRow
<1> QED BY <1>0, <1>1 DEF FlowMay, FlowGood

LEMMA CliAbandonsKeeps ==
    ASSUME ConnInv, NEW f \in Flows, CliAbandons(f)
    PROVE  ConnInv'
<1> DEFINE y == [pc |-> "end", out |-> None]
<1>0. connFlow[f] \in FlowRow /\ connCli[f] \in CliRow /\ FlowGood(f) /\ connCli[f].pc = "abandon"
  BY InvParts DEF FlowsGood, CliAbandons
<1>1. Same /\ UNCHANGED <<connCb, connExpired>>
  BY DEF CliAbandons, OnlyFlow, Same
<1>2. connCli' = [connCli EXCEPT ![f] = y]
  BY DEF CliAbandons
<1>3. y \in CliRow /\ y.out # "denied"
  BY GenAssumption DEF CliRow
<1> HIDE DEF y
<1>4. connFlow[f].st # "new"
  BY <1>0 DEF FlowGood
<1>5. /\ connFlow' \in [Flows -> FlowRow] /\ connCli' \in [Flows -> CliRow]
      /\ FlowMoves /\ FlowsGood'
  <2>1. CASE connFlow' = connFlow
    <3>1. FlowMay(f, connFlow[f], y)
      BY <1>0, <1>3, <1>4 DEF FlowMay, FlowGood
    <3> QED BY <1>1, <1>2, <2>1, <3>1, FlowsSame
  <2>2. CASE connFlow' = [connFlow EXCEPT ![f] = Gone(f)]
    BY <1>1, <1>2, <1>3, <1>4, <2>2, GoneMay, FlowStep
  <2> QED BY <2>1, <2>2 DEF CliAbandons, CancelFlow, Gone
<1> QED BY <1>1, <1>5, CbsSame, FlowKeeps

LEMMA HandledMay ==
    ASSUME NEW c \in Callbacks
    PROVE  CbMay(c, Handled)
BY DEF CbMay, Handled, CbRow

LEMMA CallbackLoadsKeeps ==
    ASSUME ConnInv, NEW c \in Callbacks, NEW f \in Flows, NEW p \in Providers, CallbackLoads(c, f, p)
    PROVE  ConnInv'
<1> DEFINE x == [pc |-> "loaded", flow |-> f]
<1>1. Same /\ UNCHANGED <<connFlow, connCli, connExpired>> /\ connFlow[f].st # "new"
  BY DEF CallbackLoads, OnlyCallback, Same
<1>2. /\ connFlow' \in [Flows -> FlowRow] /\ connCli' \in [Flows -> CliRow]
      /\ FlowMoves /\ FlowsGood'
  BY <1>1, FlowsStay
<1>3. \/ connCb' = [connCb EXCEPT ![c] = x]
      \/ connCb' = [connCb EXCEPT ![c] = Handled]
  BY DEF CallbackLoads
<1>4. CbMay(c, x)
  BY <1>1 DEF CbMay, CbRow
<1> HIDE DEF x
<1>5. connCb' \in [Callbacks -> CbRow] /\ CbsGood'
  BY <1>1, <1>2, <1>3, <1>4, HandledMay, CbStep
<1> QED BY <1>1, <1>2, <1>5, FlowKeeps

LEMMA CallbackConsumesKeeps ==
    ASSUME ConnInv, NEW c \in Callbacks, CallbackConsumes(c)
    PROVE  ConnInv'
<1> DEFINE f == connCb[c].flow
           x == [connCb[c] EXCEPT !.pc = "consumed"]
<1>0. connCb[c] \in CbRow /\ CbGood(c) /\ connCb[c].pc = "loaded"
  BY InvParts DEF CbsGood, CallbackConsumes
<1>1. Same /\ UNCHANGED <<connCli, connExpired>>
  BY DEF CallbackConsumes, OnlyCallback, Same
<1>2. f \in Flows /\ connFlow[f].st # "new"
  BY <1>0 DEF CbGood
<1>3. connFlow[f] \in FlowRow /\ connCli[f] \in CliRow /\ FlowGood(f)
  BY <1>2, InvParts DEF FlowsGood
<1>4. x \in CbRow /\ x.pc = "consumed" /\ x.flow = f
  BY <1>0 DEF CbRow
<1>5. CASE Present(f)
  <2>1. connFlow' = [connFlow EXCEPT ![f] = Gone(f)]
    BY <1>5 DEF CallbackConsumes, Gone
  <2>2. \/ connCb' = [connCb EXCEPT ![c] = x]
        \/ connCb' = [connCb EXCEPT ![c] = Handled]
    BY DEF CallbackConsumes
  <2>3. connFlow'[f].st = "gone"
    BY <1>2, <1>3, <2>1, InvParts DEF Gone, FlowRow
  <2>4. Unused(f) /\ connFlow[f].st # "gone"
    BY <1>3, <1>5 DEF FlowGood, Present
  <2>5. \A d \in Callbacks \ {c} : Redeems(d) => connCb[d].flow # f
    BY <2>4, InvParts DEF CbsGood, CbGood
  <2>6. CbMay(c, x)
    BY <1>2, <1>4, <2>3, <2>4, <2>5 DEF CbMay
  <2> HIDE DEF x, f
  <2>7. /\ connFlow' \in [Flows -> FlowRow] /\ connCli' \in [Flows -> CliRow]
        /\ FlowMoves /\ FlowsGood'
    BY <1>1, <1>2, <1>3, <2>1, GoneMay, FlowOnly
  <2>8. connCb' \in [Callbacks -> CbRow] /\ CbsGood'
    BY <1>1, <2>2, <2>6, <2>7, HandledMay, CbStep
  <2> QED BY <1>1, <2>7, <2>8, FlowKeeps
<1>6. CASE ~Present(f)
  <2>1. connFlow' = connFlow /\ connCb' = [connCb EXCEPT ![c] = Handled]
    BY <1>6 DEF CallbackConsumes
  <2>2. /\ connFlow' \in [Flows -> FlowRow] /\ connCli' \in [Flows -> CliRow]
        /\ FlowMoves /\ FlowsGood'
    BY <1>1, <2>1, FlowsStay
  <2>3. connCb' \in [Callbacks -> CbRow] /\ CbsGood'
    BY <1>1, <2>1, <2>2, HandledMay, CbStep
  <2> QED BY <1>1, <2>2, <2>3, FlowKeeps
<1> QED BY <1>5, <1>6

LEMMA ExchangeCodeKeeps ==
    ASSUME ConnInv, NEW c \in Callbacks, ExchangeCode(c)
    PROVE  ConnInv'
<1> DEFINE x == [connCb[c] EXCEPT !.pc = "minted"]
<1>0. connCb[c] \in CbRow /\ CbGood(c) /\ OneRedeemer /\ connCb[c].pc = "consumed"
  BY InvParts DEF CbsGood, ExchangeCode
<1>1. Same /\ UNCHANGED <<connFlow, connCli, connExpired>>
  BY DEF ExchangeCode, OnlyCallback, Same
<1>2. /\ connFlow' \in [Flows -> FlowRow] /\ connCli' \in [Flows -> CliRow]
      /\ FlowMoves /\ FlowsGood'
  BY <1>1, FlowsStay
<1>3. \/ connCb' = [connCb EXCEPT ![c] = x]
      \/ connCb' = [connCb EXCEPT ![c] = Handled]
  BY DEF ExchangeCode
<1>4. x \in CbRow /\ x.pc = "minted" /\ x.flow = connCb[c].flow
  BY <1>0 DEF CbRow
<1> HIDE DEF x
<1>5. CbMay(c, x)
  BY <1>0, <1>1, <1>4 DEF CbMay, CbGood, OneRedeemer, Redeems
<1>6. connCb' \in [Callbacks -> CbRow] /\ CbsGood'
  BY <1>1, <1>2, <1>3, <1>5, HandledMay, CbStep
<1> QED BY <1>1, <1>2, <1>6, FlowKeeps

LEMMA DenialLoadsKeeps ==
    ASSUME ConnInv, NEW c \in Callbacks, NEW f \in Flows, NEW p \in Providers, DenialLoads(c, f, p)
    PROVE  ConnInv'
<1> DEFINE mine == Present(f) /\ ProviderOf[connFlow[f].svc] = p
           w == [pc |-> "stamp", flow |-> f]
           x == [connFlow[f] EXCEPT !.said = @ \/ mine]
<1>0. connFlow[f] \in FlowRow /\ connCli[f] \in CliRow /\ FlowGood(f) /\ connFlow[f].st # "new"
  BY InvParts DEF FlowsGood, DenialLoads
<1>1. Same /\ UNCHANGED <<connCli, connExpired>>
  BY DEF DenialLoads, OnlyCallback, Same
<1>2. connFlow' = [connFlow EXCEPT ![f] = x]
  BY DEF DenialLoads
<1>3. connCb' = [connCb EXCEPT ![c] = IF mine THEN w ELSE Handled]
  BY DEF DenialLoads
<1> HIDE DEF mine
<1>4. /\ x \in FlowRow /\ x.st = connFlow[f].st /\ x.svc = connFlow[f].svc
      /\ x.said = (connFlow[f].said \/ mine)
  BY <1>0 DEF FlowRow
<1> HIDE DEF x
<1>5. FlowMay(f, x, connCli[f])
  BY <1>0, <1>4 DEF FlowMay, FlowGood
<1>6. /\ connFlow' \in [Flows -> FlowRow] /\ connCli' \in [Flows -> CliRow]
      /\ FlowMoves /\ FlowsGood'
  BY <1>1, <1>2, <1>5, FlowOnly
<1>7. connFlow'[f] = x
  BY <1>2, InvParts
<1>8. mine => CbMay(c, w)
  BY <1>0, <1>4, <1>7 DEF CbMay, CbRow
<1> HIDE DEF w
<1>9. connCb' \in [Callbacks -> CbRow] /\ CbsGood'
  <2>1. CASE mine
    BY <1>1, <1>3, <1>6, <1>8, <2>1, CbStep
  <2>2. CASE ~mine
    BY <1>1, <1>3, <1>6, HandledMay, <2>2, CbStep
  <2> QED BY <2>1, <2>2
<1> QED BY <1>1, <1>6, <1>9, FlowKeeps

LEMMA DenialStampsKeeps ==
    ASSUME ConnInv, NEW c \in Callbacks, DenialStamps(c)
    PROVE  ConnInv'
<1> DEFINE f == connCb[c].flow
           x == [connFlow[f] EXCEPT !.st = IF @ = "pending" THEN "denied" ELSE @]
<1>0. CbGood(c) /\ connCb[c].pc = "stamp"
  BY InvParts DEF CbsGood, DenialStamps
<1>1. Same /\ UNCHANGED <<connCli, connExpired>>
  BY DEF DenialStamps, OnlyCallback, Same
<1>2. connFlow' = [connFlow EXCEPT ![f] = x] /\ connCb' = [connCb EXCEPT ![c] = Handled]
  BY DEF DenialStamps
<1>3. f \in Flows /\ connFlow[f].st # "new" /\ connFlow[f].said
  BY <1>0 DEF CbGood
<1> HIDE DEF f
<1>4. connFlow[f] \in FlowRow /\ connCli[f] \in CliRow /\ FlowGood(f)
  BY <1>3, InvParts DEF FlowsGood
<1>5. /\ x \in FlowRow /\ x.svc = connFlow[f].svc /\ x.said = connFlow[f].said
      /\ x.st = IF connFlow[f].st = "pending" THEN "denied" ELSE connFlow[f].st
  BY <1>4 DEF FlowRow
<1> HIDE DEF x
<1>6. FlowMay(f, x, connCli[f])
  BY <1>3, <1>4, <1>5 DEF FlowMay, FlowGood
<1>7. /\ connFlow' \in [Flows -> FlowRow] /\ connCli' \in [Flows -> CliRow]
      /\ FlowMoves /\ FlowsGood'
  BY <1>1, <1>2, <1>3, <1>6, FlowOnly
<1>8. connCb' \in [Callbacks -> CbRow] /\ CbsGood'
  BY <1>1, <1>2, <1>7, HandledMay, CbStep
<1> QED BY <1>1, <1>7, <1>8, FlowKeeps

\* A new flow displaces the pending one of its service, a denied one stays.
LEMMA BeginConnectKeeps ==
    ASSUME ConnInv, NEW f \in Flows, NEW s \in Services, BeginConnect(f, s)
    PROVE  ConnInv'
<1>0. connFlow \in [Flows -> FlowRow] /\ connCli \in [Flows -> CliRow] /\ FlowsGood
  BY InvParts
<1>1. Same /\ UNCHANGED <<connCb, connExpired>> /\ connFlow[f].st = "new"
  BY DEF BeginConnect, OnlyFlow, Same
<1>2. connFlow'[f] = [st |-> "pending", svc |-> s, lapsed |-> FALSE, said |-> FALSE]
  <2>1. f \notin Superseded(s)
    BY <1>1 DEF Superseded
  <2> QED BY <2>1 DEF BeginConnect
<1>3. /\ \A g \in Superseded(s) : connFlow'[g] = Gone(g)
      /\ \A g \in Flows \ (Superseded(s) \cup {f}) : connFlow'[g] = connFlow[g]
  <2>1. f \notin Superseded(s) /\ Superseded(s) \subseteq Flows
    BY <1>1 DEF Superseded
  <2> QED BY <2>1 DEF BeginConnect, Gone
<1>4. \A g \in Superseded(s) : /\ g \in Flows /\ connFlow[g].st = "pending"
                                /\ Gone(g) \in FlowRow /\ Gone(g).st = "gone"
                                /\ Gone(g).svc = connFlow[g].svc /\ Gone(g).said = connFlow[g].said
  BY <1>0 DEF Superseded, Gone, FlowRow
<1>5. connFlow' \in [Flows -> FlowRow]
  <2>1. \A g \in Flows : connFlow'[g] \in FlowRow
    <3>1. connFlow'[f] \in FlowRow
      BY <1>2 DEF FlowRow
    <3> QED BY <1>0, <1>3, <1>4, <3>1
  <2>2. connFlow' = [g \in Flows |-> connFlow'[g]]
    BY DEF BeginConnect
  <2> QED BY <2>1, <2>2
<1>6. PICK pc \in {"wait", "none"} : connCli' = [connCli EXCEPT ![f].pc = pc]
  BY DEF BeginConnect
<1>7. /\ connCli' \in [Flows -> CliRow] /\ connCli'[f].out = connCli[f].out
      /\ \A g \in Flows \ {f} : connCli'[g] = connCli[g]
  BY <1>0, <1>6 DEF CliRow
<1>8. FlowMoves
  BY <1>1, <1>3, <1>4 DEF FlowMoves
<1>9. \A g \in Flows : Unused(g) => Unused(g)'
  BY <1>1, <1>8, SameCredentials
<1>10. \A g \in Flows : FlowGood(g)'
  <2>1. FlowGood(f)'
    <3>1. connCli[f].out = None /\ Unused(f)
      BY <1>0, <1>1 DEF FlowsGood, FlowGood
    <3>2. connCli'[f].out # "denied"
      BY <1>7, <3>1, GenAssumption
    <3> QED BY <1>2, <1>9, <3>1, <3>2 DEF FlowGood
  <2>2. ASSUME NEW g \in Flows \ {f} PROVE FlowGood(g)'
    <3>1. FlowGood(g)
      BY <1>0 DEF FlowsGood
    <3>2. CASE g \in Superseded(s)
      BY <1>3, <1>4, <1>7, <3>1, <3>2 DEF FlowGood
    <3>3. CASE g \notin Superseded(s)
      BY <1>3, <1>7, <1>9, <3>1, <3>3 DEF FlowGood
    <3> QED BY <3>2, <3>3
  <2> QED BY <2>1, <2>2
<1>11. OnePending'
  <2>1. \A g \in Flows \ {f} : connFlow'[g].st = "pending" =>
           /\ connFlow[g].st = "pending" /\ connFlow'[g].svc = connFlow[g].svc
           /\ connFlow'[g].svc # s
    BY <1>3, <1>4 DEF Superseded
  <2>2. connFlow'[f].svc = s
    BY <1>2
  <2> QED BY <1>0, <2>1, <2>2 DEF OnePending, FlowsGood
<1>12. FlowsGood'
  BY <1>10, <1>11 DEF FlowsGood
<1> QED BY <1>1, <1>5, <1>7, <1>8, <1>12, CbsSame, FlowKeeps

-----------------------------------------------------------------------------
(* Steps that move credentials.                                            *)

\* The flows are as they were.
Quiet == UNCHANGED <<connFlow, connCli>>

LEMMA QuietFlows ==
    ASSUME ConnInv, Quiet, \A f \in Flows : connFlow[f].st # "gone" /\ Unused(f) => Unused(f)'
    PROVE  connFlow' \in [Flows -> FlowRow] /\ connCli' \in [Flows -> CliRow] /\ FlowsGood'
<1>1. connFlow \in [Flows -> FlowRow] /\ connCli \in [Flows -> CliRow] /\ FlowsGood
  BY InvParts
<1>2. \A f \in Flows : FlowGood(f)'
  BY <1>1 DEF Quiet, FlowsGood, FlowGood
<1>3. OnePending'
  BY <1>1 DEF Quiet, FlowsGood, OnePending
<1> QED BY <1>1, <1>2, <1>3 DEF Quiet, FlowsGood

LEMMA QuietCalls ==
    ASSUME ConnInv, Quiet, UNCHANGED connCb, \A f \in Flows : Unused(f) => Unused(f)',
           connRow' \in [Services -> Credential \cup {None}],
           connCall' \in [Calls -> CallRow],
           connFlight' \in [Services -> Calls \cup {None}],
           connRefresh' \in [Flows -> 0..MaxGen],
           connExpired' \subseteq Credential, connLost' \subseteq Flows, RowsGood', CallsGood'
    PROVE  ConnInv'
<1>1. connFlow' \in [Flows -> FlowRow] /\ connCli' \in [Flows -> CliRow] /\ FlowsGood'
  BY QuietFlows
<1>2. connCb \in [Callbacks -> CbRow] /\ CbsGood
  BY InvParts
<1>3. \A c \in Callbacks : CbGood(c)'
  BY <1>2 DEF Quiet, CbsGood, CbGood, Redeems
<1>4. OneRedeemer'
  BY <1>2 DEF CbsGood, OneRedeemer, Redeems
<1>5. connCb' \in [Callbacks -> CbRow] /\ CbsGood'
  BY <1>2, <1>3, <1>4 DEF CbsGood
<1> QED BY <1>1, <1>5, InvMakeNext

LEMMA CallbackConnectsKeeps ==
    ASSUME ConnInv, NEW c \in Callbacks, CallbackConnects(c)
    PROVE  ConnInv'
<1>0. CbGood(c) /\ OneRedeemer /\ connCb[c].pc = "minted" /\ Redeems(c)
  BY InvParts DEF CbsGood, CallbackConnects, Redeems
<1>2. PICK f \in Flows : f = connCb[c].flow /\ connFlow[f].st = "gone" /\ Unused(f)
  BY <1>0 DEF CbGood
<1>3. PICK s \in Services : s = connFlow[f].svc
  BY <1>2, InvParts DEF FlowsGood, FlowGood
<1> DEFINE new == [flow |-> f, gen |-> 0]
<1>1. /\ connRow' = [connRow EXCEPT ![s] = new] /\ connCb' = [connCb EXCEPT ![c] = Handled]
      /\ UNCHANGED <<connFlow, connCli, connCall, connFlight, connRefresh, connExpired, connLost>>
  BY <1>2, <1>3 DEF CallbackConnects, OnlyCallback
<1>4. new \in Credential /\ new.flow = f /\ new.gen = 0
  BY GenAssumption DEF Credential
<1> HIDE DEF new
<1>5. /\ connRow'[s] = new /\ \A t \in Services \ {s} : connRow'[t] = connRow[t]
      /\ connRow' \in [Services -> Credential \cup {None}]
  BY <1>1, <1>3, <1>4, InvParts
<1>6. \A g \in Flows \ {f} : Unused(g) => Unused(g)'
  BY <1>1, <1>4, <1>5 DEF Unused
<1>7. connFlow' \in [Flows -> FlowRow] /\ connCli' \in [Flows -> CliRow] /\ FlowsGood'
  BY <1>1, <1>2, <1>6, QuietFlows DEF Quiet
<1>8. connCb' \in [Callbacks -> CbRow] /\ CbsGood'
  <2>0. connCb \in [Callbacks -> CbRow] /\ CbsGood
    BY InvParts
  <2>1. connCb'[c] = Handled /\ \A d \in Callbacks \ {c} : connCb'[d] = connCb[d]
    BY <1>1, <2>0
  <2>2. connCb' \in [Callbacks -> CbRow]
    BY <1>1, <2>0 DEF CbRow, Handled
  <2>3. CbGood(c)' /\ ~Redeems(c)'
    BY <2>1 DEF CbGood, Redeems, Handled
  <2>4. ASSUME NEW d \in Callbacks \ {c} PROVE CbGood(d)' /\ (Redeems(d)' <=> Redeems(d))
    <3>1. Redeems(d) => connCb[d].flow # f
      BY <1>0, <1>2 DEF OneRedeemer
    <3>2. CbGood(d) /\ connCb'[d] = connCb[d]
      BY <2>0, <2>1 DEF CbsGood
    <3> QED BY <1>1, <1>6, <3>1, <3>2 DEF CbGood, Redeems
  <2> QED BY <1>0, <2>1, <2>2, <2>3, <2>4 DEF CbsGood, OneRedeemer
<1>9. RowsGood'
  <2>1. RowGood(s)' /\ TokenGood(s)'
    BY <1>1, <1>2, <1>3, <1>4, <1>5 DEF RowGood, TokenGood, Unused
  <2>2. \A t \in Services \ {s} : RowGood(t)' /\ TokenGood(t)'
    BY <1>1, <1>5, InvParts DEF RowsGood, RowGood, TokenGood
  <2> QED BY <2>1, <2>2 DEF RowsGood
<1>10. CallsGood'
  BY <1>1, InvParts DEF CallsGood, CallGood, FlightGood
<1> QED BY <1>1, <1>5, <1>7, <1>8, <1>9, <1>10, InvParts, InvMakeNext

LEMMA DisconnectServiceKeeps ==
    ASSUME ConnInv, NEW s \in Services, DisconnectService(s)
    PROVE  ConnInv'
<1>1. /\ connRow' = [connRow EXCEPT ![s] = None]
      /\ UNCHANGED <<connFlow, connCb, connCli, connCall, connFlight, connRefresh, connExpired, connLost>>
  BY DEF DisconnectService
<1>2. /\ connRow'[s] = None /\ \A t \in Services \ {s} : connRow'[t] = connRow[t]
      /\ connRow' \in [Services -> Credential \cup {None}]
  BY <1>1, InvParts
<1>3. \A f \in Flows : Unused(f) => Unused(f)'
  BY <1>1, <1>2 DEF Unused
<1>4. RowsGood'
  BY <1>1, <1>2, InvParts DEF RowsGood, RowGood, TokenGood
<1>5. CallsGood'
  BY <1>1, InvParts DEF CallsGood, CallGood, FlightGood
<1> QED BY <1>1, <1>2, <1>3, <1>4, <1>5, InvParts, QuietCalls DEF Quiet

LEMMA TokenExpiresKeeps ==
    ASSUME ConnInv, NEW s \in Services, TokenExpires(s)
    PROVE  ConnInv'
<1>1. UNCHANGED <<connRow, connFlow, connCb, connCli, connCall, connFlight, connRefresh, connLost>>
  BY DEF TokenExpires
<1>2. connExpired' \subseteq Credential
  BY StoredIsGone, InvParts DEF TokenExpires
<1>3. \A f \in Flows : Unused(f) => Unused(f)'
  BY <1>1 DEF Unused
<1>4. RowsGood'
  BY <1>1, InvParts DEF RowsGood, RowGood, TokenGood
<1>5. CallsGood'
  BY <1>1, InvParts DEF CallsGood, CallGood, FlightGood
<1> QED BY <1>1, <1>2, <1>3, <1>4, <1>5, InvParts, QuietCalls DEF Quiet

LEMMA CallReadsKeeps ==
    ASSUME ConnInv, NEW k \in Calls, NEW s \in Services, CallReads(k, s)
    PROVE  ConnInv'
<1> DEFINE x == [pc |-> "decrypt", svc |-> s, cred |-> connRow[s]]
<1>0. /\ connCall \in [Calls -> CallRow] /\ connFlight \in [Services -> Calls \cup {None}]
      /\ RowsGood /\ CallsGood
  BY InvParts
<1>1. connRow[s] # None /\ connCall[k].pc = "idle" /\ connRow[s] \in Credential
  BY StoredIsGone DEF CallReads
<1>2. /\ connCall' = [connCall EXCEPT ![k] = x]
      /\ UNCHANGED <<connRow, connFlow, connCb, connCli, connFlight, connRefresh, connExpired, connLost>>
  BY DEF CallReads, OnlyCall
<1>3. x \in CallRow /\ x.pc = "decrypt" /\ x.svc = s /\ x.cred = connRow[s]
  BY <1>1 DEF CallRow
<1> HIDE DEF x
<1>4. connCall'[k] = x /\ \A j \in Calls \ {k} : connCall'[j] = connCall[j]
  BY <1>0, <1>2
<1>5. connCall' \in [Calls -> CallRow]
  BY <1>0, <1>2, <1>3
<1>6. \A t \in Services : connFlight[t] # k
  BY <1>0, <1>1, GenAssumption DEF CallsGood, FlightGood
<1>7. \A t \in Services : connFlight[t] # None => connCall'[connFlight[t]] = connCall[connFlight[t]]
  BY <1>0, <1>4, <1>6
<1>8. \A f \in Flows : Unused(f) => Unused(f)'
  BY <1>1, <1>2, <1>3, <1>4 DEF Unused
<1>9. RowsGood'
  BY <1>0, <1>2, <1>7 DEF RowsGood, RowGood, TokenGood
<1>10. \A t \in Services : FlightGood(t)'
  BY <1>0, <1>2, <1>7 DEF CallsGood, FlightGood
<1>11. CallGood(k)'
  BY <1>0, <1>1, <1>2, <1>3, <1>4 DEF CallGood, RowsGood, RowGood
<1>12. \A j \in Calls \ {k} : CallGood(j)'
  BY <1>0, <1>2, <1>4 DEF CallGood, CallsGood
<1>13. CallsGood'
  BY <1>10, <1>11, <1>12 DEF CallsGood
<1> QED BY <1>2, <1>5, <1>8, <1>9, <1>13, InvParts, QuietCalls DEF Quiet

LEMMA CallDecidesKeeps ==
    ASSUME ConnInv, NEW k \in Calls, CallDecides(k)
    PROVE  ConnInv'
<1>0. /\ connCall \in [Calls -> CallRow] /\ connFlight \in [Services -> Calls \cup {None}]
      /\ RowsGood /\ CallsGood
  BY InvParts
<1>1. connCall[k].pc = "decrypt" /\ CallGood(k)
  BY <1>0 DEF CallDecides, CallsGood
<1>2. PICK s \in Services : s = connCall[k].svc
  BY <1>1 DEF CallGood
<1>3. UNCHANGED <<connRow, connFlow, connCb, connCli, connRefresh, connExpired, connLost>>
  BY DEF CallDecides, OnlyCall
<1>4. \A t \in Services : connFlight[t] # k
  BY <1>0, <1>1, GenAssumption DEF CallsGood, FlightGood
<1>5. ASSUME NEW x, connCall' = [connCall EXCEPT ![k] = x], UNCHANGED connFlight,
             x = NoCall \/ x = [connCall[k] EXCEPT !.pc = "joined"]
      PROVE  ConnInv'
  <2>1. /\ x \in CallRow
        /\ x.pc = "idle" \/ (x.pc = "joined" /\ x.svc = connCall[k].svc /\ x.cred = connCall[k].cred)
    BY <1>0, <1>5 DEF CallRow, NoCall
  <2>2. connCall'[k] = x /\ \A j \in Calls \ {k} : connCall'[j] = connCall[j]
    BY <1>0, <1>5
  <2>3. connCall' \in [Calls -> CallRow]
    BY <1>0, <1>5, <2>1
  <2>4. \A t \in Services : connFlight[t] # None => connCall'[connFlight[t]] = connCall[connFlight[t]]
    BY <1>0, <1>4, <2>2
  <2>5. \A f \in Flows : Unused(f) => Unused(f)'
    BY <1>1, <1>3, <2>1, <2>2 DEF Unused
  <2>6. RowsGood'
    BY <1>0, <1>3, <1>5, <2>4 DEF RowsGood, RowGood, TokenGood
  <2>7. \A t \in Services : FlightGood(t)'
    BY <1>0, <1>5, <2>4 DEF CallsGood, FlightGood
  <2>8. CallGood(k)'
    BY <1>1, <1>3, <2>1, <2>2 DEF CallGood
  <2>9. \A j \in Calls \ {k} : CallGood(j)'
    BY <1>0, <1>3, <1>5, <2>2 DEF CallGood, CallsGood
  <2>10. CallsGood'
    BY <2>7, <2>8, <2>9 DEF CallsGood
  <2> QED BY <1>3, <1>5, <2>3, <2>5, <2>6, <2>10, InvParts, QuietCalls DEF Quiet
<1>6. ASSUME connFlight[s] = None, connCall' = [connCall EXCEPT ![k].pc = "network"],
             connFlight' = [connFlight EXCEPT ![s] = k]
      PROVE  ConnInv'
  <2> DEFINE x == [connCall[k] EXCEPT !.pc = "network"]
  <2>1. x \in CallRow /\ x.pc = "network" /\ x.svc = s /\ x.cred = connCall[k].cred
    BY <1>0, <1>2 DEF CallRow
  <2>2. connCall'[k] = x /\ \A j \in Calls \ {k} : connCall'[j] = connCall[j]
    BY <1>0, <1>6
  <2>3. connCall' \in [Calls -> CallRow]
    BY <1>0, <1>6, <2>1
  <2> HIDE DEF x
  <2>4. /\ connFlight'[s] = k /\ \A t \in Services \ {s} : connFlight'[t] = connFlight[t]
        /\ connFlight' \in [Services -> Calls \cup {None}]
    BY <1>0, <1>6
  <2>5. \A t \in Services : connFlight[t] # None => connCall'[connFlight[t]] = connCall[connFlight[t]]
    BY <1>0, <1>4, <2>2
  <2>6. \A f \in Flows : Unused(f) => Unused(f)'
    BY <1>1, <1>3, <2>1, <2>2 DEF Unused
  <2>7. RowsGood'
    <3>1. RowGood(s)' /\ TokenGood(s)'
      BY <1>0, <1>3, <1>6 DEF RowsGood, RowGood, TokenGood
    <3>2. \A t \in Services \ {s} : RowGood(t)' /\ TokenGood(t)'
      BY <1>0, <1>3, <2>4, <2>5 DEF RowsGood, RowGood, TokenGood
    <3> QED BY <3>1, <3>2 DEF RowsGood
  <2>8. \A t \in Services : FlightGood(t)'
    BY <1>0, <2>1, <2>2, <2>4, <2>5 DEF CallsGood, FlightGood
  <2>9. CallGood(k)'
    BY <1>1, <1>2, <1>3, <2>1, <2>2, <2>4 DEF CallGood
  <2>10. ASSUME NEW j \in Calls \ {k} PROVE CallGood(j)'
    <3>1. CallGood(j) /\ connCall'[j] = connCall[j]
      BY <1>0, <2>2 DEF CallsGood
    <3>2. connCall[j].pc \in {"network", "encrypt"} => connCall[j].svc # s
      BY <1>6, <3>1, GenAssumption DEF CallGood
    <3> QED BY <1>3, <2>4, <3>1, <3>2 DEF CallGood
  <2>11. CallsGood'
    BY <2>8, <2>9, <2>10 DEF CallsGood
  <2> QED BY <1>3, <2>3, <2>4, <2>6, <2>7, <2>11, InvParts, QuietCalls DEF Quiet
<1> QED BY <1>2, <1>5, <1>6 DEF CallDecides, Moves

\* A refresh settles: its service has none in flight and nobody waits.
LEMMA SettleCalls ==
    ASSUME ConnInv, Quiet, NEW k \in Calls, connCall[k].pc \in {"network", "encrypt"}, Settle(k),
           NEW s \in Services, s = connCall[k].svc,
           \A j \in Calls : connCall[j].pc = "encrypt" /\ connCall[j].svc # s =>
              connRefresh'[connCall[j].cred.flow] = connRefresh[connCall[j].cred.flow]
    PROVE  /\ connCall' \in [Calls -> CallRow]
           /\ connFlight' \in [Services -> Calls \cup {None}]
           /\ CallsGood'
           /\ connFlight'[s] = None
           /\ \A j \in Calls : connCall'[j].pc # "idle" => connCall'[j] = connCall[j]
           /\ \A t \in Services \ {s} :
                /\ connFlight'[t] = connFlight[t]
                /\ connFlight[t] # None => connCall'[connFlight[t]] = connCall[connFlight[t]]
<1>0. /\ connCall \in [Calls -> CallRow] /\ connFlight \in [Services -> Calls \cup {None}]
      /\ CallsGood
  BY InvParts
<1>1. /\ connCall' = [j \in Calls |-> IF j \in Waiters(k) THEN NoCall ELSE connCall[j]]
      /\ connFlight' = [connFlight EXCEPT ![s] = None]
  BY DEF Settle
<1>2. NoCall \in CallRow /\ NoCall.pc = "idle"
  BY DEF NoCall, CallRow
<1>3. connCall' \in [Calls -> CallRow] /\ connFlight' \in [Services -> Calls \cup {None}]
  BY <1>0, <1>1, <1>2
<1>4. \A j \in Calls : connCall'[j] = connCall[j] \/ connCall'[j] = NoCall
  BY <1>1
<1>5. /\ connFlight'[s] = None /\ \A t \in Services \ {s} : connFlight'[t] = connFlight[t]
  BY <1>0, <1>1
<1>6. ASSUME NEW t \in Services \ {s}, connFlight[t] # None
      PROVE  connCall'[connFlight[t]] = connCall[connFlight[t]]
  <2>1. FlightGood(t) /\ connFlight[t] \in Calls
    BY <1>0, <1>6 DEF CallsGood
  <2>2. connFlight[t] \notin Waiters(k)
    BY <1>6, <2>1 DEF Waiters, FlightGood
  <2> QED BY <1>1, <2>1, <2>2
<1>7. ASSUME NEW j \in Calls PROVE CallGood(j)'
  <2>1. CallGood(j) /\ CallGood(k)
    BY <1>0 DEF CallsGood
  <2>2. CASE connCall'[j] = NoCall
    BY <1>2, <2>2 DEF CallGood
  <2>3. CASE connCall'[j] = connCall[j] /\ j # k
    <3>1. connCall[j].pc \in {"network", "encrypt"} => connCall[j].svc # s
      BY <2>1, <2>3 DEF CallGood
    <3>2. connCall[j].pc # "idle" => connCall[j].svc \in Services
      BY <2>1 DEF CallGood
    <3> QED BY <1>5, <2>1, <2>3, <3>1, <3>2 DEF CallGood, Quiet
  <2>4. j = k => connCall'[j] = NoCall
    BY <1>1 DEF Waiters
  <2> QED BY <1>4, <2>2, <2>3, <2>4
<1>8. \A t \in Services : FlightGood(t)'
  BY <1>0, <1>5, <1>6 DEF CallsGood, FlightGood
<1>9. CallsGood'
  BY <1>7, <1>8 DEF CallsGood
<1> QED BY <1>2, <1>3, <1>4, <1>5, <1>6, <1>9

\* The provider replaces the refresh token of the credential the call holds;
\* a credential of the same flow is of the same service.
Replaced(k) ==
    [connRefresh EXCEPT ![connCall[k].cred.flow] =
        IF ProviderOf[connCall[k].svc] \in Rotating THEN connCall[k].cred.gen + 1 ELSE @]

LEMMA ReplacedTokens ==
    ASSUME ConnInv, NEW k \in Calls, connCall[k].pc = "network", connCall[k].cred.gen < MaxGen,
           connRefresh' = Replaced(k)
    PROVE  /\ connRefresh' \in [Flows -> 0..MaxGen]
           /\ ProviderOf[connCall[k].svc] \in Rotating =>
                connRefresh'[connCall[k].cred.flow] = connCall[k].cred.gen + 1
           /\ \A f \in Flows : connFlow[f].svc # connCall[k].svc \/ f # connCall[k].cred.flow =>
                connRefresh'[f] = connRefresh[f]
<1>0. connRefresh \in [Flows -> 0..MaxGen] /\ CallGood(k)
  BY InvParts DEF CallsGood
<1>1. connCall[k].cred \in Credential /\ connFlow[connCall[k].cred.flow].svc = connCall[k].svc
  BY <1>0 DEF CallGood
<1>2. connCall[k].cred.flow \in Flows /\ connCall[k].cred.gen \in 0..MaxGen
  BY <1>1 DEF Credential
<1>3. connCall[k].cred.gen + 1 \in 0..MaxGen
  BY <1>2, GenAssumption
<1> QED BY <1>0, <1>1, <1>2, <1>3 DEF Replaced

LEMMA ReplacedUnused ==
    ASSUME ConnInv, NEW k \in Calls, connCall[k].pc = "network", connCall[k].cred.gen < MaxGen,
           connRefresh' = Replaced(k) \/ connRefresh' = connRefresh, UNCHANGED connRow,
           \A j \in Calls : connCall'[j].pc # "idle" =>
              connCall'[j].cred = connCall[j].cred /\ connCall[j].pc # "idle"
    PROVE  \A f \in Flows : Unused(f) => Unused(f)'
<1> SUFFICES ASSUME NEW f \in Flows, Unused(f) PROVE Unused(f)'
  OBVIOUS
<1>1. connCall[k].cred.flow # f
  BY DEF Unused
<1>2. connRefresh'[f] = connRefresh[f]
  BY <1>1, ReplacedTokens
<1> QED BY <1>2 DEF Unused

LEMMA ProviderRefreshesKeeps ==
    ASSUME ConnInv, NEW k \in Calls, ProviderRefreshes(k)
    PROVE  ConnInv'
<1>0. /\ connCall \in [Calls -> CallRow] /\ connFlight \in [Services -> Calls \cup {None}]
      /\ RowsGood /\ CallsGood
  BY InvParts
<1>1. connCall[k].pc = "network" /\ CallGood(k)
  BY <1>0 DEF ProviderRefreshes, CallsGood
<1>2. PICK s \in Services : s = connCall[k].svc
  BY <1>1 DEF CallGood
<1>3. PICK cred \in Credential : cred = connCall[k].cred
  BY <1>1 DEF CallGood
<1>4. cred.flow \in Flows /\ cred.gen \in 0..MaxGen
  BY <1>3 DEF Credential
<1>5. UNCHANGED <<connRow, connFlow, connCb, connExpired, connCli>>
  BY DEF ProviderRefreshes
<1>6. Quiet
  BY <1>5 DEF Quiet
<1>7. connFlight[s] = k /\ connFlow[cred.flow].svc = s
  BY <1>1, <1>2, <1>3 DEF CallGood
<1>8. ASSUME NEW t \in Services, connRow[t] # None
      PROVE  connRow[t].flow \in Flows /\ connFlow[connRow[t].flow].svc = t
  BY <1>0, <1>8, StoredIsGone DEF RowsGood, RowGood
<1>9. TokenGood(s) /\ (connRow[s] # None /\ s \in Services /\ ProviderOf[s] \in Rotating =>
          \/ connRow[s].gen = connRefresh[connRow[s].flow]
          \/ connRow[s].flow \in connLost)
  BY <1>0, <1>1, <1>7 DEF RowsGood, TokenGood
<1>10. RowsGood => \A t \in Services : RowGood(t)'
  BY <1>5 DEF RowsGood, RowGood
<1>11. CASE Settle(k) /\ UNCHANGED <<connRefresh, connLost>>
  <2>1. /\ connCall' \in [Calls -> CallRow]
        /\ connFlight' \in [Services -> Calls \cup {None}]
        /\ CallsGood'
        /\ connFlight'[s] = None
        /\ \A j \in Calls : connCall'[j].pc # "idle" => connCall'[j] = connCall[j]
        /\ \A t \in Services \ {s} :
             /\ connFlight'[t] = connFlight[t]
             /\ connFlight[t] # None => connCall'[connFlight[t]] = connCall[connFlight[t]]
    BY <1>1, <1>2, <1>6, <1>11, SettleCalls
  <2>2. \A f \in Flows : Unused(f) => Unused(f)'
    BY <1>5, <1>11, <2>1 DEF Unused
  <2>3. TokenGood(s)'
    BY <1>5, <1>9, <1>11 DEF TokenGood
  <2>4. \A t \in Services \ {s} : TokenGood(t)'
    BY <1>0, <1>5, <1>11, <2>1 DEF RowsGood, TokenGood
  <2>5. RowsGood'
    BY <1>0, <1>10, <2>3, <2>4 DEF RowsGood
  <2> QED BY <1>5, <1>6, <1>11, <2>1, <2>2, <2>5, InvParts, QuietCalls
<1>12. ASSUME Takes(s, cred), cred.gen < MaxGen, connRefresh' = Replaced(k)
       PROVE  /\ connRefresh' \in [Flows -> 0..MaxGen]
              /\ ProviderOf[s] \in Rotating => connRefresh'[cred.flow] = cred.gen + 1
              /\ \A f \in Flows : connFlow[f].svc # s \/ f # cred.flow => connRefresh'[f] = connRefresh[f]
  BY <1>1, <1>2, <1>3, <1>12, ReplacedTokens
<1>13. ASSUME Takes(s, cred), cred.gen < MaxGen, connRefresh' = Replaced(k), UNCHANGED <<connFlight, connLost>>,
              Moves(k, "encrypt")
       PROVE  ConnInv'
  <2>1. /\ connRefresh' \in [Flows -> 0..MaxGen]
        /\ ProviderOf[s] \in Rotating => connRefresh'[cred.flow] = cred.gen + 1
        /\ \A f \in Flows : connFlow[f].svc # s \/ f # cred.flow => connRefresh'[f] = connRefresh[f]
    BY <1>12, <1>13
  <2>2. /\ connCall' \in [Calls -> CallRow]
        /\ connCall'[k].pc = "encrypt" /\ connCall'[k].svc = s /\ connCall'[k].cred = cred
        /\ \A j \in Calls \ {k} : connCall'[j] = connCall[j]
    BY <1>0, <1>2, <1>3, <1>13 DEF Moves, CallRow
  <2>3. \A f \in Flows : Unused(f) => Unused(f)'
    BY <1>1, <1>3, <1>5, <1>13, <2>2, ReplacedUnused
  <2>4. TokenGood(s)'
    <3> SUFFICES ASSUME connRow[s] # None, ProviderOf[s] \in Rotating, connRow[s].flow \notin connLost
                 PROVE  \/ connRow[s].gen = connRefresh'[connRow[s].flow]
                        \/ connRow[s] = cred
      BY <1>5, <1>7, <1>13, <2>2, GenAssumption DEF TokenGood
    <3>1. connRow[s].gen = connRefresh[connRow[s].flow]
      BY <1>9
    <3>2. CASE connRow[s].flow = cred.flow
      <4>1. connRow[s].gen = cred.gen
        BY <1>13, <3>1, <3>2 DEF Takes
      <4>2. connRow[s] \in Credential
        BY StoredIsGone
      <4> QED BY <3>2, <4>1, <4>2 DEF Credential
    <3>3. CASE connRow[s].flow # cred.flow
      BY <1>8, <2>1, <3>1, <3>3
    <3> QED BY <3>2, <3>3
  <2>5. ASSUME NEW t \in Services \ {s} PROVE TokenGood(t)'
    <3>1. TokenGood(t) /\ FlightGood(t)
      BY <1>0 DEF RowsGood, CallsGood
    <3>2. connRow[t] # None => connRefresh'[connRow[t].flow] = connRefresh[connRow[t].flow]
      BY <1>8, <2>1
    <3>3. connFlight[t] # None => connFlight[t] \in Calls \ {k}
      BY <1>0, <1>2, <3>1 DEF FlightGood
    <3> QED BY <1>5, <1>13, <2>2, <3>1, <3>2, <3>3 DEF TokenGood
  <2>6. RowsGood'
    BY <1>0, <1>10, <2>4, <2>5 DEF RowsGood
  <2>7. \A t \in Services : FlightGood(t)'
    BY <1>0, <1>2, <1>13, <2>2 DEF CallsGood, FlightGood
  <2>8. CallGood(k)'
    BY <1>1, <1>2, <1>3, <1>5, <1>13, <2>1, <2>2 DEF CallGood
  <2>9. ASSUME NEW j \in Calls \ {k} PROVE CallGood(j)'
    <3>1. CallGood(j) /\ connCall'[j] = connCall[j]
      BY <1>0, <2>2 DEF CallsGood
    <3>2. connCall[j].pc = "encrypt" => connCall[j].svc # s
      BY <1>7, <3>1 DEF CallGood
    <3>3. connCall[j].pc = "encrypt" => connCall[j].cred.flow \in Flows
      BY ReadIsGone
    <3>4. connCall[j].pc = "encrypt" =>
             connRefresh'[connCall[j].cred.flow] = connRefresh[connCall[j].cred.flow]
      BY <2>1, <3>1, <3>2, <3>3 DEF CallGood
    <3> QED BY <1>5, <1>13, <3>1, <3>4 DEF CallGood
  <2>10. CallsGood'
    BY <2>7, <2>8, <2>9 DEF CallsGood
  <2> QED BY <1>5, <1>6, <1>13, <2>1, <2>2, <2>3, <2>6, <2>10, InvParts, QuietCalls
<1>14. ASSUME Takes(s, cred), cred.gen < MaxGen, connRefresh' = Replaced(k),
              connLost' = connLost \cup {cred.flow}, Settle(k)
       PROVE  ConnInv'
  <2>1. /\ connRefresh' \in [Flows -> 0..MaxGen]
        /\ \A f \in Flows : connFlow[f].svc # s \/ f # cred.flow => connRefresh'[f] = connRefresh[f]
    BY <1>12, <1>14
  <2>2. \A j \in Calls : connCall[j].pc = "encrypt" /\ connCall[j].svc # s =>
              connRefresh'[connCall[j].cred.flow] = connRefresh[connCall[j].cred.flow]
    BY <1>0, <2>1, ReadIsGone DEF CallsGood, CallGood
  <2>3. /\ connCall' \in [Calls -> CallRow]
        /\ connFlight' \in [Services -> Calls \cup {None}]
        /\ CallsGood'
        /\ connFlight'[s] = None
        /\ \A j \in Calls : connCall'[j].pc # "idle" => connCall'[j] = connCall[j]
        /\ \A t \in Services \ {s} :
             /\ connFlight'[t] = connFlight[t]
             /\ connFlight[t] # None => connCall'[connFlight[t]] = connCall[connFlight[t]]
    BY <1>1, <1>2, <1>6, <1>14, <2>2, SettleCalls
  <2>4. \A f \in Flows : Unused(f) => Unused(f)'
    BY <1>1, <1>3, <1>5, <1>14, <2>3, ReplacedUnused
  <2>5. TokenGood(s)'
    BY <1>5, <1>8, <1>9, <1>14, <2>1 DEF TokenGood
  <2>6. ASSUME NEW t \in Services \ {s} PROVE TokenGood(t)'
    <3>1. TokenGood(t)
      BY <1>0 DEF RowsGood
    <3>2. connRow[t] # None => connRefresh'[connRow[t].flow] = connRefresh[connRow[t].flow]
      BY <1>8, <2>1
    <3> QED BY <1>5, <1>14, <2>3, <3>1, <3>2 DEF TokenGood
  <2>7. RowsGood'
    BY <1>0, <1>10, <2>5, <2>6 DEF RowsGood
  <2>8. connLost' \subseteq Flows
    BY <1>4, <1>14, InvParts
  <2> QED BY <1>5, <1>6, <2>1, <2>3, <2>4, <2>7, <2>8, InvParts, QuietCalls
<1> QED BY <1>2, <1>3, <1>11, <1>13, <1>14 DEF ProviderRefreshes, Replaced

LEMMA RefreshLandsKeeps ==
    ASSUME ConnInv, NEW k \in Calls, RefreshLands(k)
    PROVE  ConnInv'
<1>0. /\ connRow \in [Services -> Credential \cup {None}]
      /\ connCall \in [Calls -> CallRow] /\ connFlight \in [Services -> Calls \cup {None}]
      /\ RowsGood /\ CallsGood
  BY InvParts
<1>1. connCall[k].pc = "encrypt" /\ CallGood(k)
  BY <1>0 DEF RefreshLands, CallsGood
<1>2. PICK s \in Services : s = connCall[k].svc
  BY <1>1 DEF CallGood
<1>3. PICK cred \in Credential : cred = connCall[k].cred
  BY <1>1 DEF CallGood
<1>4. /\ cred.flow \in Flows /\ cred.gen \in 0..MaxGen /\ cred.gen < MaxGen
      /\ ProviderOf[s] \in Rotating => connRefresh[cred.flow] = cred.gen + 1
  BY <1>1, <1>2, <1>3 DEF Credential, CallGood
<1>5. UNCHANGED <<connFlow, connCb, connRefresh, connExpired, connLost, connCli>> /\ Settle(k)
  BY DEF RefreshLands
<1>6. Quiet
  BY <1>5 DEF Quiet
<1>7. connFlight[s] = k /\ connFlow[cred.flow].svc = s
  BY <1>1, <1>2, <1>3 DEF CallGood
<1>8. /\ connCall' \in [Calls -> CallRow]
      /\ connFlight' \in [Services -> Calls \cup {None}]
      /\ CallsGood'
      /\ connFlight'[s] = None
      /\ \A j \in Calls : connCall'[j].pc # "idle" => connCall'[j] = connCall[j]
      /\ \A t \in Services \ {s} :
           /\ connFlight'[t] = connFlight[t]
           /\ connFlight[t] # None => connCall'[connFlight[t]] = connCall[connFlight[t]]
  BY <1>1, <1>2, <1>5, <1>6, SettleCalls
<1>9. /\ Refreshed(cred) \in Credential /\ Refreshed(cred).flow = cred.flow
      /\ Refreshed(cred).gen = cred.gen + 1
  BY <1>3, <1>4, GenAssumption DEF Refreshed, Credential
<1>10. CASE Lands(s, cred)
  <2>1. /\ connRow' = [connRow EXCEPT ![s] = Refreshed(cred)] /\ connRow[s] = cred
        /\ connRow[s] # None
    BY <1>1, <1>2, <1>3, <1>10 DEF RefreshLands, Lands, CallGood
  <2>2. /\ connRow'[s] = Refreshed(cred) /\ \A t \in Services \ {s} : connRow'[t] = connRow[t]
        /\ connRow' \in [Services -> Credential \cup {None}]
    BY <1>0, <1>9, <2>1
  <2>3. \A f \in Flows : Unused(f) => Unused(f)'
    BY <1>5, <1>8, <1>9, <2>1, <2>2 DEF Unused
  <2>4. RowGood(s)' /\ TokenGood(s)'
    BY <1>4, <1>5, <1>7, <1>9, <2>2 DEF RowGood, TokenGood
  <2>5. \A t \in Services \ {s} : RowGood(t)' /\ TokenGood(t)'
    BY <1>0, <1>5, <1>8, <2>2 DEF RowsGood, RowGood, TokenGood
  <2>6. RowsGood'
    BY <2>4, <2>5 DEF RowsGood
  <2> QED BY <1>5, <1>6, <1>8, <2>2, <2>3, <2>6, InvParts, QuietCalls
<1>11. CASE ~Lands(s, cred)
  <2>1. UNCHANGED connRow /\ connRow[s] # cred
    BY <1>2, <1>3, <1>11 DEF RefreshLands, Lands
  <2>2. \A f \in Flows : Unused(f) => Unused(f)'
    BY <1>5, <1>8, <2>1 DEF Unused
  <2>3. RowGood(s)' /\ TokenGood(s)'
    BY <1>0, <1>3, <1>5, <1>7, <2>1 DEF RowsGood, RowGood, TokenGood
  <2>4. \A t \in Services \ {s} : RowGood(t)' /\ TokenGood(t)'
    BY <1>0, <1>5, <1>8, <2>1 DEF RowsGood, RowGood, TokenGood
  <2>5. RowsGood'
    BY <2>3, <2>4 DEF RowsGood
  <2> QED BY <1>0, <1>5, <1>6, <1>8, <2>1, <2>2, <2>5, InvParts, QuietCalls
<1> QED BY <1>10, <1>11

-----------------------------------------------------------------------------
LEMMA InvInit == ConnInit => ConnInv
<1> SUFFICES ASSUME ConnInit PROVE ConnInv
  OBVIOUS
<1>1. /\ connRow \in [Services -> Credential \cup {None}]
      /\ connFlow \in [Flows -> FlowRow]
      /\ connCb \in [Callbacks -> CbRow]
      /\ connCall \in [Calls -> CallRow]
      /\ connFlight \in [Services -> Calls \cup {None}]
      /\ connRefresh \in [Flows -> 0..MaxGen]
      /\ connExpired \subseteq Credential /\ connLost \subseteq Flows
      /\ connCli \in [Flows -> CliRow]
  BY GenAssumption DEF ConnInit, FlowRow, CbRow, CallRow, CliRow
<1>2. FlowsGood
  BY GenAssumption DEF ConnInit, FlowsGood, FlowGood, OnePending, Unused
<1>3. CbsGood
  BY DEF ConnInit, CbsGood, CbGood, OneRedeemer, Redeems
<1>4. RowsGood
  BY DEF ConnInit, RowsGood, RowGood, TokenGood
<1>5. CallsGood
  BY DEF ConnInit, CallsGood, CallGood, FlightGood
<1> QED BY <1>1, <1>2, <1>3, <1>4, <1>5, InvMake

LEMMA InvNext == ConnInv /\ [ConnNext]_connVars => ConnInv'
<1> SUFFICES ASSUME ConnInv, [ConnNext]_connVars PROVE ConnInv'
  OBVIOUS
<1>1. CASE ConnFlowNext
  BY <1>1, BeginConnectKeeps, FlowLapsesKeeps, CliPollsKeeps, CliAbandonsKeeps, CallbackLoadsKeeps,
     DenialLoadsKeeps, CallbackConsumesKeeps, ExchangeCodeKeeps, CallbackConnectsKeeps,
     DenialStampsKeeps DEF ConnFlowNext
<1>2. CASE ConnCallNext
  BY <1>2, DisconnectServiceKeeps, TokenExpiresKeeps, CallReadsKeeps, CallDecidesKeeps,
     ProviderRefreshesKeeps, RefreshLandsKeeps DEF ConnCallNext
<1>3. CASE UNCHANGED connVars
  <2>1. Same /\ UNCHANGED <<connCb, connFlow, connCli, connExpired>>
    BY <1>3 DEF connVars, Same
  <2> QED BY <2>1, FlowsStay, CbsSame, FlowKeeps
<1> QED BY <1>1, <1>2, <1>3 DEF ConnNext

LEMMA InvSound == ConnInv => ConnectionsSound
<1> SUFFICES ASSUME ConnInv PROVE ConnectionsSound
  OBVIOUS
<1>1. OneRedemption
  BY DEF ConnInv, FlowsGood, OnePending, CbsGood, OneRedeemer, Redeems, OneRedemption
<1>2. NeverBricked
  BY DEF ConnInv, RowsGood, TokenGood, NeverBricked
<1> QED BY <1>1, <1>2 DEF ConnInv, ConnectionsSound

\* For any services, providers, flows, redirects, calls and refreshes: one flow
\* of a service is pending, one redirect redeems it, and no interleaving of
\* refreshes, reconnects and disconnects leaves a connection of a rotating
\* provider with a spent refresh token, unless the provider's answer was lost.
THEOREM ConnectionsStaySound == ConnSpec => []ConnectionsSound
<1>1. ConnSpec => []ConnInv
  BY InvInit, InvNext, PTL DEF ConnSpec
<1> QED BY <1>1, InvSound, PTL

-----------------------------------------------------------------------------
(* What a step may do to a stored credential and to a denial.              *)

ConsentStep ==
    \A s \in Services : connRow'[s] # connRow[s] =>
         \/ connRow'[s] = None
         \/ connRow[s] # None /\ connRow'[s].flow = connRow[s].flow
         \/ \E c \in Callbacks : connCb[c].pc = "minted" /\ connCb'[c].pc = "done"
                                 /\ connRow'[s].flow = connCb[c].flow

DenialStep ==
    \A f \in Flows :
         /\ connFlow[f].st = "denied" /\ connFlow'[f].st # "denied" =>
              connCli[f].pc = "abandon" \/ \E c \in Callbacks : connCb[c] = [pc |-> "loaded", flow |-> f]
         /\ connCli'[f].out = "denied" => connFlow'[f].said

LEMMA ConsentHolds == ConnInv /\ [ConnNext]_connVars => ConsentStep
<1> SUFFICES ASSUME ConnInv, [ConnNext]_connVars, ~ UNCHANGED connRow PROVE ConsentStep
  BY DEF ConsentStep
<1>0. connRow \in [Services -> Credential \cup {None}] /\ connCb \in [Callbacks -> CbRow] /\ CallsGood
  BY InvParts
<1>1. ASSUME NEW c \in Callbacks, CallbackConnects(c) PROVE ConsentStep
  <2>1. connCb[c].pc = "minted" /\ connCb'[c].pc = "done"
    BY <1>0, <1>1 DEF CallbackConnects, Handled
  <2>2. \A t \in Services : connRow'[t] = connRow[t] \/ connRow'[t].flow = connCb[c].flow
    BY <1>0, <1>1 DEF CallbackConnects
  <2> QED BY <2>1, <2>2 DEF ConsentStep
<1>2. ASSUME NEW s \in Services, DisconnectService(s) PROVE ConsentStep
  BY <1>0, <1>2 DEF DisconnectService, ConsentStep
<1>3. ASSUME NEW k \in Calls, RefreshLands(k) PROVE ConsentStep
  <2>0. connCall[k].svc \in Services /\ connCall[k].cred \in Credential /\ connCall[k].cred # None
    BY <1>0, <1>3 DEF RefreshLands, CallsGood, CallGood
  <2>1. Refreshed(connCall[k].cred).flow = connCall[k].cred.flow
    BY <2>0 DEF Refreshed, Credential
  <2>2. /\ connRow[connCall[k].svc] = connCall[k].cred
        /\ connRow' = [connRow EXCEPT ![connCall[k].svc] = Refreshed(connCall[k].cred)]
    BY <1>3 DEF RefreshLands, Lands
  <2> QED BY <1>0, <2>0, <2>1, <2>2 DEF ConsentStep
<1>4. CASE ConnFlowNext
  BY <1>1, <1>4 DEF ConnFlowNext, BeginConnect, FlowLapses, CliPolls, CliAbandons, CallbackLoads,
     DenialLoads, CallbackConsumes, ExchangeCode, DenialStamps, OnlyFlow
<1>5. CASE ConnCallNext
  BY <1>2, <1>3, <1>5 DEF ConnCallNext, TokenExpires, CallReads, CallDecides, ProviderRefreshes, OnlyCall
<1> QED BY <1>4, <1>5 DEF ConnNext, connVars

LEMMA DenialHolds == ConnInv /\ ConnInv' /\ [ConnNext]_connVars => DenialStep
<1> SUFFICES ASSUME ConnInv, ConnInv', [ConnNext]_connVars, NEW f \in Flows,
                    connFlow[f].st = "denied", connFlow'[f].st # "denied"
             PROVE  connCli[f].pc = "abandon" \/ \E c \in Callbacks : connCb[c] = [pc |-> "loaded", flow |-> f]
  BY DEF DenialStep, ConnInv, FlowsGood, FlowGood
<1>0. connFlow \in [Flows -> FlowRow] /\ connCb \in [Callbacks -> CbRow] /\ CbsGood
  BY InvParts
<1>1. ASSUME NEW g \in Flows, NEW s \in Services, BeginConnect(g, s) PROVE FALSE
  <2>1. f # g /\ f \notin Superseded(s)
    BY <1>1 DEF BeginConnect, Superseded
  <2> QED BY <1>1, <2>1 DEF BeginConnect
<1>2. ASSUME NEW g \in Flows, FlowLapses(g) PROVE FALSE
  BY <1>0, <1>2 DEF FlowLapses, FlowRow
<1>3. ASSUME NEW g \in Flows, CliAbandons(g) PROVE connCli[f].pc = "abandon"
  BY <1>0, <1>3 DEF CliAbandons, CancelFlow
<1>4. ASSUME NEW c \in Callbacks, NEW g \in Flows, NEW p \in Providers, DenialLoads(c, g, p) PROVE FALSE
  BY <1>0, <1>4 DEF DenialLoads, FlowRow
<1>5. ASSUME NEW c \in Callbacks, CallbackConsumes(c)
      PROVE  connCb[c] = [pc |-> "loaded", flow |-> f]
  BY <1>0, <1>5 DEF CallbackConsumes, CbRow
<1>6. ASSUME NEW c \in Callbacks, DenialStamps(c) PROVE FALSE
  <2>1. connCb[c].flow \in Flows
    BY <1>0, <1>6 DEF DenialStamps, CbsGood, CbGood
  <2> QED BY <1>0, <1>6, <2>1 DEF DenialStamps, FlowRow
<1>7. CASE ConnFlowNext
  BY <1>1, <1>2, <1>3, <1>4, <1>5, <1>6, <1>7 DEF ConnFlowNext, CliPolls, CallbackLoads, ExchangeCode,
     CallbackConnects
<1>8. CASE ConnCallNext
  BY <1>8 DEF ConnCallNext, DisconnectService, TokenExpires, CallReads, CallDecides,
     ProviderRefreshes, RefreshLands, OnlyCall
<1> QED BY <1>7, <1>8 DEF ConnNext, connVars

\* For any services, flows, redirects and calls: what a user consented to,
\* dropped or denied is undone by the user only. No refresh that comes back
\* late replaces or revives a connection, no newer flow removes a denial, and
\* the CLI reports a denial only where the user made one.
THEOREM TheUsersWordStands == ConnSpec => AnswersStand
<1>1. ConnSpec => []ConnInv
  BY InvInit, InvNext, PTL DEF ConnSpec
<1>2. ConnInv /\ ConnInv' /\ [ConnNext]_connVars => [ConsentStep]_connVars /\ [DenialStep]_connVars
  BY ConsentHolds, DenialHolds
<1>3. ConnSpec => [][ConsentStep]_connVars /\ [][DenialStep]_connVars
  BY <1>1, <1>2, PTL DEF ConnSpec
<1> QED BY <1>3 DEF AnswersStand, ConsentStands, DenialStands, ConsentStep, DenialStep
=============================================================================
