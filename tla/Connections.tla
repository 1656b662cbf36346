---------------------------- MODULE Connections ----------------------------
(***************************************************************************)
(* Connecting a service and keeping its credential: the connect entry, the *)
(* OAuth callback and the flow routes (packages/engine/src/index.ts), the  *)
(* oauth_state and connected_services rows of the user's agent, the        *)
(* provider strategies (packages/tools/src/services/*/provider.ts), the    *)
(* single-flight refresher (packages/credentials) and the CLI's wait for   *)
(* the flow (packages/cli/src/commands/connect.ts).                        *)
(*                                                                         *)
(* Every call into the agent is one step; a Worker handler that makes      *)
(* several is several steps, and so is a read and the use of what it read  *)
(* after a decryption or a request to the provider. A flow names the       *)
(* consent it asks for. A credential is the flow it came from and how      *)
(* often it was refreshed since, which also tells ciphertexts apart.       *)
(***************************************************************************)
EXTENDS Integers, FiniteSets

CONSTANTS Services, Providers,
          ProviderOf,        \* the provider of each service
          Rotating,          \* the providers whose refresh tokens are single-use
          Flows,             \* bound: the flows that are begun
          Callbacks, Calls,  \* bound: browser redirects and tool calls
          MaxGen,            \* bound: refreshes of one consent
          None

ASSUME ProviderAssumption == ProviderOf \in [Services -> Providers] /\ Rotating \subseteq Providers
ASSUME GenAssumption == MaxGen \in Nat /\ None \notin Flows \cup Calls \cup Services \cup {"denied"}

VARIABLES
    connRow,     \* connected_services, by service
    connFlow,    \* oauth_state, by state key
    connCb,      \* the redirects being handled
    connCall,    \* the tool calls that need a credential
    connFlight,  \* the refresher's in-flight map
    connRefresh, \* at the provider: the refresh token that works, by consent
    connExpired, \* the access tokens past their time
    connLost,    \* the consents a refresh answer of which was lost
    connCli      \* the CLI that began the flow

connVars == <<connRow, connFlow, connCb, connCall, connFlight, connRefresh, connExpired, connLost, connCli>>

Credential == [flow: Flows, gen: 0..MaxGen]

FlowRow == [st: {"new", "pending", "denied", "gone"}, svc: Services \cup {None},
            lapsed: BOOLEAN, said: BOOLEAN]  \* said: the user did deny it

ConnTypeOK ==
    /\ connRow \in [Services -> Credential \cup {None}]
    /\ connFlow \in [Flows -> FlowRow]
    /\ connCb \in [Callbacks -> [pc: {"idle", "loaded", "consumed", "minted", "stamp", "done"},
                                 flow: Flows \cup {None}]]
    /\ connCall \in [Calls -> [pc: {"idle", "decrypt", "network", "encrypt", "joined"},
                               svc: Services \cup {None}, cred: Credential \cup {None}]]
    /\ connFlight \in [Services -> Calls \cup {None}]
    /\ connRefresh \in [Flows -> 0..MaxGen]
    /\ connExpired \subseteq Credential /\ connLost \subseteq Flows
    /\ connCli \in [Flows -> [pc: {"none", "wait", "abandon", "end"},
                              out: {"denied", "expired", "timeout", "cancelled", None}]]

ConnInit ==
    /\ connRow = [s \in Services |-> None]
    /\ connFlow = [f \in Flows |-> [st |-> "new", svc |-> None, lapsed |-> FALSE, said |-> FALSE]]
    /\ connCb = [c \in Callbacks |-> [pc |-> "idle", flow |-> None]]
    /\ connCall = [k \in Calls |-> [pc |-> "idle", svc |-> None, cred |-> None]]
    /\ connFlight = [s \in Services |-> None]
    /\ connRefresh = [f \in Flows |-> 0]
    /\ connExpired = {} /\ connLost = {}
    /\ connCli = [f \in Flows |-> [pc |-> "none", out |-> None]]

Present(f) == connFlow[f].st \in {"pending", "denied"}

-----------------------------------------------------------------------------
(* The flow: the connect entry, the redirect, cancel.                      *)

\* The redirect is answered.
Handled == [pc |-> "done", flow |-> None]

OnlyFlow == UNCHANGED <<connRow, connCb, connCall, connFlight, connRefresh, connExpired, connLost>>
OnlyCallback == UNCHANGED <<connCall, connFlight, connRefresh, connExpired, connLost, connCli>>

\* deleteOAuthStateByService: the pending rows only, a denial stays to be seen.
Superseded(s) == {f \in Flows : connFlow[f].st = "pending" /\ connFlow[f].svc = s}

\* handleConnectEntry for an OAuth service, and storeOAuthState in one
\* transaction. The answer takes the CLI to its wait, or never arrives.
BeginConnect(f, s) ==
    /\ connFlow[f].st = "new"
    /\ connFlow' = [g \in Flows |->
         CASE g = f -> [st |-> "pending", svc |-> s, lapsed |-> FALSE, said |-> FALSE]
           [] g \in Superseded(s) -> [connFlow[g] EXCEPT !.st = "gone"]
           [] OTHER -> connFlow[g]]
    /\ \E pc \in {"wait", "none"} : connCli' = [connCli EXCEPT ![f].pc = pc]
    /\ OnlyFlow

\* The ten minutes of a pending flow pass.
FlowLapses(f) ==
    /\ Present(f) /\ ~connFlow[f].lapsed
    /\ connFlow' = [connFlow EXCEPT ![f].lapsed = TRUE]
    /\ OnlyFlow /\ UNCHANGED connCli

\* handleOAuthCallback after consent, up to the consume: the row is loaded,
\* not consumed, its service must be the provider's, and the redirect base
\* must resolve. A refusal leaves the row.
CallbackLoads(c, f, p) ==
    /\ connCb[c].pc = "idle"
    /\ connFlow[f].st # "new"
    /\ LET ok == Present(f) /\ ~connFlow[f].lapsed /\ ProviderOf[connFlow[f].svc] = p
       IN  \E good \in {ok, FALSE} :
             connCb' = [connCb EXCEPT ![c] = IF good THEN [pc |-> "loaded", flow |-> f] ELSE Handled]
    /\ UNCHANGED <<connRow, connFlow>> /\ OnlyCallback

\* Wrong: the row is taken as loaded, without another look.
ConsumesBlindly(c) ==
    /\ connCb[c].pc = "loaded"
    /\ connFlow' = [connFlow EXCEPT ![connCb[c].flow].st = "gone"]
    /\ connCb' = [connCb EXCEPT ![c].pc = "consumed"]
    /\ UNCHANGED connRow /\ OnlyCallback

\* consumeOAuthState: read and delete in one transaction; whoever comes second
\* finds nothing, a lapsed row is deleted and refused.
CallbackConsumes(c) ==
    /\ connCb[c].pc = "loaded"
    /\ LET f == connCb[c].flow
       IN  /\ connFlow' = IF Present(f) THEN [connFlow EXCEPT ![f].st = "gone"] ELSE connFlow
           /\ connCb' = [connCb EXCEPT ![c] = IF Present(f) /\ ~connFlow[f].lapsed
                                              THEN [@ EXCEPT !.pc = "consumed"] ELSE Handled]
    /\ UNCHANGED connRow /\ OnlyCallback

\* exchangeCode: the provider's answer is a usable credential, or it throws
\* (refused, no access token, no refresh token of a rotating provider).
ExchangeCode(c) ==
    /\ connCb[c].pc = "consumed"
    /\ \/ connCb' = [connCb EXCEPT ![c].pc = "minted"]
       \/ connCb' = [connCb EXCEPT ![c] = Handled]
    /\ UNCHANGED <<connRow, connFlow>> /\ OnlyCallback

\* connectService: the row is created, or its credential replaced.
CallbackConnects(c) ==
    /\ connCb[c].pc = "minted"
    /\ connRow' = [connRow EXCEPT ![connFlow[connCb[c].flow].svc] =
                     [flow |-> connCb[c].flow, gen |-> 0]]
    /\ connCb' = [connCb EXCEPT ![c] = Handled]
    /\ UNCHANGED connFlow /\ OnlyCallback

\* The redirect with ?error=: the raw row, lapsed or not, of this provider.
DenialLoads(c, f, p) ==
    /\ connCb[c].pc = "idle"
    /\ connFlow[f].st # "new"
    /\ LET mine == Present(f) /\ ProviderOf[connFlow[f].svc] = p
       IN  /\ connCb' = [connCb EXCEPT ![c] = IF mine THEN [pc |-> "stamp", flow |-> f] ELSE Handled]
           /\ connFlow' = [connFlow EXCEPT ![f].said = @ \/ mine]
    /\ UNCHANGED connRow /\ OnlyCallback

\* markOAuthFlowDenied: a row that is gone is not stamped.
DenialStamps(c) ==
    /\ connCb[c].pc = "stamp"
    /\ connFlow' = [connFlow EXCEPT ![connCb[c].flow].st = IF @ = "pending" THEN "denied" ELSE @]
    /\ connCb' = [connCb EXCEPT ![c] = Handled]
    /\ UNCHANGED connRow /\ OnlyCallback

-----------------------------------------------------------------------------
(* The CLI waits.                                                          *)

\* readConnectFlowStatus: a row answers for itself, an absent one is pending
\* until the service is connected.
FlowStatus(f) ==
    IF Present(f)
    THEN IF connFlow[f].st = "denied" THEN "denied"
         ELSE IF connFlow[f].lapsed THEN "expired" ELSE "pending"
    ELSE IF connRow[connFlow[f].svc] # None THEN "connected" ELSE "pending"

\* One turn of runConnect's loop: connected ends it, denied and expired do
\* after the cleanup, and so does the ceiling when the answer was pending or
\* unreadable. A cancel asks once more, and believes only connected.
CliPolls(f) ==
    /\ connCli[f].pc = "wait"
    /\ LET s == FlowStatus(f)
           abandon(o) == connCli' = [connCli EXCEPT ![f] = [pc |-> "abandon", out |-> o]]
       IN  \/ s = "connected" /\ connCli' = [connCli EXCEPT ![f].pc = "end"]
           \/ s \in {"denied", "expired"} /\ abandon(s)
           \/ abandon("timeout")           \* pending, or the read failed
           \/ abandon("cancelled")
    /\ OnlyFlow /\ UNCHANGED connFlow

\* cancelOAuthFlow behind its route: the row goes; cancelling twice is no error.
CancelFlow(f) == IF Present(f) THEN [connFlow EXCEPT ![f].st = "gone"] ELSE connFlow

\* abandon: one attempt to cancel, which may be lost.
CliAbandons(f) ==
    /\ connCli[f].pc = "abandon"
    /\ connFlow' \in {CancelFlow(f), connFlow}
    /\ connCli' = [connCli EXCEPT ![f] = [pc |-> "end", out |-> None]]
    /\ OnlyFlow

\* disconnectService: the row and its credential go together.
DisconnectService(s) ==
    /\ connRow[s] # None
    /\ connRow' = [connRow EXCEPT ![s] = None]
    /\ UNCHANGED <<connFlow, connCb, connCall, connFlight, connRefresh, connExpired, connLost, connCli>>

-----------------------------------------------------------------------------
(* The credential of a tool call.                                          *)

OnlyCall == UNCHANGED <<connRow, connFlow, connCb, connRefresh, connExpired, connLost, connCli>>

NoCall == [pc |-> "idle", svc |-> None, cred |-> None]

Moves(k, pc) == connCall' = [connCall EXCEPT ![k].pc = pc]

\* Who waits on a refresh: its starter, and the calls that joined.
Waiters(k) == {j \in Calls : j = k \/ /\ connCall[j].pc = "joined"
                                      /\ connCall[j].svc = connCall[k].svc}

\* The refresh promise settles, one way or the other, and leaves the map.
Settle(k) ==
    /\ connCall' = [j \in Calls |-> IF j \in Waiters(k) THEN NoCall ELSE connCall[j]]
    /\ connFlight' = [connFlight EXCEPT ![connCall[k].svc] = None]

\* getValidCredential: the ciphertext is read, then decrypted.
CallReads(k, s) ==
    /\ connCall[k].pc = "idle"
    /\ connRow[s] # None
    /\ connCall' = [connCall EXCEPT ![k] = [pc |-> "decrypt", svc |-> s, cred |-> connRow[s]]]
    /\ UNCHANGED connFlight /\ OnlyCall

\* The access token is good for another minute and is handed out (or does not
\* decrypt); or a refresh is on its way; or this call starts one.
CallDecides(k) ==
    /\ connCall[k].pc = "decrypt"
    /\ LET s == connCall[k].svc
           expired == connCall[k].cred \in connExpired
       IN  \/ connCall' = [connCall EXCEPT ![k] = NoCall] /\ UNCHANGED connFlight
           \/ expired /\ connFlight[s] # None /\ Moves(k, "joined") /\ UNCHANGED connFlight
           \/ /\ expired /\ connFlight[s] = None /\ Moves(k, "network")
              /\ connFlight' = [connFlight EXCEPT ![s] = k]
    /\ OnlyCall

\* The provider takes the refresh token, unless it is spent.
Takes(s, cred) == ProviderOf[s] \in Rotating => cred.gen = connRefresh[cred.flow]

\* The provider answers: a refused token or a failure settles the refresh, a
\* new credential goes on to be encrypted. A rotating provider has replaced
\* the refresh token, and the answer that says so may be lost or unusable.
ProviderRefreshes(k) ==
    /\ connCall[k].pc = "network"
    /\ LET cred == connCall[k].cred
           s == connCall[k].svc
       IN  \/ Settle(k) /\ UNCHANGED <<connRefresh, connLost>>
           \/ /\ Takes(s, cred) /\ cred.gen < MaxGen
              /\ connRefresh' = [connRefresh EXCEPT ![cred.flow] =
                                   IF ProviderOf[s] \in Rotating THEN cred.gen + 1 ELSE @]
              /\ \/ /\ Moves(k, "encrypt")
                    /\ UNCHANGED <<connFlight, connLost>>
                 \/ Settle(k) /\ connLost' = connLost \cup {cred.flow}
    /\ UNCHANGED <<connRow, connFlow, connCb, connExpired, connCli>>

\* Wrong: the write-back does not compare the ciphertext.
LandsOnAnyRow(s, cred) == connRow[s] # None

\* writeCredential: the update matches the ciphertext the refresh read.
Lands(s, cred) == connRow[s] = cred

\* The credential a refresh stores: a rotating provider's new refresh token
\* rides along.
Refreshed(cred) == [cred EXCEPT !.gen = @ + 1]

\* storeCredential and the answer to everybody who waits.
RefreshLands(k) ==
    /\ connCall[k].pc = "encrypt"
    /\ LET s == connCall[k].svc
           cred == connCall[k].cred
       IN  IF Lands(s, cred)
           THEN connRow' = [connRow EXCEPT ![s] = Refreshed(cred)] /\ Settle(k)
           ELSE UNCHANGED connRow /\ Settle(k)
    /\ UNCHANGED <<connFlow, connCb, connRefresh, connExpired, connLost, connCli>>

TokenExpires(s) ==
    /\ connRow[s] # None /\ connRow[s] \notin connExpired
    /\ connExpired' = connExpired \cup {connRow[s]}
    /\ UNCHANGED <<connRow, connFlow, connCb, connCall, connFlight, connRefresh, connLost, connCli>>

-----------------------------------------------------------------------------
ConnFlowNext ==
    \/ \E f \in Flows, s \in Services : BeginConnect(f, s)
    \/ \E f \in Flows : FlowLapses(f) \/ CliPolls(f) \/ CliAbandons(f)
    \/ \E c \in Callbacks, f \in Flows, p \in Providers :
         CallbackLoads(c, f, p) \/ DenialLoads(c, f, p)
    \/ \E c \in Callbacks : \/ CallbackConsumes(c) \/ ExchangeCode(c)
                            \/ CallbackConnects(c) \/ DenialStamps(c)

ConnCallNext ==
    \/ \E s \in Services : DisconnectService(s) \/ TokenExpires(s)
    \/ \E k \in Calls, s \in Services : CallReads(k, s)
    \/ \E k \in Calls : \/ CallDecides(k) \/ ProviderRefreshes(k)
                        \/ RefreshLands(k)

ConnNext == ConnFlowNext \/ ConnCallNext

ConnSpec == ConnInit /\ [][ConnNext]_connVars

-----------------------------------------------------------------------------
\* One flow of a service is pending at a time, and one redirect redeems it:
\* between the load and the exchange lie awaits, and a reload of the page or a
\* newer connect may come first.
OneRedemption ==
    /\ \A f, g \in Flows : connFlow[f].st = "pending" /\ connFlow[g].st = "pending"
                           /\ connFlow[f].svc = connFlow[g].svc => f = g
    /\ \A c, d \in Callbacks :
         connCb[c].pc \in {"consumed", "minted"} /\ connCb[d].pc \in {"consumed", "minted"}
         /\ connCb[c].flow = connCb[d].flow => c = d

\* A stored credential of a rotating provider can be refreshed, unless its
\* refresh is on the way or an answer of its provider was lost: no interleaving
\* of refreshes, reconnects and disconnects leaves a spent refresh token behind.
NeverBricked ==
    \A s \in Services :
      connRow[s] # None /\ ProviderOf[s] \in Rotating
      /\ connRow[s].gen # connRefresh[connRow[s].flow] =>
        \/ connRow[s].flow \in connLost
        \/ /\ connFlight[s] # None /\ connCall[connFlight[s]].pc = "encrypt"
           /\ connCall[connFlight[s]].cred = connRow[s]

\* One redirect redeems one flow, and no interleaving leaves a connection that
\* its provider will not refresh.
ConnectionsSound == ConnTypeOK /\ OneRedemption /\ NeverBricked

\* What a user consented to is replaced by a newer consent only, and a
\* disconnected service stays so: no refresh, however late, brings back or
\* replaces a connection made or dropped while it waited on the network.
ConsentStands ==
    [][\A s \in Services : connRow'[s] # connRow[s] =>
         \/ connRow'[s] = None
         \/ connRow[s] # None /\ connRow'[s].flow = connRow[s].flow
         \/ \E c \in Callbacks : connCb[c].pc = "minted" /\ connCb'[c].pc = "done"
                                 /\ connRow'[s].flow = connCb[c].flow]_connVars

\* A denial stays to be seen: a denied flow disappears only through its own
\* client, or through a later consent to it. And the CLI reports a denial only
\* where the user made one.
DenialStands ==
    [][\A f \in Flows :
         /\ connFlow[f].st = "denied" /\ connFlow'[f].st # "denied" =>
              connCli[f].pc = "abandon" \/ \E c \in Callbacks : connCb[c] = [pc |-> "loaded", flow |-> f]
         /\ connCli'[f].out = "denied" => connFlow'[f].said]_connVars

\* The user's word stands: what was consented to, dropped or denied is undone by
\* the user only, never by a refresh, a callback or a newer flow that was late.
AnswersStand == ConsentStands /\ DenialStands
=============================================================================
