------------------------------- MODULE MCParts -------------------------------
(***************************************************************************)
(* TLC instance of four components that share no state with one another:   *)
(* connections, the conversation buffer, spending and the audit chain.     *)
(* A behaviour is a behaviour of one of them, chosen at the start.         *)
(***************************************************************************)
EXTENDS Connections, Conversation, Spending, AuditChain, TLC

CONSTANTS s1, p1, p2, f1, f2, c1, c2, k1, k2,   \* Connections
          r1, r2,                               \* Conversation
          q1, q2, q3, a1, a2                    \* Spending

VARIABLE part      \* the component this behaviour is of

MCProviderOf == [s \in Services |-> p1]
MCCents == (q1 :> 1) @@ (q2 :> 2) @@ (q3 :> NoPrice)
MCDays == 1..2

partsVars == <<part, connVars, cvVars, spVars, chainVars>>

PartsInit ==
    /\ part \in {"connections", "conversation", "spending", "audit"}
    /\ ConnInit /\ ConvInit /\ SpendInit /\ ChainInit

PartsNext ==
    \/ part = "connections" /\ ConnNext /\ UNCHANGED <<part, cvVars, spVars, chainVars>>
    \/ part = "conversation" /\ ConvNext /\ UNCHANGED <<part, connVars, spVars, chainVars>>
    \/ part = "spending" /\ SpendNext /\ UNCHANGED <<part, connVars, cvVars, chainVars>>
    \/ part = "audit" /\ ChainNext /\ UNCHANGED <<part, connVars, cvVars, spVars>>

PartsSpec == PartsInit /\ [][PartsNext]_partsVars
=============================================================================
