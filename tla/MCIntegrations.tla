--------------------------- MODULE MCIntegrations ---------------------------
(***************************************************************************)
(* The instrumentation modules: servers, clients and bridges, each with    *)
(* its own variables; "part" says which of them a behaviour is about.      *)
(***************************************************************************)
EXTENDS ServerMiddleware, ClientSpans, Bridges

VARIABLE part

integrationVars == <<serverVars, callVars, exchangeVars, streamVars, contextVars, lifeVars>>
IntegrationParts == {"servers", "calls", "exchange", "stream", "contexts", "life"}

\* The parts that do not take steps are in one of their initial states.
IntegrationInit ==
    /\ ServerInit /\ CallInit /\ ExchangeInit /\ StreamInit /\ ContextInit /\ LifeInit
    /\ part # "servers" => srv[CHOOSE r \in ServerReq : TRUE].fw = CHOOSE f \in Frameworks : TRUE
    /\ part # "calls" => spansLeft = 0
    /\ part # "contexts" => bridge = CHOOSE b \in BridgeKinds : TRUE
    /\ part # "life" => bspan = NewBridged(CHOOSE b \in BridgeKinds : TRUE, "tx")

IntegrationNext ==
    \/ /\ part = "servers" /\ ServerNext
       /\ UNCHANGED <<part, callVars, exchangeVars, streamVars, contextVars, lifeVars>>
    \/ /\ part = "calls" /\ CallNext
       /\ UNCHANGED <<part, serverVars, exchangeVars, streamVars, contextVars, lifeVars>>
    \/ /\ part = "exchange" /\ ExchangeNext
       /\ UNCHANGED <<part, serverVars, callVars, streamVars, contextVars, lifeVars>>
    \/ /\ part = "stream" /\ StreamNext
       /\ UNCHANGED <<part, serverVars, callVars, exchangeVars, contextVars, lifeVars>>
    \/ /\ part = "contexts" /\ ContextNext
       /\ UNCHANGED <<part, serverVars, callVars, exchangeVars, streamVars, lifeVars>>
    \/ /\ part = "life" /\ LifeNext
       /\ UNCHANGED <<part, serverVars, callVars, exchangeVars, streamVars, contextVars>>

IntegrationSpec ==
    /\ part \in IntegrationParts /\ IntegrationInit
    /\ [][IntegrationNext]_<<part, integrationVars>>
=============================================================================
