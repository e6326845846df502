---------------------------- MODULE MCAlgorithms ----------------------------
(***************************************************************************)
(* What the agent computes, traces, encodings, reports of errors, matching *)
(* and settings, beside the instrumentation modules; each has its own      *)
(* variables, and "part" says which of them a behaviour is about.          *)
(***************************************************************************)
EXTENDS MCIntegrations, TraceContext, Encoding, ErrorCapture, Settings

CONSTANTS sA, sB, sC, sD

MCStrategy == sA :> "continue" @@ sB :> "restart" @@ sC :> "restart_external" @@ sD :> "continue"
MCRate == sA :> 5000 @@ sB :> -1 @@ sC :> 10000 @@ sD :> 0

algorithmVars == <<traceVars, encVars, errorVars, wildcardVars, settingsVars>>
AlgorithmParts == {"traces", "encoding", "causes", "links", "wildcards", "settings"}

\* The parts that do not take steps are in one of their initial states.
AlgorithmInit ==
    /\ TraceInit /\ EncInit /\ ErrorInit
    /\ IF part = "wildcards" THEN WildcardInit ELSE NoWildcards
    /\ IF part = "settings" THEN SettingsInit ELSE NoSettings

AlgorithmNext ==
    \/ /\ part = "traces" /\ TraceNext
       /\ UNCHANGED <<part, encVars, errorVars, wildcardVars, settingsVars>>
    \/ /\ part = "encoding" /\ EncNext
       /\ UNCHANGED <<part, traceVars, errorVars, wildcardVars, settingsVars>>
    \/ /\ part = "causes" /\ CaptureNext
       /\ UNCHANGED <<part, traceVars, encVars, wildcardVars, settingsVars>>
    \/ /\ part = "links" /\ LinkNext
       /\ UNCHANGED <<part, traceVars, encVars, wildcardVars, settingsVars>>
    \/ /\ part = "wildcards" /\ WildcardNext
       /\ UNCHANGED <<part, traceVars, encVars, errorVars, settingsVars>>
    \/ /\ part = "settings" /\ SettingsNext
       /\ UNCHANGED <<part, traceVars, encVars, errorVars, wildcardVars>>

AllInit == part \in AlgorithmParts \cup IntegrationParts /\ AlgorithmInit /\ IntegrationInit
AllNext ==
    \/ AlgorithmNext /\ UNCHANGED integrationVars
    \/ IntegrationNext /\ UNCHANGED algorithmVars
AllSpec == AllInit /\ [][AllNext]_<<part, algorithmVars, integrationVars>>
=============================================================================
