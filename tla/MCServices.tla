----------------------------- MODULE MCServices -----------------------------
(* The services beside the generations share no state: each behaviour of    *)
(* this instance is a behaviour of one of them.                             *)
EXTENDS ScheduledTasks, Sessions, StreamLeases, ContextWindow, ProviderStream, TLC

VARIABLE service

serviceVars == <<service, taskVars, sessionVars, leaseVars, windowVars,
                 providerVars>>

ServicesInit ==
    /\ service \in {"tasks", "sessions", "leases", "window", "provider"}
    /\ service = "window" \/ (systems = <<>> /\ regulars = <<>> /\ budget = 1)
    /\ service = "provider" \/ (frames = <<>> /\ eol = "LF")
    /\ TaskInit /\ SessionInit /\ LeaseInit /\ WindowInit /\ ProviderInit

ServicesNext ==
    \/ /\ service = "tasks" /\ TaskNext
       /\ UNCHANGED <<service, sessionVars, leaseVars, windowVars, providerVars>>
    \/ /\ service = "sessions" /\ SessionNext
       /\ UNCHANGED <<service, taskVars, leaseVars, windowVars, providerVars>>
    \/ /\ service = "leases" /\ LeaseNext
       /\ UNCHANGED <<service, taskVars, sessionVars, windowVars, providerVars>>
    \/ /\ service = "window" /\ WindowNext
       /\ UNCHANGED <<service, taskVars, sessionVars, leaseVars, providerVars>>
    \/ /\ service = "provider" /\ ProviderNext
       /\ UNCHANGED <<service, taskVars, sessionVars, leaseVars, windowVars>>

ServicesSpec == ServicesInit /\ [][ServicesNext]_serviceVars

\* Every variable of the services keeps its type.
ServicesTypeOK == TaskTypeOK /\ SessionTypeOK /\ LeaseTypeOK /\ WindowTypeOK
                  /\ ProviderTypeOK

ServiceSymmetry == Permutations(Passes) \cup Permutations(Pages) \cup Permutations(Streams)
=============================================================================
