---------------------------- MODULE MCNetConnect ----------------------------
(* A frontend started with --reconnect while its server goes away: the      *)
(* threads of the connection and the main loop go on when they can.         *)
EXTENDS NetConnect

Spec == NetInit /\ [][NetNext]_netVars /\ WF_netVars(NetSteps)
=============================================================================
