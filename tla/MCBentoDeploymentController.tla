--------------------- MODULE MCBentoDeploymentController ---------------------
(***************************************************************************)
(* Instances of BentoDeploymentController for TLC.                         *)
(***************************************************************************)
EXTENDS BentoDeploymentController

CONSTANTS b1, plain, debug, api, apiDebug, hpa, service

\* What a pass applies, in the order of Reconcile: the API server's Deployment, then its
\* debug twin, the HPA and the Service.  Each instance takes the part of it that its
\* question is about.
ApiSteps   == [b \in Bentos |-> <<api>>]
AllSteps   == [b \in Bentos |-> <<api, hpa, service>>]
DebugSteps == [b \in Bentos |-> <<apiDebug, hpa, service>>]
TwinSteps  == [b \in Bentos |-> <<apiDebug, service>>]

\* Who wants what: every child but the debug twin is wanted by every config.
Wants == [c \in Children |-> IF c = apiDebug THEN Configs \cap {debug} ELSE Configs]
=============================================================================
