------------------------------- MODULE MCLive -------------------------------
(***************************************************************************)
(* The approval workflow, the caches the gateway authenticates with, the   *)
(* circuit breaker and the activity log share no state: a behaviour runs   *)
(* one of them, from its own initial states, and leaves the others in      *)
(* theirs, where - but for the caches, which are loaded whenever they may  *)
(* be - none of their fair actions is enabled.                             *)
(***************************************************************************)
EXTENDS MCToolApproval, GatewayAuth, CircuitBreaker, ActivityLogger

VARIABLE part   \* the part that runs

liveVars == <<vars, authVars, breakerVars, loggerVars, part>>

MCInit ==
    /\ part \in {"approval", "auth", "breaker", "logger"}
    /\ Init /\ (part # "approval" => mode = CHOOSE m \in Modes : TRUE)
    /\ AuthInit /\ (part # "auth" => order = <<>>)
    /\ BreakerInit /\ LoggerInit

MCNext ==
    \/ part = "approval" /\ Next /\ UNCHANGED <<authVars, breakerVars, loggerVars, part>>
    \/ part = "auth" /\ AuthNext /\ UNCHANGED <<vars, breakerVars, loggerVars, part>>
    \/ part = "breaker" /\ BreakerNext /\ UNCHANGED <<vars, authVars, loggerVars, part>>
    \/ part = "logger" /\ LoggerNext /\ UNCHANGED <<vars, authVars, breakerVars, part>>

\* The fairness of each part, while it runs.
MCFairness ==
    /\ WF_authVars(part = "auth" /\ EndStep)
    /\ \A p \in Processes, c \in Caches :
         /\ WF_authVars(part = "auth" /\ ExpireEntry(p, c))
         /\ WF_authVars(part = "auth" /\ BeginLoad(p, c))
         /\ WF_authVars(part = "auth" /\ EndLoad(p, c))
    /\ WF_breakerVars(part = "breaker" /\ Tick)
    /\ \A r \in Requests :
         /\ WF_breakerVars(part = "breaker" /\ Start(r))
         /\ WF_breakerVars(part = "breaker" /\ (Refuse(r) \/ LetThrough(r)))
    /\ LoggerFairness

MCSpec == MCInit /\ [][MCNext]_liveVars /\ MCFairness

\* Types of the parts that run from it (TypeOK is the type invariant of approvals).
LiveTypeOK ==
    /\ SetupTypeOK /\ AuthTypeOK
    /\ BreakerTypeOK
    /\ LoggerTypeOK
=============================================================================
