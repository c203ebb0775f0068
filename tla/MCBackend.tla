----------------------------- MODULE MCBackend -----------------------------
(***************************************************************************)
(* One instance of each of six parts that share no state with one          *)
(* another: a behaviour runs one of them, from its own initial states, and *)
(* leaves the others in theirs.                                            *)
(***************************************************************************)
EXTENDS MCAccessRequests, AdminAuth, Tunnel, ExternalSources, RateLimiter, SandboxRuntime

VARIABLE part   \* the part that runs

\* Small limits: the code's are 60 and 1000 requests at the least.
MCLimits == {[minute |-> 2, hour |-> 3, burst |-> 2, refill |-> 1],
             [minute |-> 1, hour |-> 2, burst |-> 1, refill |-> 1]}

\* Requests are interchangeable, and so are identities of rows.
BackendSymmetry == Symmetry \cup Permutations(AdminRequests)

partVars == <<vars, adminVars, tunnelVars, sourceVars, limiterVars, runtimeVars, part>>

MCInit ==
    /\ part \in {"access", "admin", "tunnel", "sources", "limiter", "runtime"}
    /\ Init /\ (part # "access" => kind = CHOOSE k \in Kinds : TRUE)
    /\ AdminInit /\ TunnelInit /\ SourcesInit
    /\ RuntimeInit /\ (part # "runtime" => approved = [s \in Servers |-> {}])
    /\ LimiterInit /\ (part # "limiter" => limit = CHOOSE l \in Limits : TRUE)

MCNext ==
    \/ /\ part = "access" /\ Next
       /\ UNCHANGED <<adminVars, tunnelVars, sourceVars, limiterVars, runtimeVars, part>>
    \/ /\ part = "admin" /\ AdminNext
       /\ UNCHANGED <<vars, tunnelVars, sourceVars, limiterVars, runtimeVars, part>>
    \/ /\ part = "tunnel" /\ TunnelNext
       /\ UNCHANGED <<vars, adminVars, sourceVars, limiterVars, runtimeVars, part>>
    \/ /\ part = "sources" /\ SourcesNext
       /\ UNCHANGED <<vars, adminVars, tunnelVars, limiterVars, runtimeVars, part>>
    \/ /\ part = "limiter" /\ LimiterNext
       /\ UNCHANGED <<vars, adminVars, tunnelVars, sourceVars, runtimeVars, part>>
    \/ /\ part = "runtime" /\ RuntimeNext
       /\ UNCHANGED <<vars, adminVars, tunnelVars, sourceVars, limiterVars, part>>

MCSpec == MCInit /\ [][MCNext]_partVars

BackendTypeOK ==
    /\ part = "access" => AccessTypeOK
    /\ part = "admin" => AdminTypeOK
    /\ part = "tunnel" => TunnelTypeOK
    /\ part = "sources" => SourcesTypeOK
    /\ part = "limiter" => LimiterTypeOK
    /\ part = "runtime" => RuntimeTypeOK
=============================================================================
