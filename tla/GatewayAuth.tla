------------------------------ MODULE GatewayAuth ------------------------------
(***************************************************************************)
(* How the processes that serve /mcp follow the wizard: verify_mcp_auth of *)
(* api/auth_simple.py, and the caches of services/service_token_cache.py   *)
(* and services/email_policy_cache.py it decides by.                       *)
(*                                                                         *)
(* Each process has both caches.  A request reloads a cache that is over   *)
(* its TTL: it reads the committed rows, and sets the cache when it goes   *)
(* on, which may be later than another load or a commit.  The process of   *)
(* the wizard also invalidates and reloads one of them at the end of       *)
(* deploy_worker, configure_worker_jwt and update_access_policy -- in a    *)
(* session of its own, before the handler commits.  Time is that a TTL may *)
(* pass in any state.  Decryption always succeeds here.                    *)
(***************************************************************************)
EXTENDS CloudflareSetup

CONSTANTS
    Processes,      \* "backend" and "gateway", or only the first
    Unknown         \* what a load of the rows gets when the database fails

ASSUME AuthConstantsOK ==
    Processes \subseteq {"backend", "gateway"} /\ Unknown \notin Policies \cup Nat

VARIABLES
    cache,      \* cache[p][c]: value, _db_error, and whether it is within its TTL
    loading,    \* loading[p][c]: what the load of a request has read
    lastRead    \* history: the token the last load that set the cache had read

cacheVars == <<cache, loading, lastRead>>
authVars == <<setupVars, cacheVars>>
-----------------------------------------------------------------------------
Caches == {"token", "policy"}

NotLoading == [busy |-> FALSE, read |-> Unknown]

\* No token, or no policy.
Nothing(c) == IF c = "token" THEN 0 ELSE NoPolicy

\* select ... where status = 'active', scalar_one_or_none: with two rows it raises,
\* which the caches take for a database that cannot be reached.
Stored(c) ==
    IF Cardinality(Active) > 1 THEN Unknown
    ELSE IF Active = {} THEN Nothing(c)
    ELSE LET k == CHOOSE x \in Active : TRUE
         IN IF c = "token" THEN config[k].token ELSE config[k].policy

\* Mutant of Loaded: a failure is not remembered when there is no value to keep.
LoadedOpen(c, x, read) ==
    IF read # Unknown THEN [val |-> read, err |-> FALSE, fresh |-> TRUE] ELSE x

\* Mutant of Loaded: without an active row the cache stays as it is.
LoadedKeeping(c, x, read) ==
    IF read = Nothing(c) THEN [x EXCEPT !.fresh = TRUE]
    ELSE IF read # Unknown THEN [val |-> read, err |-> FALSE, fresh |-> TRUE]
    ELSE [x EXCEPT !.err = @ \/ x.val = Nothing(c)]

\* load: on an error the last known value is kept, and without one everything is
\* denied; the stamp is left alone, so that the next access tries again.
Loaded(c, x, read) ==
    IF read # Unknown THEN [val |-> read, err |-> FALSE, fresh |-> TRUE]
    ELSE [x EXCEPT !.err = @ \/ x.val = Nothing(c)]

\* invalidate; that of the token cache does not reset _db_error.
Invalidated(c, x) == [val |-> Nothing(c), err |-> c = "token" /\ x.err, fresh |-> FALSE]

\* is_auth_enabled
AuthEnabled(x) == x.val # 0 \/ x.err

AuthInit ==
    /\ SetupInit
    /\ cache = [p \in Processes |-> [c \in Caches |->
                  [val |-> Stored(c), err |-> FALSE, fresh |-> TRUE]]]
    /\ loading = [p \in Processes |-> [c \in Caches |-> NotLoading]]
    /\ lastRead = [p \in Processes |-> Stored("token")]
-----------------------------------------------------------------------------
SetCache(p, c, x) == cache' = [cache EXCEPT ![p][c] = x]

ExpireEntry(p, c) ==
    /\ cache[p][c].fresh
    /\ SetCache(p, c, [cache[p][c] EXCEPT !.fresh = FALSE])
    /\ UNCHANGED <<setupVars, loading, lastRead>>

\* _refresh_if_stale: the query of a load.
BeginLoad(p, c) ==
    /\ ~cache[p][c].fresh /\ ~loading[p][c].busy
    /\ \/ loading' = [loading EXCEPT ![p][c] = [busy |-> TRUE, read |-> Stored(c)]]
          /\ UNCHANGED faults
       \/ loading' = [loading EXCEPT ![p][c] = [busy |-> TRUE, read |-> Unknown]]
          /\ faults < MaxFaults /\ faults' = faults + 1
    /\ UNCHANGED <<config, order, remote, op, made, unsure, steps, cache, lastRead>>

\* A load of cache c that read this sets the cache.
Load(p, c, read) ==
    /\ SetCache(p, c, Loaded(c, cache[p][c], read))
    /\ lastRead' = IF c = "token" /\ read # Unknown THEN [lastRead EXCEPT ![p] = read]
                   ELSE lastRead

\* The load sets the cache, and the request is decided by it.
EndLoad(p, c) ==
    /\ loading[p][c].busy
    /\ Load(p, c, loading[p][c].read)
    /\ loading' = [loading EXCEPT ![p][c] = NotLoading]
    /\ UNCHANGED setupVars

\* The process ends and begins again: both caches are loaded at startup.
RestartProcess(p) ==
    /\ faults < MaxFaults /\ faults' = faults + 1
    /\ \E read \in {Stored("token"), Unknown} :
         /\ cache' = [cache EXCEPT ![p] = [c \in Caches |->
                        Loaded(c, [val |-> Nothing(c), err |-> FALSE, fresh |-> FALSE],
                               IF read = Unknown THEN Unknown ELSE Stored(c))]]
         /\ lastRead' = [lastRead EXCEPT ![p] = IF read = Unknown THEN @ ELSE read]
    /\ loading' = [loading EXCEPT ![p] = [c \in Caches |-> NotLoading]]
    /\ p = "backend" => op.kind = "none"
    /\ UNCHANGED <<config, order, remote, op, made, unsure, steps>>
-----------------------------------------------------------------------------
\* The cache the step under way refreshes.
ToRefresh ==
    CASE op.kind = "deploy" -> "token"
      [] op.kind \in {"configure", "policy"} -> "policy"
      [] OTHER -> "none"

InvalidateCache ==
    /\ op.phase = "refresh" /\ ToRefresh # "none"
    /\ SetCache("backend", ToRefresh, Invalidated(ToRefresh, cache["backend"][ToRefresh]))
    /\ op' = [op EXCEPT !.phase = "load"]
    /\ UNCHANGED <<config, order, remote, made, unsure, steps, faults, loading, lastRead>>

\* The load after invalidate reads what is committed: not yet this step.
ReloadCache ==
    /\ op.phase = "load"
    /\ Load("backend", ToRefresh, Stored(ToRefresh))
    /\ op' = [op EXCEPT !.phase = "commit"]
    /\ UNCHANGED <<config, order, remote, made, unsure, steps, faults, loading>>

NothingToRefresh ==
    /\ op.phase = "refresh" /\ ToRefresh = "none"
    /\ op' = [op EXCEPT !.phase = "commit"]
    /\ UNCHANGED <<config, order, remote, made, unsure, steps, faults, cacheVars>>

AuthNext ==
    \/ WizardStep /\ UNCHANGED cacheVars
    \/ InvalidateCache
    \/ ReloadCache
    \/ NothingToRefresh
    \/ CommitStep /\ UNCHANGED cacheVars
    \/ \E p \in Processes :
         \/ RestartProcess(p)
         \/ \E c \in Caches : ExpireEntry(p, c) \/ BeginLoad(p, c) \/ EndLoad(p, c)

AuthSpec == AuthInit /\ [][AuthNext]_authVars

\* What ends a step of the wizard.
EndStep ==
    InvalidateCache \/ ReloadCache \/ NothingToRefresh \/ (CommitStep /\ UNCHANGED cacheVars)

\* Steps of the wizard end; time passes; requests keep coming.
AuthFairness ==
    /\ WF_authVars(EndStep)
    /\ \A p \in Processes, c \in Caches :
         WF_authVars(ExpireEntry(p, c)) /\ WF_authVars(BeginLoad(p, c)) /\ WF_authVars(EndLoad(p, c))

FairAuthSpec == AuthSpec /\ AuthFairness
-----------------------------------------------------------------------------
(* Properties.                                                                  *)

\* A cache holds a token that was generated or a policy that may be chosen.
AuthTypeOK ==
    \A p \in Processes, c \in Caches :
        /\ cache[p][c].val \in IF c = "token" THEN 0 .. made ELSE Policies \cup {NoPolicy}
        /\ cache[p][c].err \in BOOLEAN /\ cache[p][c].fresh \in BOOLEAN

\* Fail closed: a request without a token is served as a local one only when the
\* last load of the process that got an answer found no token in the database --
\* whatever loads failed, were overtaken or were cut off by an invalidate.
LocalOnlyIfRead ==
    [][\A p \in Processes :
         /\ cache'[p]["token"].fresh \/ EndLoad(p, "token")
         /\ ~AuthEnabled(cache'[p]["token"])
         => lastRead'[p] = 0]_authVars

\* "Other processes (mcp-gateway) will pick up the change within TTL_SECONDS": once
\* the wizard is left alone and the database answers, every process comes to use
\* the stored token and policy -- unless two rows are active.
CachesConverge ==
    \A p \in Processes, c \in Caches :
        []<>(Cardinality(Active) > 1 \/ cache[p][c].val = Stored(c))
=============================================================================
