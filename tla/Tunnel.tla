------------------------------- MODULE Tunnel -------------------------------
(***************************************************************************)
(* The tunnel a backend process runs itself (services/tunnel.py) and the   *)
(* configurations it is started with (services/tunnel_configuration.py,    *)
(* api/tunnel.py, and the one the Cloudflare wizard makes).                *)
(*                                                                         *)
(* start and stop hold one lock across the life of a cloudflared child;    *)
(* the health check takes no lock; the child may die at any moment.  A     *)
(* configuration is activated by one UPDATE of every row and one of its    *)
(* own; the wizard instead clears the rows it found active.                *)
(*                                                                         *)
(* Each of the backend's worker processes has a TunnelService of its own:  *)
(* this is one of them.                                                    *)
(***************************************************************************)
EXTENDS Naturals, FiniteSets

CONSTANTS TunnelRequests,   \* the HTTP requests that can be open together
          Configurations,   \* identities of tunnel_configurations rows
          NoRequester,      \* no request
          MaxStarts         \* bound: the children ever started

ASSUME TunnelConstantsOK ==
    /\ NoRequester \notin TunnelRequests /\ MaxStarts \in Nat

VARIABLES tunnel,       \* _status and _process of the service
          holder,       \* the request that has _lock
          started,      \* the children started so far, numbered
          live,         \* those that run
          config,       \* config[k]: "none" yet, "off", "on" or "gone"
          configLock,   \* configLock[k]: the request whose transaction has the row
          asked,        \* what each request is doing
          crossed       \* history: an activation overlapped the wizard, or a new
                        \* configuration while it was waiting

tunnelVars == <<tunnel, holder, started, live, config, configLock, asked, crossed>>

serviceVars == <<tunnel, holder, started, live>>
rowVars == <<config, configLock, crossed>>

NoChild == 0     \* no child
NotAsked == [op |-> "none", step |-> "none", k |-> CHOOSE k \in Configurations : TRUE,
             seen |-> {}]
Existing == {k \in Configurations : config[k] \in {"off", "on"}}
InUse == {k \in Configurations : config[k] = "on"}

TunnelInit ==
    /\ tunnel = [status |-> "disconnected", process |-> NoChild]
    /\ holder = NoRequester /\ started = 0 /\ live = {}
    /\ config = [k \in Configurations |-> "none"]
    /\ configLock = [k \in Configurations |-> NoRequester]
    /\ asked = [r \in TunnelRequests |-> NotAsked]
    /\ crossed = FALSE

Asks(r, op, step) == asked[r].op = op /\ asked[r].step = step
Ask(r, op, step, k, seen) ==
    /\ asked[r] = NotAsked
    /\ asked' = [asked EXCEPT ![r] = [op |-> op, step |-> step, k |-> k, seen |-> seen]]
StepTo(r, step) == asked' = [asked EXCEPT ![r].step = step]
Replied(r) == asked' = [asked EXCEPT ![r] = NotAsked]
-----------------------------------------------------------------------------
\* start_tunnel reads the active configuration; none, or two, is an error.
ReadActive(r) ==
    \E k \in InUse :
        /\ InUse = {k} /\ Ask(r, "start", "lock", k, {})
        /\ UNCHANGED <<serviceVars, rowVars>>

AskStop(r) ==
    /\ Ask(r, "stop", "lock", NotAsked.k, {})
    /\ UNCHANGED <<serviceVars, rowVars>>

\* Mutant: only a start under way is in the way of another.
RefusesWhileStarting == tunnel.status = "connecting"

RefusesStart ==
    \/ tunnel.status = "connected" /\ tunnel.process # NoChild
    \/ tunnel.status = "connecting"

RefuseStart(r) ==
    /\ Asks(r, "start", "lock") /\ holder = NoRequester /\ RefusesStart
    /\ Replied(r) /\ UNCHANGED <<serviceVars, rowVars>>

LockStart(r) ==
    /\ Asks(r, "start", "lock") /\ holder = NoRequester /\ ~RefusesStart
    /\ holder' = r
    /\ tunnel' = [tunnel EXCEPT !.status = "connecting"]
    /\ StepTo(r, "spawn")
    /\ UNCHANGED <<started, live, rowVars>>

Spawn(r) ==
    /\ Asks(r, "start", "spawn") /\ started < MaxStarts
    /\ started' = started + 1
    /\ live' = live \union {started'}
    /\ tunnel' = [tunnel EXCEPT !.process = started']
    /\ StepTo(r, "wait")
    /\ UNCHANGED <<holder, rowVars>>

\* There is no cloudflared to execute.
SpawnFails(r) ==
    /\ Asks(r, "start", "spawn")
    /\ tunnel' = [status |-> "error", process |-> NoChild]
    /\ holder' = NoRequester
    /\ Replied(r) /\ UNCHANGED <<started, live, rowVars>>

\* _wait_for_tunnel_connection reads that the connection is registered, ...
ReadsConnected(r) ==
    /\ Asks(r, "start", "wait")
    /\ tunnel' = [tunnel EXCEPT !.status = "connected"]
    /\ holder' = NoRequester
    /\ Replied(r) /\ UNCHANGED <<started, live, rowVars>>

\* ... or an error, or nothing in time, or finds the child dead.
GivesUp(r) ==
    /\ Asks(r, "start", "wait")
    /\ tunnel' = [tunnel EXCEPT !.status = "error"]
    /\ StepTo(r, "clean")
    /\ UNCHANGED <<holder, started, live, rowVars>>

\* The child is terminated, and killed if it has not ended after five seconds.
CleansUp(r) ==
    /\ Asks(r, "start", "clean")
    /\ live' = live \ {tunnel.process}
    /\ tunnel' = [tunnel EXCEPT !.process = NoChild]
    /\ holder' = NoRequester
    /\ Replied(r) /\ UNCHANGED <<started, rowVars>>

\* _stop_internal
LockStop(r) ==
    /\ Asks(r, "stop", "lock") /\ holder = NoRequester
    /\ holder' = r /\ StepTo(r, "terminate")
    /\ UNCHANGED <<tunnel, started, live, rowVars>>

Stopped(r) ==
    /\ Asks(r, "stop", "terminate")
    /\ live' = live \ {tunnel.process}
    /\ tunnel' = [status |-> "disconnected", process |-> NoChild]
    /\ holder' = NoRequester
    /\ Replied(r) /\ UNCHANGED <<started, rowVars>>

\* health_check, when someone asks for the status.
HealthCheck ==
    /\ tunnel.status = "connected" /\ tunnel.process \notin live \union {NoChild}
    /\ tunnel' = [status |-> "disconnected", process |-> NoChild]
    /\ UNCHANGED <<holder, started, live, asked, rowVars>>

ChildDies(p) ==
    /\ live' = live \ {p}
    /\ UNCHANGED <<tunnel, holder, started, asked, rowVars>>
-----------------------------------------------------------------------------
Untaken(S) == \A k \in S : configLock[k] = NoRequester

Locked(r, S) == configLock' = [k \in Configurations |->
                                IF k \in S THEN r ELSE configLock[k]]

\* A statement on the rows S takes them, or waits for the transactions that have
\* them.
Send(r, S) ==
    IF Untaken(S)
    THEN /\ asked' = [asked EXCEPT ![r].step = "commit", ![r].seen = S]
         /\ Locked(r, S)
    ELSE /\ asked' = [asked EXCEPT ![r].step = "blocked", ![r].seen = S]
         /\ UNCHANGED configLock

\* The end of a transaction wakes one that waits for nobody else.
EndsRequest(r) ==
    LET released == [k \in Configurations |->
                        IF configLock[k] = r THEN NoRequester ELSE configLock[k]]
        ready == {q \in TunnelRequests : asked[q].step = "blocked"
                                         /\ \A k \in asked[q].seen : released[k] = NoRequester}
    IN IF ready = {}
       THEN configLock' = released /\ Replied(r)
       ELSE \E q \in ready :
              /\ configLock' = [k \in Configurations |->
                                    IF k \in asked[q].seen THEN q ELSE released[k]]
              /\ asked' = [asked EXCEPT ![r] = NotAsked, ![q].step = "commit"]

CreateConfiguration(k) ==
    /\ config[k] = "none" /\ Untaken({k})
    /\ config' = [config EXCEPT ![k] = "off"]
    /\ crossed' = (crossed \/ \E r \in TunnelRequests : Asks(r, "activate", "blocked"))
    /\ UNCHANGED <<serviceVars, configLock, asked>>

Open(op) == \E r \in TunnelRequests : asked[r].op = op

\* activate: the row is there; ...
AskActivate(r, k) ==
    /\ k \in Existing /\ Ask(r, "activate", "flush", k, {})
    /\ crossed' = (crossed \/ Open("wizard"))
    /\ UNCHANGED <<serviceVars, config, configLock>>

\* Mutant: the rows that are active, as the wizard does.
ClearedIfInUse(k) == InUse \union {k}

\* ... every row is cleared, and then this one is set.
Cleared(k) == Existing

SendActivate(r) ==
    /\ Asks(r, "activate", "flush") /\ Send(r, Cleared(asked[r].k))
    /\ UNCHANGED <<serviceVars, config, crossed>>

\* A row that has gone meanwhile fails the request.
CommitActivate(r) ==
    /\ Asks(r, "activate", "commit") /\ EndsRequest(r)
    /\ config' = IF asked[r].k \notin Existing THEN config
                 ELSE [k \in Configurations |->
                        CASE k = asked[r].k -> "on"
                          [] k \in (asked[r].seen \intersect Existing) \ {asked[r].k} -> "off"
                          [] OTHER -> config[k]]
    /\ UNCHANGED <<serviceVars, crossed>>

\* delete looks at the row it loaded.
AskDelete(r, k) ==
    /\ config[k] = "off" /\ Ask(r, "delete", "flush", k, {})
    /\ UNCHANGED <<serviceVars, rowVars>>

SendDelete(r) ==
    /\ Asks(r, "delete", "flush") /\ Send(r, {asked[r].k})
    /\ UNCHANGED <<serviceVars, config, crossed>>

CommitDelete(r) ==
    /\ Asks(r, "delete", "commit") /\ EndsRequest(r)
    /\ config' = [config EXCEPT ![asked[r].k] = "gone"]
    /\ UNCHANGED <<serviceVars, crossed>>

\* create_tunnel of the wizard loads the active rows, clears them and adds one.
WizardLoads(r, k) ==
    /\ config[k] = "none" /\ Untaken({k}) /\ Ask(r, "wizard", "flush", k, InUse)
    /\ crossed' = (crossed \/ Open("wizard") \/ Open("activate"))
    /\ UNCHANGED <<serviceVars, config, configLock>>

WizardSends(r) ==
    /\ Asks(r, "wizard", "flush") /\ Send(r, asked[r].seen)
    /\ UNCHANGED <<serviceVars, config, crossed>>

\* A loaded row that is gone fails the request.
WizardCommits(r) ==
    /\ Asks(r, "wizard", "commit") /\ EndsRequest(r)
    /\ config' = IF asked[r].seen \subseteq Existing /\ config[asked[r].k] = "none"
                 THEN [k \in Configurations |->
                        CASE k = asked[r].k -> "on"
                          [] k \in asked[r].seen -> "off"
                          [] OTHER -> config[k]]
                 ELSE config
    /\ UNCHANGED <<serviceVars, crossed>>

\* Any transaction may fail before its commit.
RollsBack(r) ==
    /\ asked[r].step = "commit" /\ EndsRequest(r)
    /\ UNCHANGED <<serviceVars, config, crossed>>
-----------------------------------------------------------------------------
ServiceStep(r) ==
    \/ ReadActive(r) \/ RefuseStart(r) \/ LockStart(r) \/ Spawn(r) \/ SpawnFails(r)
    \/ ReadsConnected(r) \/ GivesUp(r) \/ CleansUp(r)
    \/ AskStop(r) \/ LockStop(r) \/ Stopped(r)

ConfigurationStep(r) ==
    \/ \E k \in Configurations : AskActivate(r, k) \/ AskDelete(r, k) \/ WizardLoads(r, k)
    \/ SendActivate(r) \/ SendDelete(r) \/ WizardSends(r)
    \/ CommitActivate(r) \/ CommitDelete(r) \/ WizardCommits(r) \/ RollsBack(r)

TunnelNext ==
    \/ \E r \in TunnelRequests : ServiceStep(r) \/ ConfigurationStep(r)
    \/ HealthCheck
    \/ \E p \in live : ChildDies(p)
    \/ \E k \in Configurations : CreateConfiguration(k)

TunnelSpec == TunnelInit /\ [][TunnelNext]_tunnelVars
-----------------------------------------------------------------------------
(* Every variable has its type, and a row is held by a transaction.             *)
TunnelTypeOK ==
    /\ tunnel \in [status : {"disconnected", "connecting", "connected", "error"},
                   process : 0 .. MaxStarts]
    /\ holder \in TunnelRequests \union {NoRequester}
    /\ started \in 0 .. MaxStarts /\ live \subseteq 1 .. started
    /\ config \in [Configurations -> {"none", "off", "on", "gone"}]
    /\ \A k \in Configurations :
        configLock[k] # NoRequester => asked[configLock[k]].step = "commit"
    /\ \A r \in TunnelRequests :
        asked[r].op \in {"start", "stop"} /\ asked[r].step # "lock" <=> holder = r

(* A child that runs is the one the service knows, so that stop ends it, and a  *)
(* service that says it is connected has one: start, stop and a health check    *)
(* that takes no lock never lose a cloudflared between them.                    *)
NoOrphan ==
    /\ live \subseteq {tunnel.process}
    /\ tunnel.status = "connected" => tunnel.process # NoChild

(* "Only one configuration can be active at a time": however activations and    *)
(* deletions overlap, unless the wizard made one during an activation, or one   *)
(* was made that an activation, waiting for the rows of another, does not see.  *)
OneActive == crossed \/ Cardinality(InUse) <= 1
=============================================================================
